--------------------------------- MODULE WebProofs ---------------------------------
(* Theorems about WebSessions: its type invariant, and what holds of          *)
(* credentials, sessions and tickets for any number of administrators,       *)
(* requests, saves, restarts and revocations.                                *)
EXTENDS WebSessions, TLAPS

-----------------------------------------------------------------------------
(* Types.                                                                  *)

LEMMA EpochType ==
  ASSUME TypeOK, NEW u \in Actors
  PROVE  EpochOf(u) \in Epoch
BY DEF TypeOK, SettingsTypeOK, EpochOf, Epoch, Actors, Owner

LEMMA GoneType ==
  ASSUME NEW g \in Grant
  PROVE  Gone(g) \in Grant
BY DEF Gone, NoGrant, NoEpoch, Grant, Epoch, Actors, Owner

LEMMA IdleType == Idle \in Request
BY DEF Idle, NoEpoch, Request, Epoch, Actors, Owner

\* The settings keep their types in every step of the settings.
LEMMA SettingsStepType ==
  ASSUME SettingsTypeOK, SettingsNext
  PROVE  SettingsTypeOK'
<1>1. CASE \E page \in shown, admins \in SUBSET Users : SaveCommits(page, admins)
  <2>1. PICK page \in shown, admins \in SUBSET Users : SaveCommits(page, admins)
    BY <1>1
  <2>2. stored' \in Config
    BY <2>1 DEF SaveCommits, SettingsTypeOK, Config
  <2>3. secret' \in [Users -> Nat]
    BY <2>1 DEF SaveCommits, KeptSecrets, SettingsTypeOK
  <2>4. dead' \subseteq Nat
    BY <2>1 DEF SaveCommits, SettingsTypeOK
  <2>5. faults' \in 0..MaxFaults
    <3>1. CASE UNCHANGED faults
      BY <3>1 DEF SettingsTypeOK
    <3>2. CASE Fault
      BY <3>2, SettingsAssumption DEF SettingsTypeOK, Fault
    <3>. QED BY <2>1, <3>1, <3>2 DEF SaveCommits
  <2>7. unsure' \in BOOLEAN /\ saving' \in BOOLEAN
    BY <2>1, Zenon DEF SaveCommits, SettingsTypeOK
  <2>6. memory' = memory /\ shown' = shown /\ issued' = issued
    BY <2>1 DEF SaveCommits
  <2>. QED BY <2>2, <2>3, <2>4, <2>5, <2>6, <2>7, Zenon DEF SettingsTypeOK
<1>2. CASE SaveReturns
  BY <1>2 DEF SaveReturns, InForce, SettingsTypeOK
<1>3. CASE \E u \in Users : SecretIssued(u) \/ SecretWithdrawn(u)
  <2>1. PICK u \in Users : SecretIssued(u) \/ SecretWithdrawn(u)
    BY <1>3
  <2>2. {secret[u]} \ {0} \subseteq Nat /\ issued + 1 \in Nat
    BY DEF SettingsTypeOK
  <2>3. dead' \subseteq Nat /\ issued' \in Nat
    <3>1. CASE SecretIssued(u)
      BY <2>2, <3>1 DEF SecretIssued, Replaced, SettingsTypeOK
    <3>2. CASE SecretWithdrawn(u)
      BY <2>2, <3>2 DEF SecretWithdrawn, Replaced, SettingsTypeOK
    <3>. QED BY <2>1, <3>1, <3>2
  <2>4. secret' \in [Users -> Nat]
    <3>1. CASE SecretIssued(u)
      BY <2>2, <3>1 DEF SecretIssued, Replaced, SettingsTypeOK
    <3>2. CASE SecretWithdrawn(u)
      BY <2>2, <3>2 DEF SecretWithdrawn, Replaced, SettingsTypeOK
    <3>. QED BY <2>1, <3>1, <3>2
  <2>. QED BY <2>1, <2>3, <2>4 DEF SecretIssued, SecretWithdrawn, SettingsTypeOK
<1>. QED BY <1>1, <1>2, <1>3 DEF SettingsNext

LEMMA RequestStepType ==
  ASSUME TypeOK, NEW q \in Requests, RequestNext(q)
  PROVE  TypeOK'
<1>. USE IdleType DEF Goes, Answered
<1>1. CASE \E u \in Actors : LoginProved(q, u)
  <2>1. PICK u \in Actors : LoginProved(q, u)
    BY <1>1
  <2>2. [Idle EXCEPT !.at = "proved", !.actor = u, !.epoch = EpochOf(u)] \in Request
    BY EpochType DEF Idle, Request
  <2>. QED BY <2>1, <2>2 DEF LoginProved, TypeOK, SettingsTypeOK, settingsVars
<1>2. CASE \E s \in Sessions : SessionCreated(q, s)
  <2>1. PICK s \in Sessions : SessionCreated(q, s)
    BY <1>2
  <2>2. PICK epoch : epoch = [req[q].epoch EXCEPT !.generation = generation]
    OBVIOUS
  <2>3. epoch \in Epoch /\ req[q].actor \in Actors
    BY <2>2 DEF TypeOK, Request, Epoch
  <2>4. [status |-> "live", actor |-> req[q].actor, epoch |-> epoch, root |-> epoch,
         source |-> 0] \in Grant
    BY <2>3 DEF Grant
  <2>. QED BY <2>1, <2>2, <2>4 DEF SessionCreated, TypeOK, SettingsTypeOK, settingsVars
<1>3. CASE \E s \in Sessions : SessionAccepted(q, s)
  BY <1>3 DEF SessionAccepted, Carrying, Request, Grant, TypeOK, SettingsTypeOK, settingsVars
<1>4. CASE \E t \in Tickets : TicketCreated(q, t)
  BY <1>4 DEF TicketCreated, TicketEpoch, Granted, Request, Grant, TypeOK, SettingsTypeOK,
              settingsVars
<1>5. CASE \E t \in Tickets : TicketAccepted(q, t)
  BY <1>5 DEF TicketAccepted, Carrying, Request, Grant, TypeOK, SettingsTypeOK, settingsVars
<1>6. CASE \E s \in Sessions : TicketSpent(q, s)
  <2>1. PICK s \in Sessions : TicketSpent(q, s)
    BY <1>6
  <2>2. Granted(req[q]) \in Grant
    BY DEF Granted, Request, Grant, TypeOK
  <2>3. session' \in [Sessions -> Grant] /\ ticket' \in [Tickets -> Grant]
    BY <2>1, <2>2, GoneType DEF TicketSpent, TypeOK
  <2>. QED BY <2>1, <2>3 DEF TicketSpent, TypeOK, SettingsTypeOK, settingsVars
<1>7. CASE RequestEnds(q)
  BY <1>7 DEF RequestEnds, TypeOK, SettingsTypeOK, settingsVars
<1>. QED BY <1>1, <1>2, <1>3, <1>4, <1>5, <1>6, <1>7 DEF RequestNext

\* Every variable of the web panel stays in its set.
THEOREM WebTypeCorrect == Spec => []TypeOK
<1>1. Init => TypeOK
  <2>. SUFFICES ASSUME Init PROVE TypeOK
    OBVIOUS
  <2>1. PICK admins \in SUBSET Users :
          /\ stored = [revision |-> 0, admins |-> admins]
          /\ memory = stored /\ shown = {stored}
          /\ saving = FALSE /\ secret = [u \in Users |-> 0] /\ issued = 0 /\ dead = {}
          /\ unsure = FALSE /\ faults = 0
    BY DEF Init, SettingsInit
  <2>2. stored \in Config
    BY <2>1 DEF Config
  <2>3. SettingsTypeOK
    <3>1. memory \in Config /\ shown \subseteq Config
      BY <2>1, <2>2
    <3>2. saving \in BOOLEAN /\ unsure \in BOOLEAN
      BY <2>1
    <3>3. secret \in [Users -> Nat] /\ issued \in Nat /\ dead \subseteq Nat
      BY <2>1
    <3>4. faults \in 0..MaxFaults
      BY <2>1, SettingsAssumption
    <3>. QED BY <2>2, <3>1, <3>2, <3>3, <3>4, Zenon DEF SettingsTypeOK
  <2>4. NoGrant \in Grant
    BY DEF NoGrant, NoEpoch, Grant, Epoch, Actors, Owner
  <2>. QED BY <2>3, <2>4, IdleType, WebAssumption DEF Init, TypeOK
<1>2. ASSUME TypeOK, [Next]_vars PROVE TypeOK'
  <2>1. CASE SettingsNext /\ UNCHANGED webVars
    BY <1>2, <2>1, SettingsStepType DEF TypeOK, webVars
  <2>2. CASE \E q \in Requests : RequestNext(q)
    BY <1>2, <2>2, RequestStepType
  <2>3. CASE \E s \in Sessions : LoggedOut(s) \/ SessionExpires(s)
    BY <1>2, <2>3, GoneType
       DEF LoggedOut, SessionExpires, TypeOK, SettingsTypeOK, settingsVars
  <2>4. CASE \E t \in Tickets : TicketForBearer(t) \/ TicketExpires(t)
    <3>1. EpochOf(Owner) \in Epoch
      BY <1>2, EpochType DEF Actors
    <3>2. [status |-> "live", actor |-> Owner, epoch |-> EpochOf(Owner),
           root |-> EpochOf(Owner), source |-> 0] \in Grant
      BY <3>1 DEF Grant, Actors
    <3>. QED BY <1>2, <2>4, <3>2, GoneType
             DEF TicketForBearer, TicketExpires, TypeOK, SettingsTypeOK, settingsVars
  <2>5. CASE AllRevoked
    BY <1>2, <2>5, WebAssumption DEF AllRevoked, TypeOK, SettingsTypeOK, settingsVars
  <2>6. CASE Restarted
    <3>1. master' \in Nat
      BY <1>2, <2>6 DEF Restarted, TypeOK
    <3>2. faults' \in 0..MaxFaults
      BY <1>2, <2>6, SettingsAssumption
         DEF Restarted, SettingsReloaded, Fault, TypeOK, SettingsTypeOK
    <3>3. SettingsTypeOK'
      BY <1>2, <2>6, <3>2 DEF Restarted, SettingsReloaded, InForce, TypeOK, SettingsTypeOK
    <3>. QED BY <1>2, <2>6, <3>1, <3>3, IdleType DEF Restarted, TypeOK
  <2>7. CASE UNCHANGED vars
    BY <1>2, <2>7 DEF vars, settingsVars, webVars, TypeOK, SettingsTypeOK
  <2>. QED BY <1>2, <2>1, <2>2, <2>3, <2>4, <2>5, <2>6, <2>7 DEF Next
<1>. QED BY <1>1, <1>2, PTL DEF Spec

-----------------------------------------------------------------------------
(* Revocation.  A request may be held up anywhere between the check of a     *)
(* session and what it writes; what makes that harmless is that it carries   *)
(* on the epoch that was checked, never one computed later.                  *)

Derived(r) == r.epoch = r.root

EpochsDescend ==
  /\ \A s \in Sessions : session[s].status = "live" => Derived(session[s])
  /\ \A t \in Tickets : ticket[t].status = "live" => Derived(ticket[t])
  /\ \A q \in Requests : req[q].at \in {"inside", "agreed"} => Derived(req[q])

LEMMA RequestDescends ==
  ASSUME TypeOK, EpochsDescend, NEW q \in Requests, RequestNext(q)
  PROVE  EpochsDescend'
<1>. USE DEF EpochsDescend, Derived, Goes, Answered, Idle
<1>1. CASE \E u \in Actors : LoginProved(q, u)
  BY <1>1 DEF LoginProved, TypeOK
<1>2. CASE \E s \in Sessions : SessionCreated(q, s)
  BY <1>2 DEF SessionCreated, TypeOK
<1>3. CASE \E s \in Sessions : SessionAccepted(q, s)
  BY <1>3 DEF SessionAccepted, Usable, Carrying, TypeOK
<1>4. CASE \E t \in Tickets : TicketCreated(q, t)
  <2>1. PICK t \in Tickets : TicketCreated(q, t)
    BY <1>4
  <2>2. PICK g : g = Granted([req[q] EXCEPT !.epoch = TicketEpoch(q)])
    OBVIOUS
  <2>3. Derived(g)
    BY <2>1, <2>2 DEF TicketCreated, TicketEpoch, Granted, TypeOK, Request
  <2>4. ticket' = [ticket EXCEPT ![t] = g]
    BY <2>1, <2>2 DEF TicketCreated
  <2>. QED BY <2>1, <2>3, <2>4 DEF TicketCreated, TypeOK
<1>5. CASE \E t \in Tickets : TicketAccepted(q, t)
  BY <1>5 DEF TicketAccepted, Usable, Carrying, TypeOK
<1>6. CASE \E s \in Sessions : TicketSpent(q, s)
  <2>1. PICK s \in Sessions : TicketSpent(q, s)
    BY <1>6
  <2>2. Derived(Granted(req[q])) /\ \A g \in Grant : Gone(g).status = "gone"
    BY <2>1 DEF TicketSpent, Granted, Gone, NoGrant
  <2>3. \A x \in Sessions : session'[x].status = "live" => Derived(session'[x])
    BY <2>1, <2>2 DEF TicketSpent, TypeOK
  <2>4. \A t \in Tickets : ticket'[t].status = "live" => Derived(ticket'[t])
    BY <2>1, <2>2 DEF TicketSpent, TypeOK
  <2>. QED BY <2>1, <2>3, <2>4 DEF TicketSpent, TypeOK
<1>7. CASE RequestEnds(q)
  BY <1>7 DEF RequestEnds, TypeOK
<1>. QED BY <1>1, <1>2, <1>3, <1>4, <1>5, <1>6, <1>7 DEF RequestNext

\* Revoked access stays revoked, whatever requests are under way: a usable session
\* or ticket descends from a login that would still be accepted.
THEOREM WebRevocation == Spec => []RevokedStaysRevoked
<1>1. Init => EpochsDescend
  BY DEF Init, EpochsDescend, NoGrant, Idle
<1>2. ASSUME TypeOK, EpochsDescend, [Next]_vars PROVE EpochsDescend'
  <2>. USE DEF EpochsDescend
  <2>1. CASE UNCHANGED webVars
    BY <1>2, <2>1 DEF webVars, Derived
  <2>2. CASE \E q \in Requests : RequestNext(q)
    BY <1>2, <2>2, RequestDescends
  <2>3. CASE \E s \in Sessions : LoggedOut(s) \/ SessionExpires(s)
    BY <1>2, <2>3 DEF LoggedOut, SessionExpires, Gone, NoGrant, Derived, TypeOK
  <2>4. CASE \E t \in Tickets : TicketForBearer(t) \/ TicketExpires(t)
    <3>1. PICK t \in Tickets : TicketForBearer(t) \/ TicketExpires(t)
      BY <2>4
    <3>2. PICK g : /\ ticket' = [ticket EXCEPT ![t] = g]
                   /\ g.status = "live" => Derived(g)
      <4>1. CASE TicketForBearer(t)
        <5>1. PICK g : g = [status |-> "live", actor |-> Owner, epoch |-> EpochOf(Owner),
                            root |-> EpochOf(Owner), source |-> 0]
          OBVIOUS
        <5>2. Derived(g)
          BY <5>1 DEF Derived
        <5>3. ticket' = [ticket EXCEPT ![t] = g]
          BY <4>1, <5>1 DEF TicketForBearer
        <5>. QED BY <5>2, <5>3
      <4>2. CASE TicketExpires(t)
        <5>1. Gone(ticket[t]).status = "gone"
          BY DEF Gone, NoGrant
        <5>. QED BY <4>2, <5>1 DEF TicketExpires
      <4>. QED BY <3>1, <4>1, <4>2
    <3>. QED BY <1>2, <3>1, <3>2 DEF TicketForBearer, TicketExpires, TypeOK
  <2>5. CASE AllRevoked
    BY <1>2, <2>5 DEF AllRevoked, Derived
  <2>6. CASE Restarted
    BY <1>2, <2>6 DEF Restarted, Idle, Derived
  <2>. QED BY <1>2, <2>1, <2>2, <2>3, <2>4, <2>5, <2>6 DEF Next, vars
<1>3. EpochsDescend => RevokedStaysRevoked
  BY DEF EpochsDescend, Derived, RevokedStaysRevoked, Usable
<1>. QED BY <1>1, <1>2, <1>3, WebTypeCorrect, PTL DEF Spec

-----------------------------------------------------------------------------
(* A ticket is spent once: sessions name distinct tickets, all of them gone. *)

SpentOnce ==
  /\ \A s \in Sessions :
       session[s].source # 0 => ticket[session[s].source].status = "gone"
  /\ \A q \in Requests : req[q].at = "agreed" => req[q].source # 0
  /\ \A q \in Requests : req[q].at \in {"proved", "inside"} => req[q].source = 0

LEMMA SessionsKeepSource ==
  ASSUME TypeOK, SpentOnce, OneSessionPerTicket,
         NEW s \in Sessions, session' = [session EXCEPT ![s] = Gone(session[s])],
         UNCHANGED <<ticket, req>>
  PROVE  SpentOnce' /\ OneSessionPerTicket'
<1>1. \A x \in Sessions : session'[x].source = session[x].source
  BY DEF Gone, NoGrant, TypeOK
<1>. QED BY <1>1 DEF SpentOnce, OneSessionPerTicket

LEMMA TicketsStayGone ==
  ASSUME SpentOnce, OneSessionPerTicket, UNCHANGED <<session, req>>,
         \A t \in Tickets : ticket[t].status = "gone" => ticket'[t].status = "gone",
         TypeOK
  PROVE  SpentOnce' /\ OneSessionPerTicket'
BY DEF SpentOnce, OneSessionPerTicket, TypeOK, Grant

LEMMA RequestSpendsOnce ==
  ASSUME TypeOK, SpentOnce, OneSessionPerTicket, NEW q \in Requests, RequestNext(q)
  PROVE  SpentOnce' /\ OneSessionPerTicket'
<1>. USE DEF SpentOnce, OneSessionPerTicket, Goes, Answered, Idle
<1>1. CASE \E u \in Actors : LoginProved(q, u)
  BY <1>1 DEF LoginProved, TypeOK
<1>2. CASE \E s \in Sessions : SessionCreated(q, s)
  <2>1. PICK s \in Sessions : SessionCreated(q, s)
    BY <1>2
  <2>2. \A x \in Sessions : session'[x].source = IF x = s THEN 0 ELSE session[x].source
    BY <2>1 DEF SessionCreated, TypeOK
  <2>. QED BY <2>1, <2>2 DEF SessionCreated, TypeOK
<1>3. CASE \E s \in Sessions : SessionAccepted(q, s)
  BY <1>3 DEF SessionAccepted, Carrying, TypeOK
<1>4. CASE \E t \in Tickets : TicketCreated(q, t)
  BY <1>4 DEF TicketCreated, Granted, TypeOK
<1>5. CASE \E t \in Tickets : TicketAccepted(q, t)
  BY <1>5, WebAssumption DEF TicketAccepted, Carrying, TypeOK
<1>6. CASE \E s \in Sessions : TicketSpent(q, s)
  <2>1. PICK s \in Sessions : TicketSpent(q, s)
    BY <1>6
  <2>2. CASE ~Unspent(req[q].source)
    BY <2>1, <2>2 DEF TicketSpent, TypeOK
  <2>3. CASE Unspent(req[q].source)
    <3>1. PICK t \in Tickets : t = req[q].source
      BY <2>1 DEF TicketSpent, TypeOK, Request
    <3>2. \A x \in Sessions : session'[x].source = IF x = s THEN t ELSE session[x].source
      BY <2>1, <2>3, <3>1 DEF TicketSpent, Granted, TypeOK
    <3>3. \A x \in Tickets : ticket'[x].status = IF x = t THEN "gone" ELSE ticket[x].status
      BY <2>1, <2>3, <3>1 DEF TicketSpent, Gone, NoGrant, TypeOK
    <3>4. \A x \in Sessions : session[x].source # t
      BY <2>3, <3>1, WebAssumption DEF Unspent
    <3>5. \A x \in Sessions : session[x].source \in Tickets \cup {0}
      BY DEF TypeOK, Grant
    <3>6. req' = [req EXCEPT ![q] = Idle]
      BY <2>1 DEF TicketSpent
    <3>. QED BY <3>1, <3>2, <3>3, <3>4, <3>5, <3>6 DEF TypeOK
  <2>. QED BY <2>2, <2>3
<1>7. CASE RequestEnds(q)
  BY <1>7 DEF RequestEnds, TypeOK
<1>. QED BY <1>1, <1>2, <1>3, <1>4, <1>5, <1>6, <1>7 DEF RequestNext

\* No two sessions are ever exchanged for one ticket, however many requests have
\* accepted it at a time.
THEOREM WebTicketOnce == Spec => []OneSessionPerTicket
<1>1. Init => SpentOnce /\ OneSessionPerTicket
  BY DEF Init, SpentOnce, OneSessionPerTicket, NoGrant, Idle
<1>2. ASSUME TypeOK, SpentOnce, OneSessionPerTicket, [Next]_vars
      PROVE  SpentOnce' /\ OneSessionPerTicket'
  <2>1. CASE UNCHANGED webVars
    BY <1>2, <2>1 DEF webVars, SpentOnce, OneSessionPerTicket
  <2>2. CASE \E q \in Requests : RequestNext(q)
    BY <1>2, <2>2, RequestSpendsOnce
  <2>3. CASE \E s \in Sessions : LoggedOut(s) \/ SessionExpires(s)
    BY <1>2, <2>3, SessionsKeepSource DEF LoggedOut, SessionExpires
  <2>4. CASE \E t \in Tickets : TicketForBearer(t) \/ TicketExpires(t)
    <3>1. PICK t \in Tickets : TicketForBearer(t) \/ TicketExpires(t)
      BY <2>4
    <3>2. PICK g : /\ ticket' = [ticket EXCEPT ![t] = g]
                   /\ ticket[t].status # "gone"
      BY <3>1 DEF TicketForBearer, TicketExpires
    <3>3. UNCHANGED <<session, req>>
      BY <3>1 DEF TicketForBearer, TicketExpires
    <3>. QED BY <1>2, <3>2, <3>3, TicketsStayGone DEF TypeOK
  <2>5. CASE AllRevoked
    BY <1>2, <2>5 DEF AllRevoked, SpentOnce, OneSessionPerTicket
  <2>6. CASE Restarted
    BY <1>2, <2>6 DEF Restarted, Idle, SpentOnce, OneSessionPerTicket
  <2>. QED BY <1>2, <2>1, <2>2, <2>3, <2>4, <2>5, <2>6 DEF Next, vars
<1>. QED BY <1>1, <1>2, WebTypeCorrect, PTL DEF Spec

-----------------------------------------------------------------------------
(* Credentials of administrators: no secret is ever in force again.          *)

SecretsOnce ==
  /\ 0 \notin dead
  /\ \A n \in dead : n <= issued
  /\ \A u \in Users : secret[u] <= issued /\ secret[u] \notin dead
  /\ \A u, v \in Users : u # v /\ secret[u] # 0 => secret[u] # secret[v]

LEMMA SettingsSecretsOnce ==
  ASSUME SettingsTypeOK, SecretsOnce, SettingsNext
  PROVE  SecretsOnce'
<1>. USE DEF SecretsOnce
<1>1. CASE \E page \in shown, admins \in SUBSET Users : SaveCommits(page, admins)
  <2>1. PICK page \in shown, admins \in SUBSET Users : SaveCommits(page, admins)
    BY <1>1
  <2>2. \A u \in Users : secret'[u] = IF u \in admins THEN secret[u] ELSE 0
    BY <2>1 DEF SaveCommits, KeptSecrets
  <2>3. \A n \in dead' : n \in dead \/ \E u \in Users \ admins : n = secret[u] /\ n # 0
    BY <2>1 DEF SaveCommits
  <2>4. issued' = issued
    BY <2>1 DEF SaveCommits
  <2>5. 0 \notin dead' /\ \A n \in dead' : n <= issued'
    BY <2>3, <2>4
  <2>6. \A u \in Users : secret'[u] <= issued' /\ secret'[u] \notin dead'
    BY <2>2, <2>3, <2>4, <2>5 DEF SettingsTypeOK
  <2>. QED BY <2>2, <2>5, <2>6
<1>2. CASE SaveReturns
  BY <1>2 DEF SaveReturns
<1>3. CASE \E u \in Users : SecretIssued(u)
  <2>1. PICK u \in Users : SecretIssued(u)
    BY <1>3
  <2>2. issued' = issued + 1 /\ dead' = dead \cup ({secret[u]} \ {0})
    BY <2>1 DEF SecretIssued, Replaced
  <2>3. \A v \in Users : secret'[v] = IF v = u THEN issued + 1 ELSE secret[v]
    BY <2>1 DEF SecretIssued, Replaced, SettingsTypeOK
  <2>. QED BY <2>2, <2>3 DEF SettingsTypeOK
<1>4. CASE \E u \in Users : SecretWithdrawn(u)
  <2>1. PICK u \in Users : SecretWithdrawn(u)
    BY <1>4
  <2>2. issued' = issued /\ dead' = dead \cup ({secret[u]} \ {0})
    BY <2>1 DEF SecretWithdrawn, Replaced
  <2>3. \A v \in Users : secret'[v] = IF v = u THEN 0 ELSE secret[v]
    BY <2>1 DEF SecretWithdrawn, Replaced, SettingsTypeOK
  <2>. QED BY <2>2, <2>3 DEF SettingsTypeOK
<1>. QED BY <1>1, <1>2, <1>3, <1>4 DEF SettingsNext

\* A step of the system is one of the settings, a restart, or leaves them alone.
LEMMA SettingsSteps ==
  ASSUME [Next]_vars
  PROVE  SettingsNext \/ SettingsReloaded \/ UNCHANGED settingsVars
<1>1. CASE \E q \in Requests : RequestNext(q)
  BY <1>1 DEF RequestNext, LoginProved, SessionCreated, SessionAccepted, TicketSpent,
              TicketCreated, TicketAccepted, RequestEnds
<1>2. CASE \E s \in Sessions : LoggedOut(s) \/ SessionExpires(s)
  BY <1>2 DEF LoggedOut, SessionExpires
<1>3. CASE \E t \in Tickets : TicketForBearer(t) \/ TicketExpires(t)
  BY <1>3 DEF TicketForBearer, TicketExpires
<1>. QED BY <1>1, <1>2, <1>3 DEF Next, vars, AllRevoked, Restarted

\* A secret that was replaced, withdrawn or removed with its owner is never in
\* force again.
THEOREM WebDeadSecrets == Spec => []DeadSecretsStayDead
<1>1. Init => SecretsOnce
  BY DEF Init, SettingsInit, SecretsOnce
<1>2. ASSUME TypeOK, SecretsOnce, [Next]_vars PROVE SecretsOnce'
  <2>1. CASE SettingsNext
    BY <1>2, <2>1, SettingsSecretsOnce DEF TypeOK
  <2>2. CASE UNCHANGED <<secret, issued, dead>>
    BY <1>2, <2>2 DEF SecretsOnce
  <2>. QED BY <1>2, <2>1, <2>2, SettingsSteps DEF SettingsReloaded, settingsVars
<1>3. TypeOK /\ SecretsOnce => DeadSecretsStayDead
  BY DEF TypeOK, SettingsTypeOK, Config, SecretsOnce, DeadSecretsStayDead
<1>. QED BY <1>1, <1>2, <1>3, WebTypeCorrect, PTL DEF Spec

-----------------------------------------------------------------------------
(* Only administrators have credentials: outside Save, and as long as no     *)
(* commit has been taken for a failure, the process knows the stored list.   *)

AdminsKnown ==
  /\ OnlyAdminsHaveSecrets
  /\ ~unsure /\ ~saving => memory = stored

LEMMA SettingsAdminsKnown ==
  ASSUME SettingsTypeOK, AdminsKnown, SettingsNext
  PROVE  AdminsKnown'
<1>. USE DEF AdminsKnown, OnlyAdminsHaveSecrets
<1>1. CASE \E page \in shown, admins \in SUBSET Users : SaveCommits(page, admins)
  <2>1. PICK page \in shown, admins \in SUBSET Users : SaveCommits(page, admins)
    BY <1>1
  <2>2. \A u \in Users : secret'[u] = IF u \in admins THEN secret[u] ELSE 0
    BY <2>1 DEF SaveCommits, KeptSecrets
  <2>3. stored'.admins = admins /\ memory' = memory
    BY <2>1 DEF SaveCommits
  <2>4. ~unsure' => saving' /\ ~unsure
    BY <2>1, Zenon DEF SaveCommits
  <2>. QED BY <2>2, <2>3, <2>4
<1>2. CASE SaveReturns
  BY <1>2 DEF SaveReturns, InForce
<1>3. CASE \E u \in Users : SecretIssued(u)
  BY <1>3 DEF SecretIssued, Issuable, Replaced, SettingsTypeOK
<1>4. CASE \E u \in Users : SecretWithdrawn(u)
  BY <1>4 DEF SecretWithdrawn, Replaced, SettingsTypeOK
<1>. QED BY <1>1, <1>2, <1>3, <1>4 DEF SettingsNext

\* Only administrators have credentials, however a request for a secret and the
\* removal of its owner are interleaved.
THEOREM WebOnlyAdmins == Spec => []OnlyAdminsHaveSecrets
<1>1. Init => AdminsKnown
  BY DEF Init, SettingsInit, AdminsKnown, OnlyAdminsHaveSecrets
<1>2. ASSUME TypeOK, AdminsKnown, [Next]_vars PROVE AdminsKnown'
  <2>1. CASE SettingsNext
    BY <1>2, <2>1, SettingsAdminsKnown DEF TypeOK
  <2>2. CASE SettingsReloaded
    BY <1>2, <2>2 DEF SettingsReloaded, InForce, AdminsKnown, OnlyAdminsHaveSecrets
  <2>3. CASE UNCHANGED settingsVars
    BY <1>2, <2>3 DEF settingsVars, AdminsKnown, OnlyAdminsHaveSecrets
  <2>. QED BY <1>2, <2>1, <2>2, <2>3, SettingsSteps
<1>. QED BY <1>1, <1>2, WebTypeCorrect, PTL DEF Spec, AdminsKnown

-----------------------------------------------------------------------------
(* Saves: a revision that was shown is never given out again, although a     *)
(* commit taken for a failure makes the next save reuse its number.          *)

PagesKnown ==
  /\ \A page \in shown : page.revision < memory.revision \/ page = memory
  /\ stored.revision = memory.revision + 1 \/ stored = memory
  /\ saving => stored.revision = memory.revision + 1

LEMMA SettingsPagesKnown ==
  ASSUME SettingsTypeOK, PagesKnown, SettingsNext
  PROVE  PagesKnown'
<1>. USE DEF PagesKnown
<1>1. CASE \E page \in shown, admins \in SUBSET Users : SaveCommits(page, admins)
  BY <1>1 DEF SaveCommits
<1>2. CASE SaveReturns
  BY <1>2 DEF SaveReturns, InForce, SettingsTypeOK, Config
<1>3. CASE \E u \in Users : SecretIssued(u) \/ SecretWithdrawn(u)
  BY <1>3 DEF SecretIssued, SecretWithdrawn
<1>. QED BY <1>1, <1>2, <1>3 DEF SettingsNext

\* Every save is made over the administrators its editor has seen.
THEOREM WebSavesKeepEachOther == Spec => SavesKeepEachOther
<1>1. Init => PagesKnown
  BY DEF Init, SettingsInit, PagesKnown
<1>2. ASSUME TypeOK, PagesKnown, [Next]_vars PROVE PagesKnown'
  <2>1. CASE SettingsNext
    BY <1>2, <2>1, SettingsPagesKnown DEF TypeOK
  <2>2. CASE SettingsReloaded
    BY <1>2, <2>2 DEF SettingsReloaded, InForce, PagesKnown, TypeOK, SettingsTypeOK, Config
  <2>3. CASE UNCHANGED settingsVars
    BY <1>2, <2>3 DEF settingsVars, PagesKnown
  <2>. QED BY <1>2, <2>1, <2>2, <2>3, SettingsSteps
<1>3. ASSUME TypeOK, PagesKnown, NEW page \in shown, NEW admins \in SUBSET Users,
             SaveCommits(page, admins)
      PROVE  page.admins = memory.admins
  BY <1>3 DEF PagesKnown, SaveCommits, Current, TypeOK, SettingsTypeOK, Config
<1>4. TypeOK /\ PagesKnown =>
        [\A page \in shown, admins \in SUBSET Users :
           SaveCommits(page, admins) => page.admins = memory.admins]_settingsVars
  BY <1>3
<1>. QED BY <1>1, <1>2, <1>4, WebTypeCorrect, PTL DEF Spec, SavesKeepEachOther

=============================================================================
