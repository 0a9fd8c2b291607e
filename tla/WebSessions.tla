-------------------------------- MODULE WebSessions --------------------------------
(***************************************************************************)
(* Logging in to the web panel (api/auth.go, authenticate in               *)
(* api/server.go): sessions and one-use login tickets in Redis, each with  *)
(* the epoch of its actor, a hash of the recovery key, the actor's own     *)
(* credential and the generation that a revocation of all sessions         *)
(* replaces.  Requests run concurrently; a request is cut in two where what *)
(* it read first may be stale when it goes on.  Reads that are compared    *)
(* with one another at once are one step: the generation, read last, never *)
(* returns to an earlier value.  Rate limits, origins, CSRF values and     *)
(* cookies are left out.                                                   *)
(***************************************************************************)
EXTENDS SystemSettings

CONSTANTS
  Requests,        \* HTTP requests being handled at a time
  Sessions,        \* bound: session identifiers that are drawn
  Tickets,         \* bound: ticket identifiers that are drawn
  MaxGenerations   \* bound: revocations of all sessions

ASSUME WebAssumption ==
  /\ Tickets \subseteq Nat \ {0}
  /\ MaxGenerations \in Nat

VARIABLES
  master,       \* the recovery key in force, by number
  generation,   \* web:auth_epoch
  session,      \* session[s]: web:session:<s>
  ticket,       \* ticket[t]: web:ticket:<t>
  req           \* req[q]: a request under way

webVars == <<master, generation, session, ticket, req>>
vars == <<settingsVars, webVars>>

Owner == 0
Actors == Users \cup {Owner}

\* The hash stands for what it is taken of.
Epoch == [master : Nat, secret : Nat, generation : Nat]
NoEpoch == [master |-> 0, secret |-> 0, generation |-> 0]

\* "root" is history: the epoch of the login a session or ticket descends from;
\* "source" the ticket a session was exchanged for.
Grant == [status : {"unused", "live", "gone"}, actor : Actors, epoch : Epoch,
          root : Epoch, source : Tickets \cup {0}]
NoGrant == [status |-> "unused", actor |-> Owner, epoch |-> NoEpoch, root |-> NoEpoch,
            source |-> 0]
Gone(g) == [NoGrant EXCEPT !.status = "gone", !.source = g.source]

\* "proved": the credential of a login is right; "inside": a session was accepted;
\* "agreed": a ticket was.  "epoch" is what the request carries on.
Request == [at : {"idle", "proved", "inside", "agreed"}, actor : Actors, epoch : Epoch,
            root : Epoch, source : Tickets \cup {0}]
Idle == [at |-> "idle", actor |-> Owner, epoch |-> NoEpoch, root |-> NoEpoch, source |-> 0]

TypeOK ==
  /\ SettingsTypeOK
  /\ master \in Nat /\ generation \in 0..MaxGenerations
  /\ session \in [Sessions -> Grant] /\ ticket \in [Tickets -> Grant]
  /\ req \in [Requests -> Request]

Init ==
  /\ SettingsInit
  /\ master = 0 /\ generation = 0
  /\ session = [s \in Sessions |-> NoGrant]
  /\ ticket = [t \in Tickets |-> NoGrant]
  /\ req = [q \in Requests |-> Idle]

-----------------------------------------------------------------------------
(* Epochs.                                                                 *)

\* authEpoch needs the actor to be an administrator with a credential.
HasEpoch(u) == u = Owner \/ (u \in memory.admins /\ secret[u] # 0)
EpochOf(u) ==
  [master |-> master, secret |-> IF u = Owner THEN 0 ELSE secret[u],
   generation |-> generation]

Goes(q, r) == req' = [req EXCEPT ![q] = r]
Answered(q) == Goes(q, Idle)

-----------------------------------------------------------------------------
(* POST /auth/login.                                                       *)

\* The recovery key, or the secret of an administrator, is right.
LoginProved(q, u) ==
  /\ req[q].at = "idle" /\ HasEpoch(u)
  /\ Goes(q, [Idle EXCEPT !.at = "proved", !.actor = u, !.epoch = EpochOf(u)])
  /\ UNCHANGED <<settingsVars, master, generation, session, ticket>>

\* credentialEpoch binds the credential that was checked, whatever it is now, to the
\* generation read now; the session is stored with it.
SessionCreated(q, s) ==
  /\ req[q].at = "proved" /\ session[s].status = "unused"
  /\ LET epoch == [req[q].epoch EXCEPT !.generation = generation] IN
     session' = [session EXCEPT ![s] =
       [status |-> "live", actor |-> req[q].actor, epoch |-> epoch, root |-> epoch, source |-> 0]]
  /\ Answered(q)
  /\ UNCHANGED <<settingsVars, master, generation, ticket>>

-----------------------------------------------------------------------------
(* Requests with a session, and tickets.                                   *)

\* session() accepts a row, and so does exchangeTicket.
Usable(g) == g.status = "live" /\ HasEpoch(g.actor) /\ g.epoch = EpochOf(g.actor)

Carrying(at, g, source) ==
  [at |-> at, actor |-> g.actor, epoch |-> g.epoch, root |-> g.root, source |-> source]

Granted(r) == [status |-> "live", actor |-> r.actor, epoch |-> r.epoch,
               root |-> r.root, source |-> r.source]

SessionAccepted(q, s) ==
  /\ req[q].at = "idle" /\ Usable(session[s])
  /\ Goes(q, Carrying("inside", session[s], 0))
  /\ UNCHANGED <<settingsVars, master, generation, session, ticket>>

\* Mutant: the ticket is not bound to a credential.
TicketGenerationOnly(q) == [generation |-> generation]
\* Mutant: the ticket gets the epoch of the moment, not that of its session.
TicketEpochNow(q) == EpochOf(req[q].actor)
TicketEpoch(q) == req[q].epoch

\* POST /panel-ticket by a session: authEpoch must give something, but the ticket
\* gets the epoch the session was accepted with.
TicketCreated(q, t) ==
  /\ req[q].at = "inside" /\ HasEpoch(req[q].actor) /\ ticket[t].status = "unused"
  /\ ticket' = [ticket EXCEPT ![t] = Granted([req[q] EXCEPT !.epoch = TicketEpoch(q)])]
  /\ Answered(q)
  /\ UNCHANGED <<settingsVars, master, generation, session>>

\* The same by the recovery key as a bearer token.
TicketForBearer(t) ==
  /\ ticket[t].status = "unused"
  /\ LET epoch == EpochOf(Owner) IN
     ticket' = [ticket EXCEPT ![t] =
       [status |-> "live", actor |-> Owner, epoch |-> epoch, root |-> epoch, source |-> 0]]
  /\ UNCHANGED <<settingsVars, master, generation, session, req>>

\* POST /auth/logout, by an accepted session.
LoggedOut(s) ==
  /\ Usable(session[s])
  /\ session' = [session EXCEPT ![s] = Gone(@)]
  /\ UNCHANGED <<settingsVars, master, generation, ticket, req>>

-----------------------------------------------------------------------------
(* POST /auth/ticket.                                                      *)

TicketAccepted(q, t) ==
  /\ req[q].at = "idle" /\ Usable(ticket[t])
  /\ Goes(q, Carrying("agreed", ticket[t], t))
  /\ UNCHANGED <<settingsVars, master, generation, session, ticket>>

\* Mutant: the script does not look whether the ticket is still there.
UnspentAlways(t) == TRUE
Unspent(t) == ticket[t].status = "live"

\* One script in Redis creates the session and removes the ticket, if the ticket
\* is still there.  Its answer may be lost on the way.
TicketSpent(q, s) ==
  /\ req[q].at = "agreed" /\ session[s].status = "unused"
  /\ IF Unspent(req[q].source)
       THEN /\ session' = [session EXCEPT ![s] = Granted(req[q])]
            /\ ticket' = [ticket EXCEPT ![req[q].source] = Gone(@)]
       ELSE UNCHANGED <<session, ticket>>
  /\ Answered(q)
  /\ UNCHANGED <<settingsVars, master, generation>>

-----------------------------------------------------------------------------
(* Everything else.                                                        *)

\* revokeSessions, by the recovery key.
AllRevoked ==
  /\ generation < MaxGenerations
  /\ generation' = generation + 1
  /\ UNCHANGED <<settingsVars, master, session, ticket, req>>

\* The time of a row is over.
SessionExpires(s) ==
  /\ session[s].status = "live"
  /\ session' = [session EXCEPT ![s] = Gone(@)]
  /\ UNCHANGED <<settingsVars, master, generation, ticket, req>>

TicketExpires(t) ==
  /\ ticket[t].status = "live"
  /\ ticket' = [ticket EXCEPT ![t] = Gone(@)]
  /\ UNCHANGED <<settingsVars, master, generation, session, req>>

\* Refused, a call that fails, the request's time is over, or nothing more to do.
RequestEnds(q) ==
  /\ req[q].at # "idle"
  /\ Answered(q)
  /\ UNCHANGED <<settingsVars, master, generation, session, ticket>>

\* The process is started again, perhaps with another ADMIN_API_TOKEN.
Restarted ==
  /\ SettingsReloaded
  /\ master' \in {master, master + 1}
  /\ req' = [q \in Requests |-> Idle]
  /\ UNCHANGED <<generation, session, ticket>>

RequestNext(q) ==
  \/ \E u \in Actors : LoginProved(q, u)
  \/ \E s \in Sessions : SessionCreated(q, s) \/ SessionAccepted(q, s) \/ TicketSpent(q, s)
  \/ \E t \in Tickets : TicketCreated(q, t) \/ TicketAccepted(q, t)
  \/ RequestEnds(q)

Next ==
  \/ SettingsNext /\ UNCHANGED webVars
  \/ \E q \in Requests : RequestNext(q)
  \/ \E s \in Sessions : LoggedOut(s) \/ SessionExpires(s)
  \/ \E t \in Tickets : TicketForBearer(t) \/ TicketExpires(t)
  \/ AllRevoked \/ Restarted

Spec == Init /\ [][Next]_vars

-----------------------------------------------------------------------------
(* Properties.                                                             *)

\* Revoked access stays revoked: a session or ticket is usable only while the login
\* it descends from, through however many tickets, would still be accepted.  A
\* request under way when its session is revoked cannot renew it.
RevokedStaysRevoked ==
  /\ \A s \in Sessions : Usable(session[s]) => session[s].root = EpochOf(session[s].actor)
  /\ \A t \in Tickets : Usable(ticket[t]) => ticket[t].root = EpochOf(ticket[t].actor)

\* Two browsers that hold one ticket do not both get a session for it.
OneSessionPerTicket ==
  \A r, s \in Sessions :
    (r # s /\ session[r].source # 0) => session[r].source # session[s].source

=============================================================================
