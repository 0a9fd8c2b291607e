------------------------------- MODULE SystemSettings -------------------------------
(***************************************************************************)
(* The system settings and the credentials of bot administrators           *)
(* (settings/manager.go, store/system.go, store/web_credentials.go,        *)
(* api/admin_credentials.go, api/system.go).  MySQL holds the settings and *)
(* one credential per administrator; the process works on its own copy of  *)
(* the settings, replaced under a mutex after a save has committed.  Of    *)
(* the settings only the list of administrators is kept; a credential is   *)
(* the number of the secret it was issued as, never issued twice.          *)
(***************************************************************************)
EXTENDS Naturals

CONSTANTS
  Users,         \* Telegram accounts that may be bot administrators
  MaxSecrets,    \* bound: secrets issued
  MaxSaves,      \* bound: revisions of the settings
  MaxFaults      \* bound: restarts, commits whose answer is lost

\* 0 is whoever logs in with ADMIN_API_TOKEN.
ASSUME SettingsAssumption ==
  /\ Users \subseteq Nat \ {0}
  /\ MaxSecrets \in Nat /\ MaxSaves \in Nat /\ MaxFaults \in Nat

VARIABLES
  stored,    \* the system_settings row
  memory,    \* Manager.current
  saving,    \* a save has committed and still owns Manager.mu
  shown,     \* the snapshots that settings pages, still open, may have been loaded from
  secret,    \* secret[u]: the web_credentials row of u, 0 when there is none
  issued,    \* history: secrets issued so far
  dead,      \* history: secrets replaced, withdrawn or removed with their owner
  unsure,    \* history: a save committed and its caller was told it had failed
  faults

settingsVars == <<stored, memory, saving, shown, secret, issued, dead, unsure, faults>>

Config == [revision : Nat, admins : SUBSET Users]

SettingsTypeOK ==
  /\ stored \in Config /\ memory \in Config
  /\ saving \in BOOLEAN /\ shown \subseteq Config
  /\ secret \in [Users -> Nat] /\ issued \in Nat /\ dead \subseteq Nat
  /\ unsure \in BOOLEAN /\ faults \in 0..MaxFaults

SettingsInit ==
  \E admins \in SUBSET Users :
    LET first == [revision |-> 0, admins |-> admins] IN
    /\ stored = first /\ memory = first
    /\ saving = FALSE /\ shown = {first}
    /\ secret = [u \in Users |-> 0] /\ issued = 0 /\ dead = {}
    /\ unsure = FALSE /\ faults = 0

Fault == faults < MaxFaults /\ faults' = faults + 1

-----------------------------------------------------------------------------
(* Settings.                                                               *)

\* Mutant: the last writer wins.
CurrentAlways(page) == TRUE
\* Anything else is ErrConflict.
Current(page) == page.revision = memory.revision

\* Mutant: a removed administrator's credential stays.
KeptSecretsAll(admins) == secret
\* DELETE FROM web_credentials WHERE user_id NOT IN (the new administrators).
KeptSecrets(admins) == [u \in Users |-> IF u \in admins THEN secret[u] ELSE 0]

\* Save as far as its commit, the mutex taken, from a page loaded some time ago; one
\* transaction writes the row and removes the credentials.  If the answer to the
\* commit is lost the caller is told of an error, and the copy of the process
\* stays as it was.
SaveCommits(page, admins) ==
  /\ ~saving /\ Current(page) /\ memory.revision < MaxSaves
  /\ stored' = [revision |-> memory.revision + 1, admins |-> admins]
  /\ secret' = KeptSecrets(admins)
  /\ dead' = dead \cup {secret[u] : u \in {v \in Users \ admins : secret[v] # 0}}
  /\ \/ saving' = TRUE /\ UNCHANGED <<unsure, faults>>
     \/ Fault /\ unsure' = TRUE /\ UNCHANGED saving
  /\ UNCHANGED <<memory, shown, issued>>

\* The process works on the configuration c, and GET /system shows it.
InForce(c) == memory' = c /\ shown' = shown \cup {c} /\ saving' = FALSE

\* The rest of Save.
SaveReturns ==
  /\ saving /\ InForce(stored)
  /\ UNCHANGED <<stored, secret, issued, dead, unsure, faults>>

-----------------------------------------------------------------------------
(* Credentials of administrators.                                          *)

Replaced(u, n) ==
  /\ secret' = [secret EXCEPT ![u] = n]
  /\ dead' = dead \cup ({secret[u]} \ {0})

\* Mutant: the list of administrators is looked at outside the mutex only.
IssuableUnlocked(u) == u \in memory.admins
\* WithAdmin: the list is looked at, and the row written, under the mutex of Save.
Issuable(u) == ~saving /\ u \in memory.admins

SecretIssued(u) ==
  /\ Issuable(u) /\ issued < MaxSecrets
  /\ Replaced(u, issued + 1) /\ issued' = issued + 1
  /\ UNCHANGED <<stored, memory, saving, shown, unsure, faults>>

\* Withdrawing takes no mutex and asks for no administrator.
SecretWithdrawn(u) ==
  /\ secret[u] # 0
  /\ Replaced(u, 0)
  /\ UNCHANGED <<stored, memory, saving, shown, issued, unsure, faults>>

\* The process starts: New reads the row.
SettingsReloaded ==
  /\ Fault /\ InForce(stored)
  /\ UNCHANGED <<stored, secret, issued, dead, unsure>>

SettingsNext ==
  \/ \E page \in shown, admins \in SUBSET Users : SaveCommits(page, admins)
  \/ SaveReturns
  \/ \E u \in Users : SecretIssued(u) \/ SecretWithdrawn(u)

-----------------------------------------------------------------------------
(* Properties.                                                             *)

\* Removing an administrator, replacing or withdrawing a credential ends it for
\* good: adding the account again does not bring an old secret back.
DeadSecretsStayDead == \A u \in memory.admins : secret[u] \notin dead

\* Only administrators have credentials, although a secret may be asked for while
\* its owner is being removed; until a save that was reported as failed has
\* in fact committed.
OnlyAdminsHaveSecrets ==
  ~unsure => \A u \in Users : secret[u] # 0 => u \in stored.admins /\ u \in memory.admins

\* A save is made over the settings its editor has seen: no administrator added
\* or removed by somebody else in the meantime is lost.
SavesKeepEachOther ==
  [][\A page \in shown, admins \in SUBSET Users :
       SaveCommits(page, admins) => page.admins = memory.admins]_settingsVars

=============================================================================
