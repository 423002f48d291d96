------------------------------- MODULE Access -------------------------------
(***************************************************************************)
(* Users, their roles and sign-ins: local accounts (app/cli.py,            *)
(* app/routers/auth.py), Google and generic OIDC sign-in with claim-to-    *)
(* role mapping (app/routers/google_oidc.py, app/routers/oidc.py,          *)
(* app/oidc_role_mapping.py), the administrators' pages                    *)
(* (app/routers/admin_users.py, app/routers/admin_authentication.py), the  *)
(* redaction of departed users (app/pii_redaction.py) and the API tokens   *)
(* administrators issue (module ApiTokens).                                *)
(*                                                                         *)
(* A request that reads a user and writes it later is two steps, Begin and *)
(* Finish, and a redaction sweeps the tables between them; its writes and  *)
(* its audit entries commit together.  Pages that read and write one       *)
(* settings row are one step.  A provider is an account it vouches for:    *)
(* state, nonce, code and signature are left out.                          *)
(***************************************************************************)
EXTENDS Naturals, FiniteSets, ApiTokens

CONSTANTS
  Session,      \* concurrent requests and commands
  Email, Group,
  OidcAccount,  \* accounts: [subject, email, verified, groups]
  GoogleAccount,\* accounts: [subject, email, verified]
  EditRole,     \* the roles administrators assign
  Form,         \* the settings forms they submit: [provider, enabled, auto, secret]
  EnvUsable,    \* providers configured by environment variables
  MaxSessions,  \* bound on the live sessions of a user
  MaxOps        \* bound on the requests

ASSUME RoleAssumption == EditRole \subseteq {"admin", "operator", "reader", "auditor"}
ASSUME AddressAssumption == Email \cap User = {} /\ None \notin Email \cup User
ASSUME AccountAssumption ==
  /\ \A c \in OidcAccount \cup GoogleAccount : c.email \in Email
  /\ \A c \in OidcAccount : c.groups \subseteq Group
ASSUME BoundAssumption == MaxSessions \in Nat /\ MaxOps \in Nat

VARIABLES
  users,        \* rows of users
  linked,       \* external_identities: the user of each OIDC subject
  sessions,     \* live user_sessions of each user
  settings,     \* the active settings row of each provider
  mappings,     \* oidc_role_mappings
  actors,       \* addresses frozen in audit entries and created_by columns
  op,           \* the request each session has begun
  ops           \* requests begun so far

tokenVars == <<tokens, verifying>>
vars == <<users, linked, sessions, settings, mappings, actors, op, ops, tokenVars>>

Provider == {"google", "oidc"}
Role == {"admin", "operator", "reader", "auditor"}
Row == [email: Email \cup User, role: Role, source: {"local", "oidc_mapped"},
        status: {"active", "disabled", "pending"},
        google: {c.subject : c \in GoogleAccount} \cup {None}, password: BOOLEAN,
        redacted: BOOLEAN,   \* pii_redacted_at is set
        made: {c.subject : c \in OidcAccount} \cup {None}]   \* auxiliary: the OIDC sign-in that created it

ASSUME RowAssumption == None \notin Row   \* a row is not NULL

Settings == [enabled: BOOLEAN, auto: BOOLEAN, secret: BOOLEAN]
GoogleSettings == Settings
ASSUME FormAssumption == Form \subseteq [provider: Provider, enabled: BOOLEAN, auto: BOOLEAN, secret: BOOLEAN]
LiveSessions == 0 .. MaxSessions
RoleMapping == Role \cup {None}   \* one row per claim value

TypeOK ==
  /\ users \in [User -> Row \cup {None}]
  /\ \A s \in DOMAIN linked : linked[s] \in User \cup {None}
  /\ sessions \in [User -> LiveSessions]
  /\ settings \in [Provider -> Settings \cup GoogleSettings \cup {None}]
  /\ mappings \in [Group -> RoleMapping]
  /\ actors \subseteq Email \cup User
  /\ ops \in 0 .. MaxOps
  /\ tokens \in [Token -> TokenRow \cup {None}]

Present == {u \in User : users[u] # None}
ActiveAdmins == {u \in Present : users[u].role = "admin" /\ users[u].status = "active"}
Owner(e) == {u \in Present : users[u].email = e}
Redacted == {u \in Present : users[u].redacted}

-----------------------------------------------------------------------------
(* Who may do what.                                                          *)

\* a live session of an active user
RequireLogin(u) == u \in Present /\ sessions[u] > 0 /\ users[u].status = "active"
RequireAdmin(u) == RequireLogin(u) /\ users[u].role = "admin"
RequireWriteAccess(u) == RequireLogin(u) /\ users[u].role \in {"admin", "operator"}

\* the settings row when it is enabled, else the environment
Usable(p) == IF settings[p] # None /\ settings[p].enabled THEN settings[p].secret ELSE p \in EnvUsable
AutoProvision(p) == IF settings[p] # None /\ settings[p].enabled THEN settings[p].auto ELSE TRUE

-----------------------------------------------------------------------------
(* Requests.                                                                 *)

\* a request on row u (None: it creates one): the row it loaded, the row it
\* leaves, the OIDC subject it links, whether it opens a session, the actor it
\* records; a redaction has a sweep due, and then the addresses it has swept
Request(u, after, link, signin, actor, due) ==
  [user |-> u, loaded |-> IF u = None THEN None ELSE users[u], after |-> after,
   link |-> link, signin |-> signin, actor |-> actor, due |-> due, swept |-> {}]

Begin(s, r) ==
  /\ op[s] = None /\ ops < MaxOps
  /\ op' = [op EXCEPT ![s] = r] /\ ops' = ops + 1
  /\ UNCHANGED <<users, linked, sessions, settings, mappings, actors, tokenVars>>

NewRow(email, role, source, status) ==
  [email |-> email, role |-> role, source |-> source, status |-> status, google |-> None,
   password |-> FALSE, redacted |-> FALSE, made |-> None]

-----------------------------------------------------------------------------
(* Commands and administrators.                                              *)

\* python -m app.cli create-user: the first user is an admin
CliCreateUser(s, e) ==
  /\ Owner(e) = {}
  /\ LET role == IF Present = {} THEN "admin" ELSE "operator"
     IN  Begin(s, Request(None, [NewRow(e, role, "local", "active") EXCEPT !.password = TRUE], None, FALSE, None, FALSE))

\* python -m app.cli promote-admin: sets the role and nothing else
PromoteAdmin(s, u) ==
  /\ u \in Present /\ users[u].role # "admin"
  /\ Begin(s, Request(u, [users[u] EXCEPT !.role = "admin"], None, FALSE, None, FALSE))

\* POST /admin/users
CreateUser(s, a, e) ==
  /\ RequireAdmin(a) /\ Owner(e) = {}
  /\ Begin(s, Request(None, NewRow(e, "operator", "local", "active"), None, FALSE, users[a].email, FALSE))

\* _active_admin_count: another active admin remains
AdminKept(u, role, status) ==
  u \in ActiveAdmins /\ ~(role = "admin" /\ status = "active") => ActiveAdmins \ {u} # {}

\* POST /admin/users/{user_id}/edit pins the role
UpdateUser(s, a, u, role, status) ==
  /\ RequireAdmin(a) /\ u \in Present
  /\ a = u => status = "active"
  /\ AdminKept(u, role, status)
  /\ Begin(s, Request(u, [users[u] EXCEPT !.role = role, !.status = status, !.source = "local"],
                      None, FALSE, users[a].email, FALSE))

\* any request of a user who may write: it records the user's address
Act(s, u) ==
  /\ RequireWriteAccess(u)
  /\ Begin(s, Request(u, users[u], None, FALSE, users[u].email, FALSE))

-----------------------------------------------------------------------------
(* Sign-in.                                                                  *)

\* POST /login
LoginSubmit(s, u) ==
  /\ u \in Present /\ users[u].password /\ users[u].status = "active"
  /\ Begin(s, Request(u, users[u], None, TRUE, users[u].email, FALSE))

\* verify_identity of either provider, as far as a rejection depends on claims
Verified(c) == c.verified
GoogleVerified(c) == c.verified

\* compute_mapped_role: the highest of the mapped roles, or the lowest of all
Precedence == [admin |-> 1, operator |-> 2, reader |-> 3, auditor |-> 4]
MappedRole(groups) ==
  LET matched == {mappings[g] : g \in {h \in groups : mappings[h] # None}}
  IN  IF matched = {} THEN "reader"
      ELSE CHOOSE r \in matched : \A q \in matched : Precedence[r] <= Precedence[q]

\* apply_role_mapping: nothing without mappings or for a pinned role
ApplyRoleMapping(row, groups) ==
  IF row.source = "local" \/ \A g \in Group : mappings[g] = None THEN row
  ELSE [row EXCEPT !.role = MappedRole(groups), !.source = "oidc_mapped"]

\* a subject seen before signs its user in, whatever its address is now
OidcReturn(s, c) ==
  /\ Usable("oidc") /\ Verified(c) /\ linked[c.subject] # None
  /\ LET u == linked[c.subject]
         active == users[u].status = "active"
     IN  Begin(s, Request(u, IF active THEN ApplyRoleMapping(users[u], c.groups) ELSE users[u],
                          None, active, IF active THEN users[u].email ELSE None, FALSE))

\* Mutant of OidcFirstLogin: an address that is known is linked.
OidcFirstLoginLinks(s, c) ==
  /\ Usable("oidc") /\ Verified(c) /\ linked[c.subject] = None
  /\ \E u \in Owner(c.email) : Begin(s, Request(u, users[u], c.subject, TRUE, users[u].email, FALSE))

\* a new subject gets a new user; a known address is rejected
OidcFirstLogin(s, c) ==
  /\ Usable("oidc") /\ Verified(c) /\ linked[c.subject] = None
  /\ Owner(c.email) = {}
  /\ LET auto == AutoProvision("oidc")
         row == IF Present = {} /\ auto THEN NewRow(c.email, "admin", "local", "active")
                ELSE NewRow(c.email, "operator", "oidc_mapped", IF auto THEN "active" ELSE "pending")
         mine == [row EXCEPT !.made = c.subject]
     IN  Begin(s, Request(None, IF auto THEN ApplyRoleMapping(mine, c.groups) ELSE mine,
                          c.subject, auto, IF auto THEN c.email ELSE None, FALSE))

\* the user of a Google subject takes over its address, even when the sign-in
\* is then rejected
GoogleReturn(s, c) ==
  /\ Usable("google") /\ GoogleVerified(c)
  /\ \E u \in Present :
       /\ users[u].google = c.subject
       /\ Owner(c.email) \subseteq {u}
       /\ Begin(s, Request(u, [users[u] EXCEPT !.email = c.email], None, users[u].status = "active",
                           IF users[u].status = "active" \/ users[u].email # c.email THEN c.email ELSE None, FALSE))

\* a known address is linked
GoogleLink(s, c) ==
  /\ Usable("google") /\ GoogleVerified(c)
  /\ \A u \in Present : users[u].google # c.subject
  /\ \E u \in Owner(c.email) :
       /\ users[u].google = None
       /\ Begin(s, Request(u, [users[u] EXCEPT !.google = c.subject], None, users[u].status = "active", c.email, FALSE))

GoogleFirstLogin(s, c) ==
  /\ Usable("google") /\ GoogleVerified(c)
  /\ \A u \in Present : users[u].google # c.subject
  /\ Owner(c.email) = {}
  /\ LET auto == AutoProvision("google")
         row == NewRow(c.email, IF Present = {} /\ auto THEN "admin" ELSE "operator", "local",
                       IF auto THEN "active" ELSE "pending")
     IN  Begin(s, Request(None, [row EXCEPT !.google = c.subject], None, auto,
                          IF auto THEN c.email ELSE None, FALSE))

\* POST /logout, and a session that expires
Logout(u) ==
  /\ RequireLogin(u)
  /\ sessions' = [sessions EXCEPT ![u] = @ - 1]
  /\ actors' = actors \cup {users[u].email}
  /\ UNCHANGED <<users, linked, settings, mappings, op, ops, tokenVars>>

Expire(u) ==
  /\ sessions[u] > 0
  /\ sessions' = [sessions EXCEPT ![u] = @ - 1]
  /\ UNCHANGED <<users, linked, settings, mappings, actors, op, ops, tokenVars>>

-----------------------------------------------------------------------------
(* Redaction.  No route and no command calls redact_user_pii: a caller has a *)
(* session of its own, like a request, and a user as the actor.              *)

\* redact_user_pii checks the loaded row
RedactUserPii(s, a, u) ==
  /\ a \in Present \ {u} /\ u \in Present \ Redacted /\ users[u].status = "disabled"
  /\ Begin(s, Request(u, [users[u] EXCEPT !.email = u, !.redacted = TRUE], None, FALSE, users[a].email, TRUE))

\* Mutant of Sweep: the updates are committed table by table.
SweepCommits(s) ==
  LET old == op[s].loaded.email
  IN  /\ op[s] # None /\ op[s].due
      /\ actors' = (actors \ {old}) \cup (IF old \in actors THEN {op[s].user} ELSE {})
      /\ op' = [op EXCEPT ![s].due = FALSE]
      /\ UNCHANGED <<users, linked, sessions, settings, mappings, ops, tokenVars>>

\* The columns that froze the loaded address are updated; the rows are the
\* transaction's own until it ends.
Sweep(s) ==
  LET old == op[s].loaded.email
  IN  /\ op[s] # None /\ op[s].due
      /\ actors' = actors \ {old}
      /\ op' = [op EXCEPT ![s].due = FALSE, ![s].swept = actors \cap {old}]
      /\ UNCHANGED <<users, linked, sessions, settings, mappings, ops, tokenVars>>

-----------------------------------------------------------------------------
(* The end of a request: one commit, or a rollback.                          *)

\* the unique addresses, Google subjects and OIDC subjects
Conflict(u, row, link) ==
  \/ \E v \in Present \ {u} : users[v].email = row.email \/ (row.google # None /\ users[v].google = row.google)
  \/ link # None /\ linked[link] # None

\* the ORM's UPDATE of the changed columns
Written(row, loaded, after) ==
  IF row = None THEN after
  ELSE [c \in DOMAIN row |-> IF after[c] # loaded[c] THEN after[c] ELSE row[c]]

Commit(s, u) ==
  LET r == op[s]
      row == Written(users[u], r.loaded, r.after)
  IN  /\ ~Conflict(u, row, r.link)
      /\ users' = [users EXCEPT ![u] = row]
      /\ linked' = IF r.link = None THEN linked ELSE [linked EXCEPT ![r.link] = u]
      /\ sessions' = [sessions EXCEPT ![u] = IF r.signin /\ @ < MaxSessions THEN @ + 1 ELSE @]
      /\ actors' = actors \cup ({r.actor} \ {None}) \cup (IF r.swept = {} THEN {} ELSE {u})

Rollback(s, u) ==
  /\ Conflict(u, Written(users[u], op[s].loaded, op[s].after), op[s].link)
  /\ actors' = actors \cup op[s].swept
  /\ UNCHANGED <<users, linked, sessions>>

Finish(s) ==
  /\ op[s] # None /\ ~op[s].due
  /\ \E u \in User : /\ IF op[s].user = None THEN users[u] = None ELSE u = op[s].user
                     /\ Commit(s, u) \/ Rollback(s, u)
  /\ op' = [op EXCEPT ![s] = None]
  /\ UNCHANGED <<settings, mappings, ops, tokenVars>>

-----------------------------------------------------------------------------
(* Settings pages: one step each.                                            *)

\* a page of an administrator, which records the address
Page(a) ==
  /\ RequireAdmin(a) /\ ops < MaxOps /\ ops' = ops + 1
  /\ actors' = actors \cup {users[a].email}
  /\ UNCHANGED <<linked, sessions, op>>

\* a blank client secret keeps the stored one
SavedSettings(f) ==
  [enabled |-> f.enabled, auto |-> f.auto,
   secret |-> f.secret \/ (settings[f.provider] # None /\ settings[f.provider].secret)]

UpdateGoogleSettings(a, f) ==
  /\ Page(a) /\ f.provider = "google"
  /\ settings' = [settings EXCEPT !["google"] = SavedSettings(f)]
  /\ UNCHANGED <<users, mappings, tokenVars>>

UpdateOidcSettings(a, f) ==
  /\ Page(a) /\ f.provider = "oidc"
  /\ settings' = [settings EXCEPT !["oidc"] = SavedSettings(f)]
  /\ UNCHANGED <<users, mappings, tokenVars>>

CreateRoleMapping(a, g, role) ==
  /\ Page(a) /\ mappings[g] = None
  /\ mappings' = [mappings EXCEPT ![g] = role]
  /\ UNCHANGED <<users, settings, tokenVars>>

DeleteRoleMapping(a, g) ==
  /\ Page(a) /\ mappings[g] # None
  /\ mappings' = [mappings EXCEPT ![g] = None]
  /\ UNCHANGED <<users, settings, tokenVars>>

TokenPage(a, t) ==
  /\ Page(a)
  /\ CreateApiToken(a, t) \/ RevokeApiToken(t)
  /\ UNCHANGED <<users, settings, mappings>>

VerifyToken(t) ==
  /\ \/ VerifyApiToken(t) /\ ops < MaxOps /\ ops' = ops + 1
     \/ VerifyTokenEnds(t) /\ UNCHANGED ops
  /\ UNCHANGED <<users, linked, sessions, settings, mappings, actors, op>>

-----------------------------------------------------------------------------
Init ==
  /\ users = [u \in User |-> None]
  /\ linked = [s \in {c.subject : c \in OidcAccount} |-> None]
  /\ sessions = [u \in User |-> 0]
  /\ settings = [p \in Provider |-> None]
  /\ mappings = [g \in Group |-> None]
  /\ actors = {}
  /\ op = [s \in Session |-> None]
  /\ ops = 0
  /\ TokensInit

Next ==
  \/ \E s \in Session :
       \/ \E e \in Email : CliCreateUser(s, e) \/ \E a \in User : CreateUser(s, a, e)
       \/ \E u \in User : PromoteAdmin(s, u) \/ LoginSubmit(s, u) \/ Act(s, u)
       \/ \E a, u \in User, role \in EditRole, status \in {"active", "disabled"} : UpdateUser(s, a, u, role, status)
       \/ \E c \in OidcAccount : OidcReturn(s, c) \/ OidcFirstLogin(s, c)
       \/ \E c \in GoogleAccount : GoogleReturn(s, c) \/ GoogleLink(s, c) \/ GoogleFirstLogin(s, c)
       \/ \E a, u \in User : RedactUserPii(s, a, u)
       \/ Sweep(s) \/ Finish(s)
  \/ \E u \in User : Logout(u) \/ Expire(u)
  \/ \E a \in User :
       \/ \E f \in Form : UpdateGoogleSettings(a, f) \/ UpdateOidcSettings(a, f)
       \/ \E t \in Token : TokenPage(a, t)
       \/ \E g \in Group : DeleteRoleMapping(a, g) \/ \E role \in EditRole : CreateRoleMapping(a, g, role)
  \/ \E t \in Token : VerifyToken(t)

Spec == Init /\ [][Next]_vars

-----------------------------------------------------------------------------
(* Properties.                                                               *)

\* An active admin remains ("no self-lockout, no zero-admin state", the users
\* page), whatever edits, demotions and sign-ins with mapped roles race.
AdminRemains == [][ActiveAdmins # {} => ActiveAdmins' # {}]_vars

\* An OIDC subject belongs to the user its own first sign-in created, also when
\* that sign-in races with another account of the same address: users of other
\* origin are never linked (the collision rule of the OIDC sign-in).
IdentityOwnsUser ==
  \A x \in DOMAIN linked : linked[x] # None =>
    linked[x] \in Present /\ users[linked[x]].made = x

\* A pseudonym among the actors resolves: it is the id of a user who has been
\* redacted ("this action was taken by account <id>, whose PII has since been
\* redacted"), although the sweep comes before the row is written and other
\* requests and redactions commit in between (redact_user_pii).
PseudonymsResolve == actors \cap User \subseteq Redacted
=============================================================================
