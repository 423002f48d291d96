----------------------------- MODULE AccessProofs -----------------------------
(***************************************************************************)
(* For any users, addresses, providers' accounts, sessions and requests:   *)
(* an OIDC subject owns the user it created, a pseudonym among the actors  *)
(* is that of a redacted user, and a revoked token stays revoked.          *)
(*                                                                         *)
(* A request holds what it read until it commits.  The invariant says what *)
(* of that is still true of the rows when it commits, whatever other       *)
(* requests have committed since (RequestInv).                             *)
(***************************************************************************)
EXTENDS Access, TLAPS

Subject == {c.subject : c \in OidcAccount}

PendingRequest ==
  [user: User \cup {None}, loaded: Row \cup {None}, after: Row, link: Subject \cup {None},
   signin: BOOLEAN, actor: Email \cup User \cup {None}, due: BOOLEAN,
   swept: SUBSET (Email \cup User)]

Shape ==
  /\ users \in [User -> Row \cup {None}]
  /\ linked \in [Subject -> User \cup {None}]
  /\ settings \in [Provider -> Settings \cup {None}]
  /\ mappings \in [Group -> RoleMapping]
  /\ actors \subseteq Email \cup User
  /\ op \in [Session -> PendingRequest \cup {None}]

\* A pseudonym is the address of the redacted user it names, and of nobody else.
Pseudonyms ==
  \A u \in Present : users[u].email \in User => users[u].email = u /\ users[u].redacted

\* An edit links nothing, keeps who made the row, never takes a redaction back,
\* and writes a mail address, or the pseudonym together with the redaction.
Edits(r) ==
  r.user # None =>
    /\ r.user \in Present /\ r.loaded \in Row /\ r.link = None
    /\ r.after.made = r.loaded.made
    /\ r.loaded.redacted => r.after.redacted
    /\ \/ r.after.email = r.loaded.email
       \/ r.after.email \in Email
       \/ r.after.email = r.user /\ r.after.redacted /\ ~r.loaded.redacted

\* A creation links at most the subject that signs in.
Creates(r) ==
  r.user = None =>
    /\ r.after.email \in Email
    /\ r.link # None => r.after.made = r.link

\* The actor it will record is a mail address or the pseudonym of a redacted user.
Names(r) == r.actor \in User => r.actor \in Redacted

\* Only a redaction sweeps, and only the mail address it loaded.
Sweeps(r) ==
  /\ r.due \/ r.swept # {} =>
       r.user # None /\ r.after.redacted /\ ~r.loaded.redacted /\ r.loaded.email \in Email
  /\ r.swept \subseteq Email

RequestInv(r) == Edits(r) /\ Creates(r) /\ Names(r) /\ Sweeps(r)

AccessInv ==
  /\ Shape
  /\ Pseudonyms
  /\ \A s \in Session : op[s] # None => RequestInv(op[s])
  /\ IdentityOwnsUser
  /\ PseudonymsResolve

-----------------------------------------------------------------------------
(* Rows.                                                                     *)

Columns == {"email", "role", "source", "status", "google", "password", "redacted", "made"}

LEMMA RowIs ==
  ASSUME NEW x \in Row
  PROVE  /\ DOMAIN x = Columns
         /\ x.email \in Email \cup User /\ x.role \in Role
         /\ x.source \in {"local", "oidc_mapped"}
         /\ x.status \in {"active", "disabled", "pending"}
         /\ x.google \in {c.subject : c \in GoogleAccount} \cup {None}
         /\ x.password \in BOOLEAN /\ x.redacted \in BOOLEAN
         /\ x.made \in Subject \cup {None}
BY DEF Row, Columns, Subject

LEMMA IsRow ==
  ASSUME NEW x, x = [c \in Columns |-> x[c]],
         x.email \in Email \cup User, x.role \in Role,
         x.source \in {"local", "oidc_mapped"},
         x.status \in {"active", "disabled", "pending"},
         x.google \in {c.subject : c \in GoogleAccount} \cup {None},
         x.password \in BOOLEAN, x.redacted \in BOOLEAN,
         x.made \in Subject \cup {None}
  PROVE  x \in Row
BY DEF Row, Columns, Subject

\* Written takes each column from the row that is there or from the request.
LEMMA WrittenIsRow ==
  ASSUME NEW row \in Row, NEW loaded \in Row, NEW after \in Row
  PROVE  /\ Written(row, loaded, after) \in Row
         /\ \A c \in Columns : Written(row, loaded, after)[c] =
              IF after[c] # loaded[c] THEN after[c] ELSE row[c]
<1> DEFINE x == Written(row, loaded, after)
<1>1. x = [c \in Columns |-> IF after[c] # loaded[c] THEN after[c] ELSE row[c]]
  BY RowIs, RowAssumption DEF Written
<1>2. \A c \in Columns : x[c] = IF after[c] # loaded[c] THEN after[c] ELSE row[c]
  BY <1>1
<1>3. x = [c \in Columns |-> x[c]]  BY <1>1
<1> HIDE DEF x
<1>4. /\ x.email \in {row.email, after.email} /\ x.role \in {row.role, after.role}
      /\ x.source \in {row.source, after.source} /\ x.status \in {row.status, after.status}
      /\ x.google \in {row.google, after.google} /\ x.password \in {row.password, after.password}
      /\ x.redacted \in {row.redacted, after.redacted} /\ x.made \in {row.made, after.made}
  BY <1>2 DEF Columns
<1>5. x \in Row  BY <1>3, <1>4, RowIs, IsRow
<1> QED  BY <1>2, <1>5 DEF x

\* A mapped role is a role.
LEMMA MappedRoleIsRole ==
  ASSUME mappings \in [Group -> RoleMapping], NEW groups \in SUBSET Group
  PROVE  MappedRole(groups) \in Role
<1> DEFINE matched == {mappings[g] : g \in {h \in groups : mappings[h] # None}}
<1>1. matched \subseteq Role  BY DEF RoleMapping
<1>2. CASE matched = {}  BY <1>2 DEF MappedRole, Role
<1>3. CASE matched # {}
  <2>1. \E r \in matched : \A q \in matched : Precedence[r] <= Precedence[q]
    <3> HIDE DEF matched
    <3>1. CASE "admin" \in matched  BY <1>1, <3>1 DEF Role, Precedence
    <3>2. CASE "admin" \notin matched /\ "operator" \in matched
      BY <1>1, <3>2 DEF Role, Precedence
    <3>3. CASE matched \cap {"admin", "operator"} = {} /\ "reader" \in matched
      BY <1>1, <3>3 DEF Role, Precedence
    <3>4. CASE matched = {"auditor"}  BY <3>4 DEF Precedence
    <3>5. QED  BY <1>1, <1>3, <3>1, <3>2, <3>3, <3>4 DEF Role
  <2>2. MappedRole(groups) \in matched
    BY <1>3, <2>1 DEF MappedRole
  <2>3. QED  BY <1>1, <2>2
<1>4. QED  BY <1>2, <1>3

\* apply_role_mapping touches the role and its source only.
LEMMA ApplyRoleMappingKeeps ==
  ASSUME mappings \in [Group -> RoleMapping], NEW groups \in SUBSET Group, NEW row \in Row
  PROVE  LET x == ApplyRoleMapping(row, groups)
         IN  /\ x \in Row /\ x.email = row.email
             /\ x.redacted = row.redacted /\ x.made = row.made
<1>1. PICK role \in Role : role = MappedRole(groups)  BY MappedRoleIsRole
<1>2. ApplyRoleMapping(row, groups) = row
        \/ ApplyRoleMapping(row, groups) = [row EXCEPT !.role = role, !.source = "oidc_mapped"]
  BY <1>1 DEF ApplyRoleMapping
<1>3. QED  BY <1>2 DEF Row

-----------------------------------------------------------------------------
(* Requests begin.                                                           *)

LEMMA BeginStep ==
  ASSUME AccessInv, NEW s \in Session, NEW r \in PendingRequest, RequestInv(r), Begin(s, r)
  PROVE  AccessInv'
<1>1. /\ UNCHANGED <<users, linked, settings, mappings, actors>>
      /\ op' = [op EXCEPT ![s] = r]
  BY DEF Begin
<1>2. Present' = Present /\ Redacted' = Redacted
  BY <1>1 DEF Present, Redacted
<1>3. Shape'  BY <1>1 DEF AccessInv, Shape
<1>4. Pseudonyms'  BY <1>1, <1>2 DEF AccessInv, Pseudonyms
<1>5. IdentityOwnsUser' /\ PseudonymsResolve'
  BY <1>1, <1>2 DEF AccessInv, IdentityOwnsUser, PseudonymsResolve
<1>6. ASSUME NEW q, RequestInv(q) PROVE RequestInv(q)'
  BY <1>1, <1>2, <1>6 DEF RequestInv, Edits, Creates, Names, Sweeps
<1>7. ASSUME NEW z \in Session, op'[z] # None PROVE RequestInv(op[z])'
  <2>1. PICK q : q = op'[z]  OBVIOUS
  <2>2. RequestInv(q)
    <3>1. CASE z = s  BY <1>1, <2>1, <3>1 DEF AccessInv, Shape
    <3>2. CASE z # s
      <4>1. op'[z] = op[z]  BY <1>1, <3>2 DEF AccessInv, Shape
      <4>2. QED  BY <1>7, <2>1, <4>1 DEF AccessInv
    <3>3. QED  BY <3>1, <3>2
  <2>3. RequestInv(q)'  BY <1>6, <2>2
  <2>4. QED  BY <2>1, <2>3
<1>8. QED  BY <1>3, <1>4, <1>5, <1>7 DEF AccessInv

\* An address somebody has is mail or the pseudonym of a redacted user.
LEMMA OwnedAddress ==
  ASSUME AccessInv, NEW x \in Present
  PROVE  users[x].email \in User => users[x].email \in Redacted
BY DEF AccessInv, Pseudonyms, Redacted

\* An actor of a request that begins: nobody, a mail address, or whoever is there.
Acting(actor) ==
  actor = None \/ actor \in Email \/ \E x \in Present : actor = users[x].email

LEMMA ActingNames ==
  ASSUME AccessInv, NEW actor, Acting(actor)
  PROVE  actor \in Email \cup User \cup {None} /\ (actor \in User => actor \in Redacted)
<1>1. CASE actor = None \/ actor \in Email  BY <1>1, AddressAssumption
<1>2. ASSUME NEW x \in Present, actor = users[x].email
      PROVE  actor \in Email \cup User \cup {None} /\ (actor \in User => actor \in Redacted)
  <2>1. users[x] \in Row  BY DEF AccessInv, Shape, Present
  <2>2. QED  BY <1>2, <2>1, OwnedAddress DEF Row
<1>3. QED  BY <1>1, <1>2 DEF Acting

\* A request on a row that is there.
LEMMA BeginEdit ==
  ASSUME AccessInv, NEW s \in Session, NEW u \in Present, NEW after \in Row,
         NEW signin \in BOOLEAN, NEW actor,
         after.made = users[u].made, after.redacted = users[u].redacted,
         after.email # users[u].email => after.email \in Email,
         Acting(actor),
         Begin(s, Request(u, after, None, signin, actor, FALSE))
  PROVE  AccessInv'
<1> PICK r : r = Request(u, after, None, signin, actor, FALSE)  OBVIOUS
<1>1. u \in User /\ users[u] \in Row /\ u # None
  BY AddressAssumption DEF AccessInv, Shape, Present
<1>2. actor \in Email \cup User \cup {None} /\ (actor \in User => actor \in Redacted)
  BY ActingNames
<1>3. r \in PendingRequest  BY <1>1, <1>2 DEF Request, PendingRequest
<1>4. /\ r.user = u /\ r.loaded = users[u] /\ r.after = after /\ r.link = None
      /\ r.actor = actor /\ r.due = FALSE /\ r.swept = {}
  BY <1>1 DEF Request
<1>5. Edits(r) /\ Creates(r)  BY <1>1, <1>4 DEF Edits, Creates
<1>6. Names(r) /\ Sweeps(r)  BY <1>2, <1>4 DEF Names, Sweeps
<1>7. RequestInv(r)  BY <1>5, <1>6 DEF RequestInv
<1>8. QED  BY <1>3, <1>7, BeginStep

\* A request that creates a user.
LEMMA BeginCreate ==
  ASSUME AccessInv, NEW s \in Session, NEW after \in Row, NEW link \in Subject \cup {None},
         NEW signin \in BOOLEAN, NEW actor,
         after.email \in Email, link # None => after.made = link,
         Acting(actor),
         Begin(s, Request(None, after, link, signin, actor, FALSE))
  PROVE  AccessInv'
<1> PICK r : r = Request(None, after, link, signin, actor, FALSE)  OBVIOUS
<1>2. actor \in Email \cup User \cup {None} /\ (actor \in User => actor \in Redacted)
  BY ActingNames
<1>3. r \in PendingRequest  BY <1>2 DEF Request, PendingRequest
<1>4. /\ r.user = None /\ r.after = after /\ r.link = link
      /\ r.actor = actor /\ r.due = FALSE /\ r.swept = {}
  BY DEF Request
<1>5. Edits(r) /\ Creates(r)  BY <1>4 DEF Edits, Creates
<1>6. Names(r) /\ Sweeps(r)  BY <1>2, <1>4 DEF Names, Sweeps
<1>7. RequestInv(r)  BY <1>5, <1>6 DEF RequestInv
<1>8. QED  BY <1>3, <1>7, BeginStep

\* redact_user_pii: a user who is not redacted has a mail address, which the
\* pseudonym will replace.
LEMMA BeginRedaction ==
  ASSUME AccessInv, NEW s \in Session, NEW a \in User, NEW u \in User, RedactUserPii(s, a, u)
  PROVE  AccessInv'
<1>1. /\ a \in Present /\ u \in Present /\ ~users[u].redacted
  BY DEF RedactUserPii, Redacted
<1>2. PICK after : after = [users[u] EXCEPT !.email = u, !.redacted = TRUE]  OBVIOUS
<1>3. PICK actor : actor = users[a].email  OBVIOUS
<1>4. PICK r : r = Request(u, after, None, FALSE, actor, TRUE)  OBVIOUS
<1>5. Begin(s, r)  BY <1>2, <1>3, <1>4 DEF RedactUserPii
<1>6. users[u] \in Row /\ u # None /\ users[u].email \in Email
  BY <1>1, AddressAssumption DEF AccessInv, Shape, Present, Pseudonyms, Row
<1>7. after \in Row /\ after.email = u /\ after.redacted = TRUE /\ after.made = users[u].made
  BY <1>2, <1>6 DEF Row
<1>8. actor \in Email \cup User \cup {None} /\ (actor \in User => actor \in Redacted)
  BY <1>1, <1>3, ActingNames DEF Acting
<1>9. r \in PendingRequest  BY <1>4, <1>6, <1>7, <1>8 DEF Request, PendingRequest
<1>10. /\ r.user = u /\ r.loaded = users[u] /\ r.after = after /\ r.link = None
       /\ r.actor = actor /\ r.due = TRUE /\ r.swept = {}
  BY <1>4, <1>6 DEF Request
<1>11. Edits(r) /\ Creates(r)  BY <1>1, <1>6, <1>7, <1>10 DEF Edits, Creates
<1>12. Names(r) /\ Sweeps(r)  BY <1>1, <1>6, <1>7, <1>8, <1>10 DEF Names, Sweeps
<1>13. RequestInv(r)  BY <1>11, <1>12 DEF RequestInv
<1>14. QED  BY <1>5, <1>9, <1>13, BeginStep

LEMMA PresentRow ==
  ASSUME AccessInv, NEW u \in Present
  PROVE  /\ u \in User /\ users[u] \in Row /\ users[u] # None
         /\ users[u].email \in Email \cup User
BY DEF AccessInv, Shape, Present, Row

\* The commands and pages that create a user or edit one.
LEMMA BeginAdministration ==
  ASSUME AccessInv, NEW s \in Session,
         \/ \E e \in Email : CliCreateUser(s, e) \/ \E a \in User : CreateUser(s, a, e)
         \/ \E u \in User : PromoteAdmin(s, u) \/ LoginSubmit(s, u) \/ Act(s, u)
         \/ \E a, u \in User, role \in EditRole, status \in {"active", "disabled"} :
              UpdateUser(s, a, u, role, status)
  PROVE  AccessInv'
<1>1. ASSUME NEW e \in Email, CliCreateUser(s, e) PROVE AccessInv'
  <2>1. PICK role \in Role : role = IF Present = {} THEN "admin" ELSE "operator"  BY DEF Role
  <2>2. PICK row : row = NewRow(e, role, "local", "active")  OBVIOUS
  <2>3. row \in Row /\ row.email = e  BY <2>2 DEF NewRow, Row
  <2>4. PICK after : after = [row EXCEPT !.password = TRUE]  OBVIOUS
  <2>5. after \in Row /\ after.email = e
    <3>1. /\ DOMAIN after = Columns /\ after = [c \in Columns |-> after[c]] /\ after.password = TRUE
          /\ after.email = row.email /\ after.role = row.role /\ after.source = row.source
          /\ after.status = row.status /\ after.google = row.google
          /\ after.made = row.made /\ after.redacted = row.redacted
      BY <2>3, <2>4, RowIs DEF Columns
    <3>2. after \in Row  BY <2>3, <3>1, RowIs, IsRow
    <3>3. QED  BY <2>3, <3>1, <3>2
  <2>6. Begin(s, Request(None, after, None, FALSE, None, FALSE))
    BY <1>1, <2>1, <2>2, <2>4 DEF CliCreateUser
  <2>7. QED  BY <2>5, <2>6, BeginCreate DEF Acting
<1>2. ASSUME NEW e \in Email, NEW a \in User, CreateUser(s, a, e) PROVE AccessInv'
  <2> PICK row : row = NewRow(e, "operator", "local", "active")  OBVIOUS
  <2>1. row \in Row /\ row.email = e  BY DEF NewRow, Row, Role
  <2>2. a \in Present  BY <1>2 DEF CreateUser, RequireAdmin, RequireLogin
  <2>3. Begin(s, Request(None, row, None, FALSE, users[a].email, FALSE))
    BY <1>2 DEF CreateUser
  <2>4. QED  BY <2>1, <2>2, <2>3, BeginCreate, PresentRow DEF Acting
<1>3. ASSUME NEW u \in User, PromoteAdmin(s, u) PROVE AccessInv'
  <2>1. u \in Present /\ users[u].role # "admin"  BY <1>3 DEF PromoteAdmin
  <2>2. PICK after : after = [users[u] EXCEPT !.role = "admin"]  OBVIOUS
  <2>3. /\ after \in Row /\ after.email = users[u].email
        /\ after.made = users[u].made /\ after.redacted = users[u].redacted
    BY <2>1, <2>2, PresentRow DEF Row, Role
  <2>5. Begin(s, Request(u, after, None, FALSE, None, FALSE))
    BY <1>3, <2>2 DEF PromoteAdmin
  <2>6. QED  BY <2>1, <2>3, <2>5, BeginEdit DEF Acting
<1>4. ASSUME NEW u \in User, NEW signin \in BOOLEAN, u \in Present,
             Begin(s, Request(u, users[u], None, signin, users[u].email, FALSE))
      PROVE  AccessInv'
  BY <1>4, BeginEdit, PresentRow DEF Acting
<1>5. ASSUME NEW u \in User, LoginSubmit(s, u) \/ Act(s, u) PROVE AccessInv'
  BY <1>4, <1>5 DEF LoginSubmit, Act, RequireWriteAccess, RequireLogin
<1>6. ASSUME NEW a \in User, NEW u \in User, NEW role \in EditRole, NEW status \in {"active", "disabled"},
             UpdateUser(s, a, u, role, status)
      PROVE  AccessInv'
  <2>1. u \in Present /\ a \in Present
    BY <1>6 DEF UpdateUser, RequireAdmin, RequireLogin
  <2>2. PICK after : after = [users[u] EXCEPT !.role = role, !.status = status, !.source = "local"]
    OBVIOUS
  <2>3. /\ after \in Row /\ after.email = users[u].email
        /\ after.made = users[u].made /\ after.redacted = users[u].redacted
        /\ after.role = role /\ after.status = status
    <3>1. role \in Role  BY RoleAssumption DEF Role
    <3>2. users[u] \in Row  BY <2>1, PresentRow
    <3>3. status \in {"active", "disabled", "pending"}  OBVIOUS
    <3>4. QED  BY <2>2, <3>1, <3>2, <3>3 DEF Row
  <2>4. Begin(s, Request(u, after, None, FALSE, users[a].email, FALSE))
    BY <1>6, <2>2 DEF UpdateUser
  <2>5. QED  BY <2>1, <2>3, <2>4, BeginEdit, PresentRow DEF Acting
<1>7. QED  BY <1>1, <1>2, <1>3, <1>5, <1>6

LEMMA AutoProvisionIs ==
  ASSUME AccessInv, NEW p \in Provider
  PROVE  AutoProvision(p) \in BOOLEAN
<1>1. settings[p] \in Settings \cup {None}  BY DEF AccessInv, Shape
<1>2. QED  BY <1>1 DEF AutoProvision, Settings

\* Sign-in with OIDC: the user of the subject, or a new one.
LEMMA BeginOidc ==
  ASSUME AccessInv, NEW s \in Session, NEW c \in OidcAccount,
         OidcReturn(s, c) \/ OidcFirstLogin(s, c)
  PROVE  AccessInv'
<1>1. /\ c.email \in Email /\ c.groups \in SUBSET Group /\ c.subject \in Subject
      /\ mappings \in [Group -> RoleMapping]
  BY AccountAssumption DEF Subject, AccessInv, Shape
<1>2. CASE OidcReturn(s, c)
  <2> PICK u : u = linked[c.subject]  OBVIOUS
  <2>1. u \in Present
    BY <1>1, <1>2 DEF OidcReturn, AccessInv, Shape, IdentityOwnsUser
  <2>2. users[u] \in Row /\ users[u].email \in Email \cup User
    BY <2>1, PresentRow
  <2>3. CASE users[u].status = "active"
    <3> PICK after : after = ApplyRoleMapping(users[u], c.groups)  OBVIOUS
    <3>1. /\ after \in Row /\ after.email = users[u].email
          /\ after.made = users[u].made /\ after.redacted = users[u].redacted
      BY <1>1, <2>2, ApplyRoleMappingKeeps
    <3>2. Begin(s, Request(u, after, None, TRUE, users[u].email, FALSE))
      BY <1>2, <2>3 DEF OidcReturn
    <3>3. QED  BY <2>1, <2>2, <3>1, <3>2, BeginEdit DEF Acting
  <2>4. CASE users[u].status # "active"
    <3>1. Begin(s, Request(u, users[u], None, FALSE, None, FALSE))
      BY <1>2, <2>4 DEF OidcReturn
    <3>3. QED  BY <2>1, <2>2, <3>1, BeginEdit DEF Acting
  <2>5. QED  BY <2>3, <2>4
<1>3. CASE OidcFirstLogin(s, c)
  <2>1. PICK auto : auto = AutoProvision("oidc")  OBVIOUS
  <2>2. PICK status \in {"active", "pending"} : status = IF auto THEN "active" ELSE "pending"  OBVIOUS
  <2>3. PICK row : row = IF Present = {} /\ auto THEN NewRow(c.email, "admin", "local", "active")
                         ELSE NewRow(c.email, "operator", "oidc_mapped", status)
    OBVIOUS
  <2>4. PICK mine : mine = [row EXCEPT !.made = c.subject]  OBVIOUS
  <2>5. PICK after : after = IF auto THEN ApplyRoleMapping(mine, c.groups) ELSE mine  OBVIOUS
  <2>6. PICK actor : actor = IF auto THEN c.email ELSE None  OBVIOUS
  <2>7. row \in Row /\ row.email = c.email
    <3>1. CASE Present = {} /\ auto  BY <1>1, <2>3, <3>1 DEF NewRow, Row, Role
    <3>2. CASE ~(Present = {} /\ auto)  BY <1>1, <2>3, <3>2 DEF NewRow, Row, Role
    <3>3. QED  BY <3>1, <3>2
  <2>8. mine \in Row /\ mine.email = c.email /\ mine.made = c.subject
    BY <1>1, <2>4, <2>7 DEF Row, Subject
  <2>9. /\ after \in Row /\ after.email = c.email /\ after.made = c.subject
    <3>1. CASE auto  BY <1>1, <2>5, <2>8, <3>1, ApplyRoleMappingKeeps
    <3>2. CASE ~auto  BY <2>5, <2>8, <3>2
    <3>3. QED  BY <3>1, <3>2
  <2>10. Begin(s, Request(None, after, c.subject, auto, actor, FALSE))
    BY <1>3, <2>1, <2>2, <2>3, <2>4, <2>5, <2>6 DEF OidcFirstLogin
  <2>11. actor = None \/ actor \in Email  BY <1>1, <2>6, <2>9
  <2>12. auto \in BOOLEAN  BY <2>1, AutoProvisionIs DEF Provider
  <2>13. c.subject \in Subject \cup {None} /\ after.email \in Email  BY <1>1, <2>9
  <2>14. QED  BY <2>9, <2>10, <2>11, <2>12, <2>13, BeginCreate DEF Acting
<1>4. QED  BY <1>2, <1>3

\* Sign-in with Google: the user of the subject or of the address, or a new one.
LEMMA BeginGoogle ==
  ASSUME AccessInv, NEW s \in Session, NEW c \in GoogleAccount,
         GoogleReturn(s, c) \/ GoogleLink(s, c) \/ GoogleFirstLogin(s, c)
  PROVE  AccessInv'
<1>1. c.email \in Email  BY AccountAssumption
<1>2. CASE GoogleReturn(s, c)
  <2>1. PICK u \in Present :
          Begin(s, Request(u, [users[u] EXCEPT !.email = c.email], None, users[u].status = "active",
                           IF users[u].status = "active" \/ users[u].email # c.email THEN c.email ELSE None, FALSE))
    BY <1>2 DEF GoogleReturn
  <2>2. users[u] \in Row  BY PresentRow
  <2>3. PICK signin \in BOOLEAN : signin = (users[u].status = "active")  OBVIOUS
  <2>4. PICK actor : actor = IF users[u].status = "active" \/ users[u].email # c.email THEN c.email ELSE None
    OBVIOUS
  <2>5. PICK after : after = [users[u] EXCEPT !.email = c.email]  OBVIOUS
  <2>6. /\ after \in Row /\ after.email = c.email
        /\ after.made = users[u].made /\ after.redacted = users[u].redacted
        /\ after.role = users[u].role /\ after.status = users[u].status
    BY <1>1, <2>2, <2>5 DEF Row
  <2>8. actor = None \/ actor \in Email  BY <1>1, <2>4
  <2>9. Begin(s, Request(u, after, None, signin, actor, FALSE))
    BY <2>1, <2>3, <2>4, <2>5
  <2>10. QED  BY <1>1, <2>6, <2>8, <2>9, BeginEdit DEF Acting
<1>3. CASE GoogleLink(s, c)
  <2>1. PICK u \in Owner(c.email) :
          Begin(s, Request(u, [users[u] EXCEPT !.google = c.subject], None, users[u].status = "active", c.email, FALSE))
    BY <1>3 DEF GoogleLink
  <2>2. u \in Present /\ users[u].email = c.email  BY DEF Owner
  <2>3. users[u] \in Row  BY <2>2, PresentRow
  <2>4. PICK signin \in BOOLEAN : signin = (users[u].status = "active")  OBVIOUS
  <2>5. PICK after : after = [users[u] EXCEPT !.google = c.subject]  OBVIOUS
  <2>6. /\ after \in Row /\ after.email = users[u].email
        /\ after.made = users[u].made /\ after.redacted = users[u].redacted
        /\ after.role = users[u].role /\ after.status = users[u].status
    BY <2>3, <2>5 DEF Row
  <2>8. PICK actor : actor = c.email  OBVIOUS
  <2>9. actor \in Email  BY <1>1, <2>8
  <2>10. Begin(s, Request(u, after, None, signin, actor, FALSE))
    BY <2>1, <2>4, <2>5, <2>8
  <2>11. QED  BY <2>2, <2>6, <2>9, <2>10, BeginEdit DEF Acting
<1>4. CASE GoogleFirstLogin(s, c)
  <2>1. PICK auto : auto = AutoProvision("google")  OBVIOUS
  <2>2. PICK status \in {"active", "pending"} : status = IF auto THEN "active" ELSE "pending"  OBVIOUS
  <2>3. PICK role \in Role : role = IF Present = {} /\ auto THEN "admin" ELSE "operator"  BY DEF Role
  <2>4. PICK row : row = NewRow(c.email, role, "local", status)  OBVIOUS
  <2>5. PICK after : after = [row EXCEPT !.google = c.subject]  OBVIOUS
  <2>6. PICK actor : actor = IF auto THEN c.email ELSE None  OBVIOUS
  <2>7. row \in Row /\ row.email = c.email
    BY <1>1, <2>4 DEF NewRow, Row
  <2>8. after \in Row /\ after.email = c.email
    BY <2>5, <2>7 DEF Row
  <2>9. Begin(s, Request(None, after, None, auto, actor, FALSE))
    BY <1>4, <2>1, <2>2, <2>3, <2>4, <2>5, <2>6 DEF GoogleFirstLogin
  <2>10. actor = None \/ actor \in Email  BY <1>1, <2>6, <2>8
  <2>11. auto \in BOOLEAN  BY <2>1, AutoProvisionIs DEF Provider
  <2>12. after.email \in Email  BY <1>1, <2>8
  <2>13. QED  BY <2>8, <2>9, <2>10, <2>11, <2>12, BeginCreate DEF Acting
<1>5. QED  BY <1>2, <1>3, <1>4

-----------------------------------------------------------------------------
(* Requests end.                                                             *)

\* The row a commit writes: the one of the request when it creates a user, and
\* the columns the request changed over the row that is there otherwise.
LEMMA CommitRow ==
  ASSUME AccessInv, NEW s \in Session, op[s] # None, NEW u \in User,
         IF op[s].user = None THEN users[u] = None ELSE u = op[s].user,
         NEW r, r = op[s], NEW row, row = Written(users[u], r.loaded, r.after)
  PROVE  /\ r \in PendingRequest /\ RequestInv(r) /\ row \in Row
         /\ \/ r.user = None /\ users[u] = None /\ row = r.after
            \/ /\ r.user = u /\ u \in Present /\ users[u] \in Row /\ r.loaded \in Row
               /\ row.made = users[u].made
               /\ row.email = IF r.after.email # r.loaded.email THEN r.after.email ELSE users[u].email
               /\ row.redacted = IF r.after.redacted # r.loaded.redacted THEN r.after.redacted ELSE users[u].redacted
<1>1. r \in PendingRequest /\ RequestInv(r)  BY DEF AccessInv, Shape
<1>2. r.after \in Row  BY <1>1 DEF PendingRequest
<1>3. CASE r.user = None
  <2>1. users[u] = None /\ row = r.after  BY <1>3 DEF Written
  <2>2. QED  BY <1>1, <1>2, <1>3, <2>1
<1>4. CASE r.user # None
  <2>1. r.user = u /\ u \in Present /\ r.loaded \in Row
    BY <1>1, <1>4 DEF RequestInv, Edits
  <2>2. users[u] \in Row  BY <2>1, PresentRow
  <2>3. /\ row \in Row
        /\ \A c \in Columns : row[c] = IF r.after[c] # r.loaded[c] THEN r.after[c] ELSE users[u][c]
    BY <1>2, <2>1, <2>2, WrittenIsRow
  <2>4. r.after.made = r.loaded.made
    BY <1>1, <1>4 DEF RequestInv, Edits
  <2>5. QED  BY <1>1, <2>1, <2>2, <2>3, <2>4 DEF Columns
<1>5. QED  BY <1>3, <1>4

\* What a request relies on survives every step that keeps the users and the
\* redactions there are.
LEMMA RequestStays ==
  ASSUME NEW q, RequestInv(q), Present \subseteq Present', Redacted \subseteq Redacted'
  PROVE  RequestInv(q)'
BY DEF RequestInv, Edits, Creates, Names, Sweeps

LEMMA CommitStep ==
  ASSUME AccessInv, NEW s \in Session, op[s] # None, NEW u \in User,
         IF op[s].user = None THEN users[u] = None ELSE u = op[s].user,
         Commit(s, u), op' = [op EXCEPT ![s] = None], UNCHANGED <<settings, mappings>>
  PROVE  AccessInv'
<1>1. PICK r : r = op[s]  OBVIOUS
<1>2. PICK row : row = Written(users[u], r.loaded, r.after)  OBVIOUS
<1>3. /\ users' = [users EXCEPT ![u] = row]
      /\ linked' = IF r.link = None THEN linked ELSE [linked EXCEPT ![r.link] = u]
      /\ actors' = actors \cup ({r.actor} \ {None}) \cup (IF r.swept = {} THEN {} ELSE {u})
  BY <1>1, <1>2 DEF Commit
<1>4. /\ r \in PendingRequest /\ RequestInv(r) /\ row \in Row
      /\ \/ r.user = None /\ users[u] = None /\ row = r.after
         \/ /\ r.user = u /\ u \in Present /\ users[u] \in Row /\ r.loaded \in Row
            /\ row.made = users[u].made
            /\ row.email = IF r.after.email # r.loaded.email THEN r.after.email ELSE users[u].email
            /\ row.redacted = IF r.after.redacted # r.loaded.redacted THEN r.after.redacted ELSE users[u].redacted
  BY <1>1, <1>2, CommitRow
<1>5. /\ users \in [User -> Row \cup {None}] /\ users' \in [User -> Row \cup {None}]
      /\ users'[u] = row /\ \A v \in User \ {u} : users'[v] = users[v]
  BY <1>3, <1>4 DEF AccessInv, Shape
<1>6. Present' = Present \cup {u} /\ Present \subseteq User
  BY <1>4, <1>5, RowAssumption DEF Present
<1>7. u # None  BY AddressAssumption
<1>8. \A v \in Present : users'[v].made = users[v].made
  <2> TAKE v \in Present
  <2>1. CASE v = u
    <3>1. users[u] # None  BY <2>1 DEF Present
    <3>2. QED  BY <1>4, <1>5, <2>1, <3>1
  <2>2. CASE v # u  BY <1>5, <1>6, <2>2
  <2>3. QED  BY <2>1, <2>2
<1>9. u \in Present => (users[u].redacted => row.redacted)
  <2> SUFFICES ASSUME u \in Present, users[u].redacted PROVE row.redacted  OBVIOUS
  <2>1. users[u] # None  BY DEF Present
  <2>2. /\ r.user = u /\ r.loaded \in Row /\ r.after \in Row /\ users[u] \in Row
        /\ row.redacted = IF r.after.redacted # r.loaded.redacted THEN r.after.redacted ELSE users[u].redacted
    BY <1>4, <2>1 DEF PendingRequest
  <2>3. r.loaded.redacted => r.after.redacted  BY <1>4, <1>7, <2>2 DEF RequestInv, Edits
  <2>4. /\ r.loaded.redacted \in BOOLEAN /\ r.after.redacted \in BOOLEAN
        /\ users[u].redacted \in BOOLEAN
    BY <2>2, RowIs
  <2>5. QED  BY <2>2, <2>3, <2>4
<1>10. Redacted \subseteq Redacted'
  BY <1>5, <1>6, <1>9 DEF Redacted
<1>11. r.link # None => r.user = None /\ r.link \in Subject /\ r.after.made = r.link
  BY <1>4 DEF RequestInv, Edits, Creates, PendingRequest
<1>12. Shape'
  <2>1. linked' \in [Subject -> User \cup {None}]
    BY <1>3, <1>11 DEF AccessInv, Shape
  <2>2. actors' \subseteq Email \cup User
    <3>1. r.actor \in Email \cup User \cup {None}  BY <1>4 DEF PendingRequest
    <3>2. QED  BY <1>3, <3>1 DEF AccessInv, Shape
  <2>3. op' \in [Session -> PendingRequest \cup {None}]  BY DEF AccessInv, Shape
  <2>4. QED  BY <1>5, <2>1, <2>2, <2>3 DEF AccessInv, Shape
<1>13. Pseudonyms'
  <2> SUFFICES ASSUME NEW v \in Present', users'[v].email \in User
               PROVE  users'[v].email = v /\ users'[v].redacted
    BY DEF Pseudonyms
  <2>1. CASE v # u
    BY <1>5, <1>6, <2>1 DEF AccessInv, Pseudonyms
  <2>2. CASE v = u /\ r.user = None
    BY <1>4, <1>5, <1>7, <2>2, AddressAssumption DEF RequestInv, Creates
  <2>3. CASE v = u /\ r.user # None
    <3>1. /\ r.user = u /\ u \in Present /\ r.loaded \in Row /\ r.after \in Row
          /\ row.email = IF r.after.email # r.loaded.email THEN r.after.email ELSE users[u].email
          /\ row.redacted = IF r.after.redacted # r.loaded.redacted THEN r.after.redacted ELSE users[u].redacted
      BY <1>4, <2>3 DEF PendingRequest
    <3>2. row.email \in User /\ users'[v] = row  BY <1>5, <2>3
    <3>3. CASE r.after.email = r.loaded.email
      <4>1. row.email = users[u].email  BY <3>1, <3>3
      <4>2. users[u].email = u /\ users[u].redacted
        BY <3>1, <3>2, <4>1 DEF AccessInv, Pseudonyms
      <4>3. QED  BY <1>9, <2>3, <3>1, <3>2, <4>1, <4>2
    <3>4. CASE r.after.email # r.loaded.email
      <4>1. row.email = r.after.email  BY <3>1, <3>4
      <4>2. r.after.email \notin Email  BY <3>2, <4>1, AddressAssumption
      <4>3. r.after.email = u /\ r.after.redacted /\ ~r.loaded.redacted
        BY <1>4, <1>7, <3>1, <3>4, <4>2 DEF RequestInv, Edits
      <4>4. row.redacted  BY <3>1, <4>3
      <4>5. QED  BY <2>3, <3>2, <4>1, <4>3, <4>4
    <3>5. QED  BY <3>3, <3>4
  <2>4. QED  BY <2>1, <2>2, <2>3
<1>14. IdentityOwnsUser'
  <2> SUFFICES ASSUME NEW x \in DOMAIN linked', linked'[x] # None
               PROVE  linked'[x] \in Present' /\ users'[linked'[x]].made = x
    BY DEF IdentityOwnsUser
  <2>1. CASE r.link # None /\ x = r.link
    <3>1. linked'[x] = u  BY <1>3, <1>11, <2>1 DEF AccessInv, Shape
    <3>2. row.made = x  BY <1>4, <1>7, <1>11, <2>1
    <3>3. QED  BY <1>5, <1>6, <3>1, <3>2
  <2>2. CASE r.link = None \/ x # r.link
    <3>1. x \in DOMAIN linked /\ linked'[x] = linked[x]
      BY <1>3, <2>2 DEF AccessInv, Shape
    <3>2. linked[x] \in Present /\ users[linked[x]].made = x
      BY <3>1 DEF AccessInv, IdentityOwnsUser
    <3>3. QED  BY <1>6, <1>8, <3>1, <3>2
  <2>3. QED  BY <2>1, <2>2
<1>15. PseudonymsResolve'
  <2> SUFFICES ASSUME NEW v \in actors', v \in User PROVE v \in Redacted'
    BY DEF PseudonymsResolve
  <2>1. CASE v \in actors  BY <1>10, <2>1 DEF AccessInv, PseudonymsResolve
  <2>2. CASE v = r.actor  BY <1>4, <1>10, <2>2 DEF RequestInv, Names
  <2>3. CASE v = u /\ r.swept # {}
    <3>1. r.user # None /\ r.after.redacted /\ ~r.loaded.redacted
      BY <1>4, <2>3 DEF RequestInv, Sweeps
    <3>2. row.redacted  BY <1>4, <3>1
    <3>3. QED  BY <1>5, <1>6, <2>3, <3>2 DEF Redacted
  <2>4. QED  BY <1>3, <2>1, <2>2, <2>3
<1>16. ASSUME NEW z \in Session, op'[z] # None PROVE RequestInv(op[z])'
  <2>1. z # s /\ op'[z] = op[z]  BY <1>16 DEF AccessInv, Shape
  <2>2. PICK q : q = op'[z]  OBVIOUS
  <2>3. RequestInv(q)  BY <1>16, <2>1, <2>2 DEF AccessInv
  <2>4. RequestInv(q)'  BY <1>6, <1>10, <2>3, RequestStays
  <2>5. QED  BY <2>2, <2>4
<1>17. QED  BY <1>12, <1>13, <1>14, <1>15, <1>16 DEF AccessInv

-----------------------------------------------------------------------------
(* Steps that leave the users alone.                                         *)

\* Such a step adds actors that resolve, and changes requests to ones that
\* hold what they rely on.
LEMMA UsersStay ==
  ASSUME AccessInv, UNCHANGED <<users, linked>>,
         settings' \in [Provider -> Settings \cup {None}], mappings' \in [Group -> RoleMapping],
         op' \in [Session -> PendingRequest \cup {None}],
         actors' \subseteq actors \cup Email \cup Redacted,
         \A z \in Session : op'[z] # None => RequestInv(op'[z])
  PROVE  AccessInv'
<1>1. Present' = Present /\ Redacted' = Redacted  BY DEF Present, Redacted
<1>2. Shape'
  <2>1. Redacted \subseteq User  BY DEF Redacted, Present
  <2>2. QED  BY <2>1 DEF AccessInv, Shape
<1>3. Pseudonyms' /\ IdentityOwnsUser'
  BY <1>1 DEF AccessInv, Pseudonyms, IdentityOwnsUser
<1>4. PseudonymsResolve'
  BY <1>1, AddressAssumption DEF AccessInv, PseudonymsResolve
<1>5. ASSUME NEW z \in Session, op'[z] # None PROVE RequestInv(op[z])'
  <2>1. PICK q : q = op'[z]  OBVIOUS
  <2>2. RequestInv(q)  BY <1>5, <2>1
  <2>3. RequestInv(q)'  BY <1>1, <2>2, RequestStays
  <2>4. QED  BY <2>1, <2>3
<1>6. QED  BY <1>2, <1>3, <1>4, <1>5 DEF AccessInv

\* The sweep holds back the mail address that the redaction loaded.
LEMMA SweepStep ==
  ASSUME AccessInv, NEW s \in Session, Sweep(s)
  PROVE  AccessInv'
<1>1. PICK r : r = op[s]  OBVIOUS
<1>2. PICK swept : swept = actors \cap {r.loaded.email}  OBVIOUS
<1>3. PICK q : q = [r EXCEPT !.due = FALSE, !.swept = swept]  OBVIOUS
<1>4. r \in PendingRequest /\ RequestInv(r) /\ r.due
  BY <1>1 DEF Sweep, AccessInv, Shape
<1>5. swept \subseteq Email /\ swept \in SUBSET (Email \cup User)
  BY <1>2, <1>4 DEF RequestInv, Sweeps
<1>6. q \in PendingRequest  BY <1>3, <1>4, <1>5 DEF PendingRequest
<1>7. /\ q.user = r.user /\ q.loaded = r.loaded /\ q.after = r.after /\ q.link = r.link
      /\ q.actor = r.actor /\ q.swept = swept
  BY <1>3, <1>4 DEF PendingRequest
<1>8. RequestInv(q)
  <2>1. Edits(q) /\ Creates(q) /\ Names(q)
    BY <1>4, <1>7 DEF RequestInv, Edits, Creates, Names
  <2>2. Sweeps(q)  BY <1>4, <1>5, <1>7 DEF RequestInv, Sweeps
  <2>3. QED  BY <2>1, <2>2 DEF RequestInv
<1>9. op' = [op EXCEPT ![s] = q]
  <2>1. op' = [op EXCEPT ![s].due = FALSE, ![s].swept = swept]
    BY <1>1, <1>2 DEF Sweep
  <2>2. QED  BY <1>1, <1>3, <1>4, <2>1 DEF AccessInv, Shape, PendingRequest
<1>10. op' \in [Session -> PendingRequest \cup {None}]  BY <1>6, <1>9 DEF AccessInv, Shape
<1>11. ASSUME NEW z \in Session, op'[z] # None PROVE RequestInv(op'[z])
  <2>1. CASE z = s
    <3>1. op'[z] = q  BY <1>9, <2>1 DEF AccessInv, Shape
    <3>2. QED  BY <1>8, <3>1
  <2>2. CASE z # s
    <3>1. op'[z] = op[z]  BY <1>9, <2>2 DEF AccessInv, Shape
    <3>2. QED  BY <1>11, <3>1 DEF AccessInv
  <2>3. QED  BY <2>1, <2>2
<1>12. /\ UNCHANGED <<users, linked, settings, mappings>> /\ actors' \subseteq actors
  BY DEF Sweep
<1>13. settings \in [Provider -> Settings \cup {None}] /\ mappings \in [Group -> RoleMapping]
  BY DEF AccessInv, Shape
<1>14. QED  BY <1>10, <1>11, <1>12, <1>13, UsersStay

\* A rollback brings the swept address back, and that is mail.
LEMMA RollbackStep ==
  ASSUME AccessInv, NEW s \in Session, NEW u, op[s] # None, Rollback(s, u),
         op' = [op EXCEPT ![s] = None], UNCHANGED <<settings, mappings>>
  PROVE  AccessInv'
<1>1. UNCHANGED <<users, linked>> /\ actors' = actors \cup op[s].swept  BY DEF Rollback
<1>2. op[s].swept \subseteq Email  BY DEF AccessInv, RequestInv, Sweeps
<1>3. op' \in [Session -> PendingRequest \cup {None}]  BY DEF AccessInv, Shape
<1>4. ASSUME NEW z \in Session, op'[z] # None PROVE RequestInv(op'[z])
  <2>1. op'[z] = op[z]  BY <1>4 DEF AccessInv, Shape
  <2>2. QED  BY <1>4, <2>1 DEF AccessInv
<1>5. settings \in [Provider -> Settings \cup {None}] /\ mappings \in [Group -> RoleMapping]
  BY DEF AccessInv, Shape
<1>6. QED  BY <1>1, <1>2, <1>3, <1>4, <1>5, UsersStay

\* A page records an address that somebody has.
LEMMA PageStep ==
  ASSUME AccessInv, UNCHANGED <<users, linked, op>>,
         settings' \in [Provider -> Settings \cup {None}], mappings' \in [Group -> RoleMapping],
         actors' \subseteq actors \cup {users[x].email : x \in Present}
  PROVE  AccessInv'
<1>1. \A x \in Present : users[x].email \in Email \cup Redacted
  BY OwnedAddress, PresentRow
<1>2. actors' \subseteq actors \cup Email \cup Redacted  BY <1>1
<1>3. op' \in [Session -> PendingRequest \cup {None}]  BY DEF AccessInv, Shape
<1>4. \A z \in Session : op'[z] # None => RequestInv(op'[z])  BY DEF AccessInv
<1>5. QED  BY <1>2, <1>3, <1>4, UsersStay

LEMMA PageRecords ==
  ASSUME NEW a, Page(a)
  PROVE  /\ UNCHANGED <<linked, sessions, op>>
         /\ actors' \subseteq actors \cup {users[x].email : x \in Present}
BY DEF Page, RequireAdmin, RequireLogin

-----------------------------------------------------------------------------
(* The invariant.                                                            *)

LEMMA AccessInit == Init => AccessInv
<1> SUFFICES ASSUME Init PROVE AccessInv  OBVIOUS
<1>1. Shape  BY DEF Init, Shape, Subject, RoleMapping
<1>2. Present = {} /\ Redacted = {}  BY DEF Init, Present, Redacted
<1>3. actors = {} /\ \A s \in Session : op[s] = None  BY DEF Init
<1>4. IdentityOwnsUser  BY DEF Init, IdentityOwnsUser
<1>5. QED  BY <1>1, <1>2, <1>3, <1>4 DEF AccessInv, Pseudonyms, PseudonymsResolve

LEMMA SavedSettingsIs ==
  ASSUME AccessInv, NEW f \in Form
  PROVE  f.provider \in Provider /\ SavedSettings(f) \in Settings
<1>1. /\ f.provider \in Provider /\ f.enabled \in BOOLEAN /\ f.auto \in BOOLEAN
      /\ f.secret \in BOOLEAN
  BY FormAssumption
<1>2. PICK secret \in BOOLEAN :
        secret = (f.secret \/ (settings[f.provider] # None /\ settings[f.provider].secret))
  OBVIOUS
<1>3. SavedSettings(f) = [enabled |-> f.enabled, auto |-> f.auto, secret |-> secret]
  BY <1>2 DEF SavedSettings
<1>4. QED  BY <1>1, <1>3 DEF Settings

LEMMA AccessNext ==
  ASSUME AccessInv, [Next]_vars
  PROVE  AccessInv'
<1>1. ASSUME NEW s \in Session,
             \/ \E e \in Email : CliCreateUser(s, e) \/ \E a \in User : CreateUser(s, a, e)
             \/ \E u \in User : PromoteAdmin(s, u) \/ LoginSubmit(s, u) \/ Act(s, u)
             \/ \E a, u \in User, role \in EditRole, status \in {"active", "disabled"} :
                  UpdateUser(s, a, u, role, status)
      PROVE  AccessInv'
  BY <1>1, BeginAdministration
<1>2. ASSUME NEW s \in Session, NEW c \in OidcAccount, OidcReturn(s, c) \/ OidcFirstLogin(s, c)
      PROVE  AccessInv'
  BY <1>2, BeginOidc
<1>3. ASSUME NEW s \in Session, NEW c \in GoogleAccount,
             GoogleReturn(s, c) \/ GoogleLink(s, c) \/ GoogleFirstLogin(s, c)
      PROVE  AccessInv'
  BY <1>3, BeginGoogle
<1>4. ASSUME NEW s \in Session, Finish(s) PROVE AccessInv'
  <2>1. PICK u \in User : /\ IF op[s].user = None THEN users[u] = None ELSE u = op[s].user
                          /\ Commit(s, u) \/ Rollback(s, u)
    BY <1>4 DEF Finish
  <2>2. op[s] # None /\ op' = [op EXCEPT ![s] = None] /\ UNCHANGED <<settings, mappings>>
    BY <1>4 DEF Finish
  <2>3. CASE Commit(s, u)  BY <2>1, <2>2, <2>3, CommitStep
  <2>4. CASE Rollback(s, u)  BY <2>2, <2>4, RollbackStep
  <2>5. QED  BY <2>1, <2>3, <2>4
<1> DEFINE Typed == /\ settings \in [Provider -> Settings \cup {None}]
                    /\ mappings \in [Group -> RoleMapping]
<1>5. Typed  BY DEF AccessInv, Shape
<1>6. ASSUME NEW u \in User, Logout(u) PROVE AccessInv'
  <2>1. actors' \subseteq actors \cup {users[x].email : x \in Present}
    BY <1>6 DEF Logout, RequireLogin
  <2>2. QED  BY <1>5, <1>6, <2>1, PageStep DEF Logout
<1>7. ASSUME NEW u \in User, Expire(u) PROVE AccessInv'
  BY <1>5, <1>7, PageStep DEF Expire
<1>8. ASSUME NEW a \in User, NEW f \in Form, UpdateGoogleSettings(a, f) \/ UpdateOidcSettings(a, f)
      PROVE  AccessInv'
  <2>1. PICK p \in Provider : settings' = [settings EXCEPT ![p] = SavedSettings(f)]
    BY <1>8 DEF UpdateGoogleSettings, UpdateOidcSettings, Provider
  <2>2. Typed'
    BY <1>5, <1>8, <2>1, SavedSettingsIs DEF UpdateGoogleSettings, UpdateOidcSettings
  <2>3. Page(a) /\ UNCHANGED users
    BY <1>8 DEF UpdateGoogleSettings, UpdateOidcSettings
  <2>4. QED  BY <2>2, <2>3, PageRecords, PageStep
<1>9. ASSUME NEW a \in User, NEW t \in Token, TokenPage(a, t) PROVE AccessInv'
  <2>1. Page(a) /\ UNCHANGED <<users, settings, mappings>>  BY <1>9 DEF TokenPage
  <2>2. QED  BY <1>5, <2>1, PageRecords, PageStep
<1>10. ASSUME NEW a \in User, NEW g \in Group,
              DeleteRoleMapping(a, g) \/ \E role \in EditRole : CreateRoleMapping(a, g, role)
       PROVE  AccessInv'
  <2>1. PICK m \in RoleMapping : mappings' = [mappings EXCEPT ![g] = m]
    <3>1. CASE DeleteRoleMapping(a, g)  BY <3>1 DEF DeleteRoleMapping, RoleMapping
    <3>2. CASE \E role \in EditRole : CreateRoleMapping(a, g, role)
      BY <3>2, RoleAssumption DEF CreateRoleMapping, RoleMapping, Role
    <3>3. QED  BY <1>10, <3>1, <3>2
  <2>2. Page(a) /\ UNCHANGED <<users, settings>>
    BY <1>10 DEF DeleteRoleMapping, CreateRoleMapping
  <2>3. Typed'  BY <1>5, <2>1, <2>2
  <2>4. QED  BY <2>2, <2>3, PageRecords, PageStep
<1>11. ASSUME NEW s \in Session, (\E a, u \in User : RedactUserPii(s, a, u)) \/ Sweep(s)
       PROVE  AccessInv'
  BY <1>11, BeginRedaction, SweepStep
<1>12. ASSUME NEW t \in Token, VerifyToken(t) PROVE AccessInv'
  BY <1>5, <1>12, PageStep DEF VerifyToken
<1>13. CASE UNCHANGED vars
  BY <1>5, <1>13, PageStep DEF vars
<1>14. QED
  BY <1>1, <1>2, <1>3, <1>4, <1>6, <1>7, <1>8, <1>9, <1>10, <1>11, <1>12, <1>13 DEF Next

\* The invariant of sign-ins, administration and redaction: rows, links,
\* addresses and the requests in flight.
THEOREM AccessInvariant == Spec => []AccessInv
BY AccessInit, AccessNext, PTL DEF Spec

\* The OIDC sign-in (app/routers/oidc.py): a subject belongs to the user its own
\* first sign-in created, whatever accounts and requests race.
THEOREM IdentityTheorem == Spec => []IdentityOwnsUser
<1>1. AccessInv => IdentityOwnsUser  BY DEF AccessInv
<1>2. QED  BY <1>1, AccessInvariant, PTL

\* redact_user_pii: a pseudonym among the actors is the id of a redacted user,
\* whatever commits between the load, the sweep and the commit.
THEOREM PseudonymsResolveTheorem == Spec => []PseudonymsResolve
<1>1. AccessInv => PseudonymsResolve  BY DEF AccessInv
<1>2. QED  BY <1>1, AccessInvariant, PTL

-----------------------------------------------------------------------------
(* What a step may never do.                                                 *)

\* A verification in flight is of a token that is there.
TokensInv ==
  /\ tokens \in [Token -> TokenRow \cup {None}]
  /\ verifying \in [Token -> TokenRow \cup {None}]
  /\ \A t \in Token : verifying[t] # None => tokens[t] \in TokenRow

RevokedStays ==
  \A t \in Token : tokens[t] # None /\ tokens[t].revoked =>
    tokens'[t].revoked /\ verifying'[t] \in {None, verifying[t]}

LEMMA TokensStep ==
  ASSUME TokensInv, [Next]_vars
  PROVE  TokensInv' /\ RevokedStays
<1>1. ASSUME NEW a \in User, NEW t \in Token, CreateApiToken(a, t) PROVE TokensInv' /\ RevokedStays
  BY <1>1 DEF CreateApiToken, TokensInv, RevokedStays, TokenRow
<1>2. ASSUME NEW t \in Token, NEW new \in TokenRow,
             tokens[t] \in TokenRow, tokens[t].revoked => new.revoked,
             tokens' = [tokens EXCEPT ![t] = new],
             UNCHANGED verifying \/ verifying' = [verifying EXCEPT ![t] = None]
      PROVE  TokensInv' /\ RevokedStays
  <2>1. TokensInv'  BY <1>2 DEF TokensInv
  <2>2. RevokedStays
    <3> SUFFICES ASSUME NEW x \in Token, tokens[x] # None, tokens[x].revoked
                 PROVE  tokens'[x].revoked /\ verifying'[x] \in {None, verifying[x]}
      BY DEF RevokedStays
    <3>1. CASE x = t  BY <1>2, <3>1 DEF TokensInv
    <3>2. CASE x # t  BY <1>2, <3>2 DEF TokensInv
    <3>3. QED  BY <3>1, <3>2
  <2>3. QED  BY <2>1, <2>2
<1>3. ASSUME NEW t \in Token, RevokeApiToken(t) PROVE TokensInv' /\ RevokedStays
  <2>1. tokens[t] \in TokenRow  BY <1>3 DEF RevokeApiToken, TokensInv
  <2>2. PICK new : new = [tokens[t] EXCEPT !.revoked = TRUE]  OBVIOUS
  <2>3. new \in TokenRow /\ new.revoked  BY <2>1, <2>2 DEF TokenRow
  <2>4. tokens' = [tokens EXCEPT ![t] = new] /\ UNCHANGED verifying
    BY <1>3, <2>2 DEF RevokeApiToken, TokensInv
  <2>5. QED  BY <1>2, <2>1, <2>3, <2>4
<1>4. ASSUME NEW t \in Token, VerifyApiToken(t) PROVE TokensInv' /\ RevokedStays
  BY <1>4 DEF VerifyApiToken, TokensInv, RevokedStays
<1>5. ASSUME NEW t \in Token, VerifyTokenEnds(t) PROVE TokensInv' /\ RevokedStays
  <2>1. tokens[t] \in TokenRow  BY <1>5 DEF VerifyTokenEnds, TokensInv
  <2>2. PICK new : new = [tokens[t] EXCEPT !.used = TRUE]  OBVIOUS
  <2>3. new \in TokenRow /\ new.revoked = tokens[t].revoked  BY <2>1, <2>2 DEF TokenRow
  <2>4. /\ tokens' = [tokens EXCEPT ![t] = new]
        /\ verifying' = [verifying EXCEPT ![t] = None]
    BY <1>5, <2>2 DEF VerifyTokenEnds, TokensInv
  <2>5. QED  BY <1>2, <2>1, <2>3, <2>4
<1>6. ASSUME UNCHANGED tokenVars PROVE TokensInv' /\ RevokedStays
  BY <1>6 DEF tokenVars, TokensInv, RevokedStays
<1>7. ASSUME NEW s \in Session,
             \/ \E e \in Email : CliCreateUser(s, e) \/ \E a \in User : CreateUser(s, a, e)
             \/ \E u \in User : PromoteAdmin(s, u) \/ LoginSubmit(s, u) \/ Act(s, u)
             \/ \E a, u \in User, role \in EditRole, status \in {"active", "disabled"} :
                  UpdateUser(s, a, u, role, status)
             \/ \E c \in OidcAccount : OidcReturn(s, c) \/ OidcFirstLogin(s, c)
             \/ \E c \in GoogleAccount : GoogleReturn(s, c) \/ GoogleLink(s, c) \/ GoogleFirstLogin(s, c)
             \/ \E a, u \in User : RedactUserPii(s, a, u)
             \/ Sweep(s) \/ Finish(s)
      PROVE  UNCHANGED tokenVars
  BY <1>7 DEF CliCreateUser, CreateUser, PromoteAdmin, LoginSubmit, Act, UpdateUser,
     OidcReturn, OidcFirstLogin, GoogleReturn, GoogleLink, GoogleFirstLogin, RedactUserPii, Begin, Sweep, Finish
<1>8. ASSUME NEW a \in User,
             \/ \E f \in Form : UpdateGoogleSettings(a, f) \/ UpdateOidcSettings(a, f)
             \/ \E g \in Group : DeleteRoleMapping(a, g) \/ \E role \in EditRole : CreateRoleMapping(a, g, role)
      PROVE  UNCHANGED tokenVars
  BY <1>8 DEF UpdateGoogleSettings, UpdateOidcSettings, DeleteRoleMapping, CreateRoleMapping
<1>9. ASSUME NEW u \in User, Logout(u) \/ Expire(u) PROVE UNCHANGED tokenVars
  BY <1>9 DEF Logout, Expire
<1>10. ASSUME NEW a \in User, NEW t \in Token, TokenPage(a, t) PROVE TokensInv' /\ RevokedStays
  BY <1>1, <1>3, <1>10 DEF TokenPage
<1>11. ASSUME NEW t \in Token, VerifyToken(t) PROVE TokensInv' /\ RevokedStays
  BY <1>4, <1>5, <1>11 DEF VerifyToken
<1>12. CASE UNCHANGED vars  BY <1>6, <1>12 DEF vars
<1>13. QED
  BY <1>6, <1>7, <1>8, <1>9, <1>10, <1>11, <1>12 DEF Next

\* verify_api_token and the pages that revoke (app/api_tokens.py): a revoked
\* token stays revoked, and no verification of it begins.
THEOREM RevocationTheorem == Spec => RevocationIsFinal
<1>1. Init => TokensInv  BY DEF Init, TokensInit, TokensInv
<1>2. TokensInv /\ [Next]_vars => TokensInv'  BY TokensStep
<1>3. TokensInv /\ [Next]_vars => [RevokedStays]_<<tokens, verifying>>  BY TokensStep
<1>4. QED  BY <1>1, <1>2, <1>3, PTL DEF Spec, RevocationIsFinal, RevokedStays
===============================================================================
