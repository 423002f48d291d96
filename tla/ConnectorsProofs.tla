--------------------------- MODULE ConnectorsProofs ---------------------------
(***************************************************************************)
(* For any registry, connectors, operators, keys, people and directories:  *)
(* the ledger of runs and the facts agree, an instance only ever runs what *)
(* was shown to somebody, and a redacted person stays redacted.            *)
(*                                                                         *)
(* An operation works on what it loaded while others commit.  Each of the  *)
(* three invariants says what of it still holds when the operation         *)
(* commits: which instance it is about (LedgerInv), what its write was     *)
(* reviewed against (ReviewInv), which columns of which people it will     *)
(* change (RegisterInv).                                                   *)
(***************************************************************************)
EXTENDS Connectors, TLAPS

\* What the rows, the ledger and the audit trail are made of.
Shape ==
  /\ instances \in [Instance -> Row \cup {None}]
  /\ executions \in [Instance \X Key -> Status]
  /\ facts \in [Instance \X Key -> Nat]
  /\ shown \in [Instance -> SUBSET Capability]
  /\ plans \in [Session -> [instance: Instance, from: Nat, to: Nat, capabilities: SUBSET Capability,
                            new: SUBSET Capability] \cup {None}]
  /\ stored \in 0 .. MaxSecrets
  /\ DOMAIN op = Session
  /\ registry = None \/ registry \subseteq Manifest

\* What an operation has loaded can still be found.
Target(o) ==
  /\ o.kind \in {"write", "remove", "run"} => o.instance \in Instance
  /\ o.kind = "run" => o.key \in Key
  /\ o.kind = "write" => o.loaded \in Row /\ o.after \in Row /\ o.new \subseteq Capability

\* An id that was used once stays used: the audit trail has shown capabilities.
UsedOnce ==
  \A i \in Instance : /\ instances[i] # None => shown[i] # {}
                      /\ shown[i] = {} => \A k \in Key : facts[<<i, k>>] = 0

LedgerInv ==
  /\ Shape
  /\ \A s \in Session : op[s] # None => Target(op[s])
  /\ UsedOnce
  /\ FactsMatchLedger

-----------------------------------------------------------------------------
\* The registry names a manifest of connector c and version v, and what it can
\* do was shown.
Named(c, v, caps) ==
  /\ registry # None
  /\ \E e \in registry : e.connector = c /\ e.version = v /\ e.capabilities \subseteq caps

OneManifestPerVersion ==
  registry # None => \A e, f \in registry : e.connector = f.connector /\ e.version = f.version => e = f

\* An instance runs what was shown.
InstanceShown(i) ==
  instances[i] # None =>
    /\ instances[i].manifest.capabilities \subseteq shown[i]
    /\ Named(instances[i].connector, instances[i].version, shown[i])

\* A plan compares two manifests of the instance's connector.
PlanReviewed(p) ==
  /\ shown[p.instance] # {}
  /\ registry # None
  /\ \E e, f \in registry :
       /\ e.connector = f.connector /\ e.version = p.from /\ f.version = p.to
       /\ p.capabilities = f.capabilities /\ p.new = f.capabilities \ e.capabilities
       /\ instances[p.instance] # None => instances[p.instance].connector = f.connector

\* What a pending write will leave was shown, by then.
WriteReviewed(o) ==
  o.kind = "write" =>
    /\ shown[o.instance] # {}
    /\ instances[o.instance] # None => instances[o.instance].connector = o.loaded.connector
    /\ o.after.connector = o.loaded.connector
    /\ o.after.manifest.capabilities \subseteq shown[o.instance] \cup o.new
    /\ Named(o.after.connector, o.after.version, shown[o.instance] \cup o.new)
    /\ o.after.version < o.loaded.version => o.allowed = TRUE

ReviewInv ==
  /\ OneManifestPerVersion
  /\ \A i \in Instance : InstanceShown(i)
  /\ \A s \in Session : plans[s] # None => PlanReviewed(plans[s])
  /\ \A s \in Session : op[s] # None => WriteReviewed(op[s])

-----------------------------------------------------------------------------
\* The address of a person is a mail address until the redaction and the
\* person's own pseudonym after it; no two people share one.
Addresses ==
  /\ \A p \in Known : IF people[p].redacted THEN people[p].email = p ELSE people[p].email \in Address
  /\ \A p, q \in Known : people[p].email = people[q].email => p = q

Inserts(w) == w.id = None /\ w.after \in PersonRow /\ w.after.email \in Address /\ w.after.redacted = FALSE

\* The row of a person becomes new: still the same person, or redacted.
SamePerson(p, row, new) ==
  /\ new \in PersonRow
  /\ \/ new.email = row.email /\ new.redacted = row.redacted
     \/ new.email = p /\ new.redacted = TRUE /\ row.email # p /\ row.redacted = FALSE

\* An update changes the address only to redact the person.
Updates(w) == w.id \in Known /\ w.loaded \in PersonRow /\ SamePerson(w.id, w.loaded, w.after)

Composed(writes) ==
  /\ \A w \in writes : Inserts(w) \/ Updates(w)
  /\ \A v, w \in writes : v.id = None /\ w.id = None /\ v.after.email = w.after.email => v = w

RegisterInv ==
  /\ PeopleTypeOK
  /\ DOMAIN op = Session
  /\ Addresses
  /\ \A s \in Session : op[s] # None /\ op[s].kind \in {"run", "people"} =>
                          "writes" \in DOMAIN op[s] /\ Composed(op[s].writes)

-----------------------------------------------------------------------------
(* Rows of connector_instances.                                              *)

Columns == {"connector", "version", "enabled", "test", "secrets", "manifest"}

LEMMA RowIs ==
  ASSUME NEW x \in Row
  PROVE  /\ DOMAIN x = Columns
         /\ x.connector \in {m.connector : m \in Manifest} /\ x.version \in {m.version : m \in Manifest}
         /\ x.enabled \in BOOLEAN /\ x.test \in {"none", "success", "failure"}
         /\ x.secrets \in [Field -> 0 .. MaxSecrets] /\ x.manifest \in Manifest
BY DEF Row, Columns

LEMMA IsRow ==
  ASSUME NEW x, x = [c \in Columns |-> x[c]],
         x["connector"] \in {m.connector : m \in Manifest}, x["version"] \in {m.version : m \in Manifest},
         x["enabled"] \in BOOLEAN, x["test"] \in {"none", "success", "failure"},
         x["secrets"] \in [Field -> 0 .. MaxSecrets], x["manifest"] \in Manifest
  PROVE  x \in Row
BY DEF Row, Columns

\* The UPDATE writes the columns the operation changed and keeps the others.
LEMMA WrittenRow ==
  ASSUME NEW row \in Row, NEW loaded \in Row, NEW after \in Row
  PROVE  /\ Written(row, loaded, after) \in Row
         /\ \A c \in Columns : Written(row, loaded, after)[c] = IF after[c] # loaded[c] THEN after[c] ELSE row[c]
<1> DEFINE x == Written(row, loaded, after)
<1>1. x = [c \in Columns |-> IF after[c] # loaded[c] THEN after[c] ELSE row[c]]
  BY RowIs DEF Written
<1>2. \A c \in Columns : x[c] = IF after[c] # loaded[c] THEN after[c] ELSE row[c]
  BY <1>1
<1>3. x = [c \in Columns |-> x[c]]
  BY <1>1
<1>4. /\ x["connector"] \in {m.connector : m \in Manifest} /\ x["version"] \in {m.version : m \in Manifest}
      /\ x["enabled"] \in BOOLEAN /\ x["test"] \in {"none", "success", "failure"}
      /\ x["secrets"] \in [Field -> 0 .. MaxSecrets] /\ x["manifest"] \in Manifest
  BY <1>2, RowIs DEF Columns
<1> HIDE DEF x
<1>5. x \in Row
  BY <1>3, <1>4, IsRow
<1> QED
  BY <1>2, <1>5 DEF x

-----------------------------------------------------------------------------
(* The ledger of runs and the facts.                                         *)

LEMMA LedgerInit == ConnectorsInit => LedgerInv
<1> SUFFICES ASSUME ConnectorsInit PROVE LedgerInv
  OBVIOUS
<1>1. Shape
  BY BoundAssumption DEF ConnectorsInit, Shape, Status
<1>2. UsedOnce /\ FactsMatchLedger
  BY DEF ConnectorsInit, UsedOnce, FactsMatchLedger
<1> QED
  BY <1>1, <1>2 DEF ConnectorsInit, LedgerInv

\* A step that only loads an operation.
LEMMA LedgerLoaded ==
  ASSUME LedgerInv, NEW s \in Session, NEW r, op' = [op EXCEPT ![s] = r], Target(r),
         UNCHANGED <<registry, instances, executions, facts, shown>>,
         plans' = plans \/ plans' = [plans EXCEPT ![s] = None], stored' \in 0 .. MaxSecrets
  PROVE  LedgerInv'
<1>1. Shape'
  <2>1. plans' \in [Session -> [instance: Instance, from: Nat, to: Nat, capabilities: SUBSET Capability,
                            new: SUBSET Capability] \cup {None}]
    BY DEF LedgerInv, Shape
  <2> QED
    BY <2>1 DEF LedgerInv, Shape
<1>2. ASSUME NEW z \in Session, op'[z] # None PROVE Target(op[z])'
  <2>1. CASE z = s
    BY <2>1 DEF LedgerInv, Shape, Target
  <2>2. CASE z # s
    BY <1>2, <2>2 DEF LedgerInv, Shape, Target
  <2> QED
    BY <2>1, <2>2
<1>3. (UsedOnce /\ FactsMatchLedger)'
  BY DEF LedgerInv, UsedOnce, FactsMatchLedger
<1> QED
  BY <1>1, <1>2, <1>3 DEF LedgerInv

\* The end of an operation, whatever it writes.
LEMMA LedgerEnded ==
  ASSUME LedgerInv, NEW s \in Session, op' = [op EXCEPT ![s] = None]
  PROVE  DOMAIN op' = Session /\ \A z \in Session : op'[z] # None => Target(op[z])'
BY DEF LedgerInv, Shape, Target

\* Only a run of an instance that is there, under a key without execution,
\* adds a fact, together with its execution.
LEMMA LedgerRunEnds ==
  ASSUME LedgerInv, NEW s \in Session, op[s] # None, NEW outcome \in {"success", "failure", "error"},
         RunEnds(s, outcome), op' = [op EXCEPT ![s] = None]
  PROVE  LedgerInv'
<1>1. PICK i \in Instance, k \in Key : i = op[s].instance /\ k = op[s].key
  BY DEF LedgerInv, Target, RunEnds
<1>2. UNCHANGED <<registry, instances, shown, plans, stored>>
  BY DEF RunEnds
<1>3. DOMAIN op' = Session /\ \A z \in Session : op'[z] # None => Target(op[z])'
  BY LedgerEnded
<1>4. CASE UNCHANGED <<executions, facts>>
  BY <1>2, <1>3, <1>4 DEF LedgerInv, Shape, UsedOnce, FactsMatchLedger
<1>5. ASSUME Accepted(i, k), executions' = [executions EXCEPT ![<<i, k>>] = outcome],
             facts' = IF outcome = "success" THEN [facts EXCEPT ![<<i, k>>] = @ + 1] ELSE facts
      PROVE  LedgerInv'
  <2>1. executions[<<i, k>>] = "none" /\ instances[i] # None
    BY <1>5 DEF Accepted
  <2>2. facts[<<i, k>>] = 0
    BY <2>1 DEF LedgerInv, FactsMatchLedger
  <2>3. PICK n \in {0, 1} : n = IF outcome = "success" THEN 1 ELSE 0
    OBVIOUS
  <2>4. facts' = [facts EXCEPT ![<<i, k>>] = n]
    <3>1. <<i, k>> \in Instance \X Key /\ facts \in [Instance \X Key -> Nat]
      BY DEF LedgerInv, Shape
    <3>2. PICK e \in Instance \X Key : e = <<i, k>>
      BY <3>1
    <3>3. CASE outcome = "success"
      BY <1>5, <2>2, <2>3, <3>1, <3>2, <3>3
    <3>4. CASE outcome # "success"
      BY <1>5, <2>2, <2>3, <3>1, <3>2, <3>4
    <3> QED
      BY <3>3, <3>4
  <2>5. Shape'
    BY <1>2, <1>3, <1>5, <2>4 DEF LedgerInv, Shape, Status
  <2>6. UsedOnce'
    BY <1>2, <2>1, <2>4 DEF LedgerInv, Shape, UsedOnce
  <2>7. FactsMatchLedger'
    <3> SUFFICES ASSUME NEW j \in Instance, NEW l \in Key
                 PROVE  IF instances[j] = None THEN executions'[<<j, l>>] = "none" /\ facts'[<<j, l>>] <= 1
                        ELSE facts'[<<j, l>>] = IF executions'[<<j, l>>] = "success" THEN 1 ELSE 0
      BY <1>2 DEF FactsMatchLedger
    <3>1. CASE <<j, l>> = <<i, k>>
      BY <1>5, <2>1, <2>3, <2>4, <3>1 DEF LedgerInv, Shape
    <3>2. CASE <<j, l>> # <<i, k>>
      BY <1>5, <2>4, <3>2 DEF LedgerInv, Shape, FactsMatchLedger
    <3> QED
      BY <3>1, <3>2
  <2> QED
    BY <1>3, <2>5, <2>6, <2>7 DEF LedgerInv
<1> QED
  BY <1>1, <1>4, <1>5 DEF RunEnds

\* A write keeps the row, and the trail only grows.
LEMMA LedgerWriteEnds ==
  ASSUME LedgerInv, NEW s \in Session, op[s] # None, WriteEnds(s), op' = [op EXCEPT ![s] = None]
  PROVE  LedgerInv'
<1>1. PICK i \in Instance : i = op[s].instance
  BY DEF LedgerInv, Target, WriteEnds
<1>2. op[s].loaded \in Row /\ op[s].after \in Row /\ op[s].new \subseteq Capability
  BY DEF LedgerInv, Target, WriteEnds
<1>3. UNCHANGED <<registry, executions, facts, plans, stored>>
  BY DEF WriteEnds
<1>4. DOMAIN op' = Session /\ \A z \in Session : op'[z] # None => Target(op[z])'
  BY LedgerEnded
<1>5. CASE UNCHANGED <<instances, shown>>
  BY <1>3, <1>4, <1>5 DEF LedgerInv, Shape, UsedOnce, FactsMatchLedger
<1>6. ASSUME instances[i] # None,
             instances' = [instances EXCEPT ![i] = Written(@, op[s].loaded, op[s].after)],
             shown' = [shown EXCEPT ![i] = @ \cup op[s].new]
      PROVE  LedgerInv'
  <2>1. instances[i] \in Row
    BY <1>6 DEF LedgerInv, Shape
  <2>2. PICK row \in Row : row = Written(instances[i], op[s].loaded, op[s].after)
    BY <1>2, <2>1, WrittenRow
  <2>3. row # None
    BY <2>2, InstanceAssumption
  <2>4. instances' = [instances EXCEPT ![i] = row]
    BY <1>6, <2>2
  <2>5. PICK new : new = shown[i] \cup op[s].new
    OBVIOUS
  <2>6. new \in SUBSET Capability /\ (shown[i] # {} => new # {})
    BY <1>2, <2>5 DEF LedgerInv, Shape
  <2>7. shown' = [shown EXCEPT ![i] = new]
    BY <1>6, <2>5
  <2>8. Shape'
    BY <1>3, <1>4, <2>4, <2>6, <2>7 DEF LedgerInv, Shape
  <2>9. \A j \in Instance : instances'[j] = None <=> instances[j] = None
    BY <1>6, <2>3, <2>4 DEF LedgerInv, Shape
  <2>10. UsedOnce'
    BY <1>3, <2>6, <2>7, <2>9 DEF LedgerInv, Shape, UsedOnce
  <2>11. FactsMatchLedger'
    BY <1>3, <2>9 DEF LedgerInv, FactsMatchLedger
  <2> QED
    BY <1>4, <2>8, <2>10, <2>11 DEF LedgerInv
<1> QED
  BY <1>1, <1>5, <1>6 DEF WriteEnds

\* A removal takes the ledger of the instance with it; the facts stay.
LEMMA LedgerRemoveEnds ==
  ASSUME LedgerInv, NEW s \in Session, op[s] # None, RemoveEnds(s), op' = [op EXCEPT ![s] = None]
  PROVE  LedgerInv'
<1>1. PICK i \in Instance : i = op[s].instance
  BY DEF LedgerInv, Target, RemoveEnds
<1>2. UNCHANGED <<registry, facts, shown, plans, stored>>
  BY DEF RemoveEnds
<1>3. DOMAIN op' = Session /\ \A z \in Session : op'[z] # None => Target(op[z])'
  BY LedgerEnded
<1>4. CASE UNCHANGED <<instances, executions>>
  BY <1>2, <1>3, <1>4 DEF LedgerInv, Shape, UsedOnce, FactsMatchLedger
<1>5. ASSUME instances' = [instances EXCEPT ![i] = None],
             executions' = [e \in Instance \X Key |-> IF e[1] = i THEN "none" ELSE executions[e]]
      PROVE  LedgerInv'
  <2>1. Shape'
    BY <1>2, <1>3, <1>5 DEF LedgerInv, Shape, Status
  <2>2. UsedOnce'
    BY <1>2, <1>5 DEF LedgerInv, Shape, UsedOnce
  <2>3. FactsMatchLedger'
    <3> SUFFICES ASSUME NEW j \in Instance, NEW l \in Key
                 PROVE  IF instances'[j] = None THEN executions'[<<j, l>>] = "none" /\ facts[<<j, l>>] <= 1
                        ELSE facts[<<j, l>>] = IF executions'[<<j, l>>] = "success" THEN 1 ELSE 0
      BY <1>2 DEF FactsMatchLedger
    <3>1. CASE j = i
      <4>1. instances'[j] = None /\ executions'[<<j, l>>] = "none"
        BY <1>5, <3>1 DEF LedgerInv, Shape
      <4>2. facts[<<j, l>>] <= 1
        BY DEF LedgerInv, FactsMatchLedger
      <4> QED
        BY <4>1, <4>2
    <3>2. CASE j # i
      BY <1>5, <3>2 DEF LedgerInv, Shape, FactsMatchLedger
    <3> QED
      BY <3>1, <3>2
  <2> QED
    BY <1>3, <2>1, <2>2, <2>3 DEF LedgerInv
<1> QED
  BY <1>1, <1>4, <1>5 DEF RemoveEnds

LEMMA LedgerPeopleEnds ==
  ASSUME LedgerInv, NEW s \in Session, PeopleEnds(s), op' = [op EXCEPT ![s] = None]
  PROVE  LedgerInv'
<1>1. DOMAIN op' = Session /\ \A z \in Session : op'[z] # None => Target(op[z])'
  BY LedgerEnded
<1> QED
  BY <1>1 DEF LedgerInv, PeopleEnds, Shape, UsedOnce, FactsMatchLedger

\* Whatever the operation was, and whatever the connector brought.
LEMMA FinishCases ==
  ASSUME NEW s \in Session, Finish(s)
  PROVE  /\ op[s] # None /\ op' = [op EXCEPT ![s] = None] /\ UNCHANGED ops
         /\ \/ \E outcome \in {"success", "failure", "error"} : RunEnds(s, outcome)
            \/ WriteEnds(s) \/ PeopleEnds(s) \/ RemoveEnds(s)
<1>1. \A c \in Capability : Outcome(op[s].manifest, c) \in {"success", "failure", "error"}
  BY DEF Outcome
<1> QED
  BY <1>1 DEF Finish

\* An id that is free has shown nothing, and so has no facts.
LEMMA LedgerInstall ==
  ASSUME LedgerInv, NEW i \in Instance, NEW m \in Manifest, NEW given \in SUBSET Field,
         InstallConnectorInstance(i, m, given)
  PROVE  LedgerInv'
<1>1. stored' \in 0 .. MaxSecrets
  BY BoundAssumption DEF LedgerInv, Shape, InstallConnectorInstance
<1>2. PICK row : row = [connector |-> m.connector, version |-> m.version, enabled |-> FALSE, test |-> "none",
                        secrets |-> [f \in Field |-> IF f \in given THEN stored' ELSE 0], manifest |-> m]
  OBVIOUS
<1>3. row \in Row
  <2>1. [f \in Field |-> IF f \in given THEN stored' ELSE 0] \in [Field -> 0 .. MaxSecrets]
    BY <1>1, BoundAssumption
  <2> QED
    BY <1>2, <2>1 DEF Row
<1>4. instances' = [instances EXCEPT ![i] = row]
  BY <1>2 DEF InstallConnectorInstance
<1>5. m.capabilities \in SUBSET Capability /\ m.capabilities # {}
  BY ManifestAssumption DEF InstallConnectorInstance, Valid
<1>6. PICK caps : caps = m.capabilities
  OBVIOUS
<1>7. /\ shown' = [shown EXCEPT ![i] = caps]
      /\ UNCHANGED <<registry, executions, facts, plans, op>>
      /\ instances[i] = None /\ shown[i] = {}
  BY <1>6 DEF InstallConnectorInstance
<1>8. Shape'
  BY <1>1, <1>3, <1>4, <1>5, <1>6, <1>7 DEF LedgerInv, Shape
<1>9. \A s \in Session : op'[s] # None => Target(op[s])'
  BY <1>7 DEF LedgerInv, Target
<1>10. UsedOnce'
  BY <1>4, <1>5, <1>6, <1>7 DEF LedgerInv, Shape, UsedOnce
<1>11. FactsMatchLedger'
  <2> SUFFICES ASSUME NEW j \in Instance, NEW l \in Key
               PROVE  IF instances'[j] = None THEN executions[<<j, l>>] = "none" /\ facts[<<j, l>>] <= 1
                      ELSE facts[<<j, l>>] = IF executions[<<j, l>>] = "success" THEN 1 ELSE 0
    BY <1>7 DEF FactsMatchLedger
  <2>1. CASE j = i
    <3>1. facts[<<j, l>>] = 0 /\ executions[<<j, l>>] = "none"
      BY <1>7, <2>1 DEF LedgerInv, UsedOnce, FactsMatchLedger
    <3> QED
      BY <3>1
  <2>2. CASE j # i
    BY <1>4, <2>2 DEF LedgerInv, Shape, FactsMatchLedger
  <2> QED
    BY <2>1, <2>2
<1> QED
  BY <1>8, <1>9, <1>10, <1>11 DEF LedgerInv

\* A step that leaves the instances, the ledger and the operations alone.
LEMMA LedgerFrame ==
  ASSUME LedgerInv, Shape', UNCHANGED <<instances, executions, facts, shown, op>>
  PROVE  LedgerInv'
BY DEF LedgerInv, Target, UsedOnce, FactsMatchLedger

\* An edit of the loaded row that leaves its connector, version and manifest alone.
EditOf(row, after) ==
  /\ after \in Row
  /\ after.connector = row.connector /\ after.version = row.version /\ after.manifest = row.manifest

Pending(i, after, new, allowed) ==
  [kind |-> "write", instance |-> i, loaded |-> instances[i], new |-> new, allowed |-> allowed,
   after |-> after]

LEMMA EditedRow ==
  ASSUME NEW row \in Row
  PROVE  /\ \A x \in [Field -> 0 .. MaxSecrets] : EditOf(row, [row EXCEPT !.secrets = x])
         /\ \A x \in BOOLEAN : EditOf(row, [row EXCEPT !.enabled = x])
         /\ \A x \in {"none", "success", "failure"} : EditOf(row, [row EXCEPT !.test = x])
         /\ \A m \in Manifest :
              /\ [row EXCEPT !.version = m.version, !.manifest = m] \in Row
              /\ [row EXCEPT !.version = m.version, !.manifest = m].version = m.version
              /\ [row EXCEPT !.version = m.version, !.manifest = m].manifest = m
              /\ [row EXCEPT !.version = m.version, !.manifest = m].connector = row.connector
<1>1. ASSUME NEW x \in [Field -> 0 .. MaxSecrets] PROVE EditOf(row, [row EXCEPT !.secrets = x])
  BY DEF EditOf, Row
<1>2. ASSUME NEW x \in BOOLEAN PROVE EditOf(row, [row EXCEPT !.enabled = x])
  BY DEF EditOf, Row
<1>3. ASSUME NEW x \in {"none", "success", "failure"} PROVE EditOf(row, [row EXCEPT !.test = x])
  BY DEF EditOf, Row
<1>4. ASSUME NEW m \in Manifest
      PROVE  /\ [row EXCEPT !.version = m.version, !.manifest = m] \in Row
             /\ [row EXCEPT !.version = m.version, !.manifest = m].version = m.version
             /\ [row EXCEPT !.version = m.version, !.manifest = m].manifest = m
             /\ [row EXCEPT !.version = m.version, !.manifest = m].connector = row.connector
  BY DEF Row
<1> QED
  BY <1>1, <1>2, <1>3, <1>4

\* Configuration, enabling and the connection test.
LEMMA EditLoaded ==
  ASSUME LedgerInv, NEW s \in Session, NEW i \in Instance,
         \/ \E m \in Manifest, given \in SUBSET Field : UpdateConfig(s, i, m, given)
         \/ \E enabled \in BOOLEAN : SetEnabled(s, i, enabled)
         \/ \E outcome \in {"success", "failure"} : TestConnection(s, i, outcome)
  PROVE  /\ instances[i] \in Row
         /\ \E after : EditOf(instances[i], after) /\ op' = [op EXCEPT ![s] = Pending(i, after, {}, TRUE)]
         /\ stored' \in 0 .. MaxSecrets
         /\ UNCHANGED <<registry, instances, executions, facts, shown, plans, people>>
<1>1. instances[i] # None
  BY DEF UpdateConfig, SetEnabled, TestConnection
<1>2. instances[i] \in Row /\ stored \in 0 .. MaxSecrets
  BY <1>1 DEF LedgerInv, Shape
<1>3. ASSUME NEW m \in Manifest, NEW given \in SUBSET Field, UpdateConfig(s, i, m, given)
      PROVE  /\ stored' \in 0 .. MaxSecrets
             /\ \E after : EditOf(instances[i], after) /\ op' = [op EXCEPT ![s] = Pending(i, after, {}, TRUE)]
             /\ UNCHANGED <<registry, instances, executions, facts, shown, plans, people>>
  <2>1. stored' \in 0 .. MaxSecrets
    BY <1>2, <1>3, BoundAssumption DEF UpdateConfig
  <2>2. PICK x : x = Merged(instances[i].secrets, given, stored')
    OBVIOUS
  <2>3. x \in [Field -> 0 .. MaxSecrets]
    BY <1>2, <2>1, <2>2, RowIs DEF Merged
  <2>4. EditOf(instances[i], [instances[i] EXCEPT !.secrets = x])
    BY <1>2, <2>3, EditedRow
  <2>5. op' = [op EXCEPT ![s] = Pending(i, [instances[i] EXCEPT !.secrets = x], {}, TRUE)]
    BY <1>3, <2>2 DEF UpdateConfig, Load, Pending
  <2> QED
    BY <1>3, <2>1, <2>4, <2>5 DEF UpdateConfig
<1>4. ASSUME NEW enabled \in BOOLEAN, SetEnabled(s, i, enabled)
      PROVE  /\ stored' \in 0 .. MaxSecrets
             /\ \E after : EditOf(instances[i], after) /\ op' = [op EXCEPT ![s] = Pending(i, after, {}, TRUE)]
             /\ UNCHANGED <<registry, instances, executions, facts, shown, plans, people>>
  <2>1. EditOf(instances[i], [instances[i] EXCEPT !.enabled = enabled])
    BY <1>2, EditedRow
  <2>2. op' = [op EXCEPT ![s] = Pending(i, [instances[i] EXCEPT !.enabled = enabled], {}, TRUE)]
    BY <1>4 DEF SetEnabled, Load, Pending
  <2> QED
    BY <1>2, <1>4, <2>1, <2>2 DEF SetEnabled
<1>5. ASSUME NEW outcome \in {"success", "failure"}, TestConnection(s, i, outcome)
      PROVE  /\ stored' \in 0 .. MaxSecrets
             /\ \E after : EditOf(instances[i], after) /\ op' = [op EXCEPT ![s] = Pending(i, after, {}, TRUE)]
             /\ UNCHANGED <<registry, instances, executions, facts, shown, plans, people>>
  <2>1. EditOf(instances[i], [instances[i] EXCEPT !.test = outcome])
    BY <1>2, EditedRow
  <2>2. op' = [op EXCEPT ![s] = Pending(i, [instances[i] EXCEPT !.test = outcome], {}, TRUE)]
    BY <1>5 DEF TestConnection, Load, Pending
  <2> QED
    BY <1>2, <1>5, <2>1, <2>2 DEF TestConnection
<1> QED
  BY <1>2, <1>3, <1>4, <1>5

\* An upgrade: the loaded row with the manifest of the plan.
LEMMA ApplyLoaded ==
  ASSUME LedgerInv, NEW s \in Session, NEW m \in Manifest, NEW allow \in BOOLEAN, Apply(s, m, allow)
  PROVE  \E p, i, after :
           /\ p = plans[s] /\ i = p.instance /\ p # None /\ i \in Instance
           /\ p.new \subseteq Capability /\ p.from \in Nat /\ p.to \in Nat
           /\ instances[i] # None /\ instances[i] \in Row /\ after \in Row
           /\ after.version = m.version /\ after.manifest = m /\ after.connector = instances[i].connector
           /\ op' = [op EXCEPT ![s] = Pending(i, after, p.new, allow)]
           /\ FromExpected(p, instances[i]) /\ Matches(p, m) /\ m.connector = instances[i].connector
           /\ p.to < p.from => allow
           /\ plans' = [plans EXCEPT ![s] = None]
           /\ UNCHANGED <<registry, instances, executions, facts, shown, stored, people>>
<1>1. PICK p : p = plans[s]
  OBVIOUS
<1>2. PICK i : i = p.instance
  OBVIOUS
<1>3. p # None /\ instances[i] # None
  BY <1>1, <1>2 DEF Apply
<1>4. p.instance \in Instance /\ p.new \subseteq Capability /\ p.from \in Nat /\ p.to \in Nat
  BY <1>1, <1>3 DEF LedgerInv, Shape
<1>5. instances[i] \in Row
  BY <1>2, <1>3, <1>4 DEF LedgerInv, Shape
<1>6. PICK after : after = [instances[i] EXCEPT !.version = m.version, !.manifest = m]
  OBVIOUS
<1>7. /\ after \in Row
      /\ after.version = m.version /\ after.manifest = m /\ after.connector = instances[i].connector
  BY <1>5, <1>6, EditedRow
<1>8. op' = [op EXCEPT ![s] = Pending(i, after, p.new, allow)]
  BY <1>1, <1>2, <1>6 DEF Apply, Load, Pending
<1>9. /\ FromExpected(p, instances[i]) /\ Matches(p, m) /\ m.connector = instances[i].connector
      /\ p.to < p.from => allow
      /\ plans' = [plans EXCEPT ![s] = None]
      /\ UNCHANGED <<registry, instances, executions, facts, shown, stored, people>>
  BY <1>1, <1>2 DEF Apply
<1> QED
  BY <1>1, <1>2, <1>3, <1>4, <1>5, <1>7, <1>8, <1>9

LEMMA PendingTarget ==
  ASSUME NEW i \in Instance, NEW after \in Row, NEW new \in SUBSET Capability, NEW allowed, instances[i] \in Row
  PROVE  Target(Pending(i, after, new, allowed))
BY DEF Target, Pending

LEMMA PlanShape ==
  ASSUME LedgerInv, NEW s \in Session, NEW i \in Instance, NEW from \in Manifest, NEW to \in Manifest,
         Plan(s, i, from, to)
  PROVE  Shape'
<1>1. [instance |-> i, from |-> from.version, to |-> to.version, capabilities |-> to.capabilities,
       new |-> to.capabilities \ from.capabilities]
        \in [instance: Instance, from: Nat, to: Nat, capabilities: SUBSET Capability, new: SUBSET Capability]
  BY ManifestAssumption
<1> QED
  BY <1>1 DEF LedgerInv, Shape, Plan

LEMMA LedgerStep == LedgerInv /\ [ConnectorsNext]_connectorVars => LedgerInv'
<1> SUFFICES ASSUME LedgerInv, [ConnectorsNext]_connectorVars PROVE LedgerInv'
  OBVIOUS
<1>1. ASSUME NEW file \in Files, LoadRegistry(file) PROVE LedgerInv'
  <2>1. registry' \subseteq Manifest
    BY <1>1, RegistryAssumption DEF LoadRegistry
  <2> QED
    BY <1>1, <2>1, LedgerFrame DEF LoadRegistry, LedgerInv, Shape
<1>2. ASSUME NEW i \in Instance, NEW m \in Manifest, NEW given \in SUBSET Field, InstallFromRegistry(i, m, given)
      PROVE  LedgerInv'
  BY <1>2, LedgerInstall DEF InstallFromRegistry
<1>3. ASSUME NEW s \in Session, NEW i \in Instance,
             \/ \E m \in Manifest, given \in SUBSET Field : UpdateConfig(s, i, m, given)
             \/ \E enabled \in BOOLEAN : SetEnabled(s, i, enabled)
             \/ \E outcome \in {"success", "failure"} : TestConnection(s, i, outcome)
      PROVE  LedgerInv'
  <2>1. /\ instances[i] \in Row /\ stored' \in 0 .. MaxSecrets
        /\ UNCHANGED <<registry, instances, executions, facts, shown, plans, people>>
    BY <1>3, EditLoaded
  <2>2. PICK after : EditOf(instances[i], after) /\ op' = [op EXCEPT ![s] = Pending(i, after, {}, TRUE)]
    BY <1>3, EditLoaded
  <2>3. Target(Pending(i, after, {}, TRUE))
    BY <2>1, <2>2, PendingTarget DEF EditOf
  <2> QED
    BY <2>1, <2>2, <2>3, LedgerLoaded
<1>4. ASSUME NEW s \in Session, NEW i \in Instance, Remove(s, i) PROVE LedgerInv'
  <2>1. PICK r : r = [kind |-> "remove", instance |-> i, seen |-> {k \in Key : executions[<<i, k>>] # "none"}]
    OBVIOUS
  <2>2. Target(r)
    BY <2>1 DEF Target
  <2>3. stored' \in 0 .. MaxSecrets
    BY <1>4 DEF Remove, LedgerInv, Shape
  <2> QED
    BY <1>4, <2>1, <2>2, <2>3, LedgerLoaded DEF Remove, Load
<1>5. ASSUME NEW s \in Session, NEW i \in Instance, NEW from \in Manifest, NEW to \in Manifest, Plan(s, i, from, to)
      PROVE  LedgerInv'
  BY <1>5, PlanShape, LedgerFrame DEF Plan
<1>6. ASSUME NEW s \in Session, NEW m \in Manifest, NEW allow \in BOOLEAN, Apply(s, m, allow) PROVE LedgerInv'
  <2>1. PICK p, i, after :
           /\ p = plans[s] /\ i = p.instance /\ p # None /\ i \in Instance
           /\ p.new \subseteq Capability /\ p.from \in Nat /\ p.to \in Nat
           /\ instances[i] # None /\ instances[i] \in Row /\ after \in Row
           /\ after.version = m.version /\ after.manifest = m /\ after.connector = instances[i].connector
           /\ op' = [op EXCEPT ![s] = Pending(i, after, p.new, allow)]
           /\ FromExpected(p, instances[i]) /\ Matches(p, m) /\ m.connector = instances[i].connector
           /\ p.to < p.from => allow
           /\ plans' = [plans EXCEPT ![s] = None]
           /\ UNCHANGED <<registry, instances, executions, facts, shown, stored, people>>
    BY <1>6, ApplyLoaded
  <2>2. Target(Pending(i, after, p.new, allow))
    BY <2>1, PendingTarget
  <2>3. stored' \in 0 .. MaxSecrets
    BY <2>1 DEF LedgerInv, Shape
  <2> QED
    BY <2>1, <2>2, <2>3, LedgerLoaded
<1>7. ASSUME NEW s \in Session, NEW i \in Instance, NEW k \in Key, Run(s, i, k) PROVE LedgerInv'
  <2>1. PICK r : r = [kind |-> "run", instance |-> i, key |-> k, manifest |-> instances[i].manifest,
                      writes |-> {}]
    OBVIOUS
  <2>2. Target(r)
    BY <2>1 DEF Target
  <2>3. stored' \in 0 .. MaxSecrets
    BY <1>7 DEF Run, LedgerInv, Shape
  <2> QED
    BY <1>7, <2>1, <2>2, <2>3, LedgerLoaded DEF Run, Load
<1>8. ASSUME NEW s \in Session, NEW listing \in Listing, IngestPopulation(s, listing) PROVE LedgerInv'
  <2>1. PICK r : r = [op[s] EXCEPT !.writes = SyncDirectoryUsers(listing)]
    OBVIOUS
  <2>2. op' = [op EXCEPT ![s] = r]
    BY <1>8, <2>1 DEF IngestPopulation, LedgerInv, Shape
  <2>3. Target(op[s]) /\ op[s].kind = "run"
    BY <1>8 DEF IngestPopulation, LedgerInv
  <2>4. r.kind = op[s].kind /\ r.instance = op[s].instance /\ r.key = op[s].key
    BY <2>1
  <2>5. Target(r)
    BY <2>3, <2>4 DEF Target
  <2>6. stored' \in 0 .. MaxSecrets
    BY <1>8 DEF IngestPopulation, LedgerInv, Shape
  <2> QED
    BY <1>8, <2>2, <2>5, <2>6, LedgerLoaded DEF IngestPopulation
<1>9. ASSUME NEW s \in Session, NEW writes, EditPeople(s, writes) PROVE LedgerInv'
  <2>1. PICK r : r = [kind |-> "people", writes |-> writes]
    OBVIOUS
  <2>2. Target(r)
    BY <2>1 DEF Target
  <2>3. stored' \in 0 .. MaxSecrets
    BY <1>9 DEF EditPeople, LedgerInv, Shape
  <2> QED
    BY <1>9, <2>1, <2>2, <2>3, LedgerLoaded DEF EditPeople, Load
<1>10. ASSUME NEW s \in Session, Finish(s) PROVE LedgerInv'
  BY <1>10, FinishCases, LedgerRunEnds, LedgerWriteEnds, LedgerPeopleEnds, LedgerRemoveEnds
<1>11. CASE UNCHANGED connectorVars
  BY <1>11, LedgerFrame DEF connectorVars, LedgerInv, Shape
<1> QED
  BY <1>1, <1>2, <1>3, <1>4, <1>5, <1>6, <1>7, <1>8, <1>9, <1>10, <1>11 DEF ConnectorsNext

\* The ledger's inductive invariant: rows, plans and operations keep their
\* shape, an id is used once, and the ledger and the facts agree.
THEOREM LedgerInvariant == ConnectorsSpec => []LedgerInv
BY LedgerInit, LedgerStep, PTL DEF ConnectorsSpec

\* The ledger and the facts agree, for any number of operators, instances and
\* keys (run_connector_instance): the fact and its execution are one
\* transaction, and an id that is free has no facts (UsedOnce).
THEOREM FactsMatchLedgerTheorem == ConnectorsSpec => []FactsMatchLedger
<1>1. LedgerInv => FactsMatchLedger
  BY DEF LedgerInv
<1> QED
  BY <1>1, LedgerInvariant, PTL

-----------------------------------------------------------------------------
(* What upgrades were reviewed against.                                      *)

\* The trail grows, and an instance keeps its connector as long as it is there.
Grows ==
  /\ UNCHANGED registry
  /\ \A i \in Instance :
       /\ shown[i] \subseteq shown'[i]
       /\ instances'[i] # None =>
            \/ shown[i] = {}
            \/ instances[i] # None /\ instances'[i].connector = instances[i].connector

\* What was reviewed stays reviewed.
LEMMA NamedKept ==
  ASSUME NEW c, NEW v, NEW small, NEW large, small \subseteq large, Named(c, v, small), UNCHANGED registry
  PROVE  Named(c, v, large)'
BY DEF Named

LEMMA PlanKept ==
  ASSUME Grows, NEW p, p.instance \in Instance, PlanReviewed(p)
  PROVE  PlanReviewed(p)'
<1>1. PICK i \in Instance : i = p.instance
  OBVIOUS
<1>2. shown[i] # {} /\ shown[i] \subseteq shown'[i]
  BY <1>1 DEF Grows, PlanReviewed
<1>3. instances'[i] # None => instances[i] # None /\ instances'[i].connector = instances[i].connector
  BY <1>2 DEF Grows
<1> QED
  BY <1>1, <1>2, <1>3 DEF Grows, PlanReviewed

LEMMA WriteKept ==
  ASSUME Grows, NEW o, Target(o), WriteReviewed(o)
  PROVE  WriteReviewed(o)'
<1> SUFFICES ASSUME o.kind = "write" PROVE WriteReviewed(o)'
  BY DEF WriteReviewed
<1>1. PICK i \in Instance : i = o.instance
  BY DEF Target
<1>2. shown[i] # {} /\ shown[i] \subseteq shown'[i]
  BY <1>1 DEF Grows, WriteReviewed
<1>3. instances'[i] # None => instances[i] # None /\ instances'[i].connector = instances[i].connector
  BY <1>2 DEF Grows
<1>4. Named(o.after.connector, o.after.version, shown[i] \cup o.new)'
  <2>1. PICK c, v, small, large :
          c = o.after.connector /\ v = o.after.version /\ small = shown[i] \cup o.new /\ large = shown'[i] \cup o.new
    OBVIOUS
  <2>2. Named(c, v, small) /\ small \subseteq large
    BY <1>1, <1>2, <2>1 DEF WriteReviewed
  <2>3. Named(c, v, large)'
    BY <2>2, NamedKept DEF Grows
  <2> QED
    BY <2>1, <2>3 DEF Named
<1> QED
  BY <1>1, <1>2, <1>3, <1>4 DEF WriteReviewed, Named

\* A step keeps the invariant when its instances, its plans and its operations
\* are old or reviewed.
LEMMA ReviewKept ==
  ASSUME LedgerInv, ReviewInv, Grows,
         \A i \in Instance : InstanceShown(i)',
         \A s \in Session : plans'[s] # None => plans'[s] = plans[s] \/ PlanReviewed(plans[s])',
         \A s \in Session : op'[s] # None => op'[s] = op[s] \/ WriteReviewed(op[s])'
  PROVE  ReviewInv'
<1>1. OneManifestPerVersion'
  BY DEF ReviewInv, OneManifestPerVersion, Grows
<1>2. ASSUME NEW s \in Session, plans'[s] # None PROVE PlanReviewed(plans[s])'
  <2> SUFFICES ASSUME plans'[s] = plans[s] PROVE PlanReviewed(plans[s])'
    BY <1>2
  <2>1. PICK p : p = plans[s]
    OBVIOUS
  <2>2. p.instance \in Instance /\ PlanReviewed(p)
    BY <1>2, <2>1 DEF LedgerInv, Shape, ReviewInv
  <2>3. PlanReviewed(p)'
    BY <2>2, PlanKept
  <2> QED
    BY <2>1, <2>3 DEF PlanReviewed
<1>3. ASSUME NEW s \in Session, op'[s] # None PROVE WriteReviewed(op[s])'
  <2> SUFFICES ASSUME op'[s] = op[s] PROVE WriteReviewed(op[s])'
    BY <1>3
  <2>1. PICK o : o = op[s]
    OBVIOUS
  <2>2. Target(o) /\ WriteReviewed(o)
    BY <1>3, <2>1 DEF LedgerInv, ReviewInv
  <2>3. WriteReviewed(o)'
    BY <2>2, WriteKept
  <2> QED
    BY <2>1, <2>3 DEF WriteReviewed, Named
<1> QED
  BY <1>1, <1>2, <1>3 DEF ReviewInv

LEMMA ReviewInit == ConnectorsInit => ReviewInv
BY DEF ConnectorsInit, ReviewInv, OneManifestPerVersion, InstanceShown

\* A step that leaves the instances and the trail alone and loads r.
LEMMA ReviewLoaded ==
  ASSUME LedgerInv, ReviewInv, NEW s \in Session, NEW r, op' = [op EXCEPT ![s] = r], WriteReviewed(r),
         UNCHANGED <<registry, instances, shown>>,
         plans' = plans \/ plans' = [plans EXCEPT ![s] = None]
  PROVE  ReviewInv'
<1>1. Grows
  BY DEF ReviewInv, LedgerInv, UsedOnce, Grows
<1>2. \A i \in Instance : InstanceShown(i)'
  BY DEF ReviewInv, InstanceShown, Named
<1>3. \A z \in Session : plans'[z] # None => plans'[z] = plans[z]
  BY DEF LedgerInv, Shape
<1>4. WriteReviewed(r)'
  BY DEF WriteReviewed, Named
<1>5. ASSUME NEW z \in Session PROVE op'[z] = op[z] \/ WriteReviewed(op[z])'
  <2>1. CASE z # s
    BY <2>1 DEF LedgerInv, Shape
  <2>2. CASE z = s
    <3>1. op'[z] = r
      BY <2>2 DEF LedgerInv, Shape
    <3> QED
      BY <1>4, <3>1 DEF WriteReviewed, Named
  <2> QED
    BY <2>1, <2>2
<1> QED
  BY <1>1, <1>2, <1>3, <1>5, ReviewKept

\* An edit leaves what the row ran.
LEMMA EditReviewed ==
  ASSUME LedgerInv, ReviewInv, NEW i \in Instance, instances[i] \in Row, NEW after, EditOf(instances[i], after)
  PROVE  WriteReviewed(Pending(i, after, {}, TRUE))
<1>1. instances[i] # None
  BY InstanceAssumption
<1>2. shown[i] # {} /\ InstanceShown(i)
  BY <1>1 DEF LedgerInv, UsedOnce, ReviewInv
<1>3. shown[i] \cup {} = shown[i]
  OBVIOUS
<1>4. Named(after.connector, after.version, shown[i] \cup {})
  BY <1>1, <1>2, <1>3 DEF InstanceShown, EditOf
<1>5. after.manifest.capabilities \subseteq shown[i] \cup {}
  BY <1>1, <1>2 DEF InstanceShown, EditOf
<1>6. PICK o : o = Pending(i, after, {}, TRUE)
  OBVIOUS
<1>7. o.kind = "write" /\ o.instance = i /\ o.loaded = instances[i] /\ o.new = {} /\ o.allowed = TRUE /\ o.after = after
  BY <1>6 DEF Pending
<1>8. WriteReviewed(o)
  BY <1>2, <1>4, <1>5, <1>7 DEF WriteReviewed, EditOf
<1> QED
  BY <1>6, <1>8

\* The plan compared the version the loaded row runs, which was shown, with
\* the new one: its difference and what was shown cover the new manifest.
LEMMA ApplyReviewed ==
  ASSUME LedgerInv, ReviewInv, NEW s \in Session, NEW p, p = plans[s], p # None,
         NEW i \in Instance, i = p.instance, instances[i] # None,
         NEW m, Matches(p, m), FromExpected(p, instances[i]), m.connector = instances[i].connector,
         NEW after, after.version = m.version, after.manifest = m, after.connector = instances[i].connector,
         NEW allow \in BOOLEAN, p.to < p.from => allow
  PROVE  WriteReviewed(Pending(i, after, p.new, allow))
<1>1. PlanReviewed(p) /\ InstanceShown(i) /\ shown[i] # {}
  BY DEF LedgerInv, UsedOnce, ReviewInv
<1>2. PICK e \in registry, f \in registry :
        /\ e.connector = f.connector /\ e.version = p.from /\ f.version = p.to
        /\ p.capabilities = f.capabilities /\ p.new = f.capabilities \ e.capabilities
        /\ instances[i].connector = f.connector
  BY <1>1 DEF PlanReviewed
<1>3. PICK g \in registry : /\ g.connector = instances[i].connector /\ g.version = instances[i].version
                            /\ g.capabilities \subseteq shown[i]
  BY <1>1 DEF InstanceShown, Named
<1>4. registry # None
  BY <1>1 DEF PlanReviewed
<1>5. e = g
  BY <1>2, <1>3, <1>4 DEF FromExpected, ReviewInv, OneManifestPerVersion
<1>6. f.capabilities \subseteq shown[i] \cup p.new
  BY <1>2, <1>3, <1>5
<1>7. m.capabilities \subseteq shown[i] \cup p.new
  BY <1>2, <1>6 DEF Matches
<1>8. Named(after.connector, after.version, shown[i] \cup p.new)
  BY <1>2, <1>4, <1>6 DEF Named, Matches
<1>9. after.version < instances[i].version => allow = TRUE
  BY DEF Matches, FromExpected
<1>10. PICK o : o = Pending(i, after, p.new, allow)
  OBVIOUS
<1>11. /\ o.kind = "write" /\ o.instance = i /\ o.loaded = instances[i] /\ o.new = p.new
       /\ o.allowed = allow /\ o.after = after
  BY <1>10 DEF Pending
<1>12. WriteReviewed(o)
  BY <1>1, <1>7, <1>8, <1>9, <1>11 DEF WriteReviewed
<1> QED
  BY <1>10, <1>12

\* What a write leaves, column by column, and what it adds to the trail.
LEMMA WriteLeaves ==
  ASSUME LedgerInv, NEW s \in Session, op[s] # None, WriteEnds(s)
  PROVE  \/ UNCHANGED <<instances, shown>>
         \/ \E i \in Instance, row \in Row, o \in {op[s]} :
              /\ o = op[s] /\ i = o.instance /\ o.kind = "write"
              /\ instances[i] \in Row /\ instances[i] # None /\ row # None
              /\ row.connector = IF o.after.connector # o.loaded.connector THEN o.after.connector ELSE instances[i].connector
              /\ row.version = IF o.after.version # o.loaded.version THEN o.after.version ELSE instances[i].version
              /\ row.manifest = IF o.after.manifest # o.loaded.manifest THEN o.after.manifest ELSE instances[i].manifest
              /\ instances' = [instances EXCEPT ![i] = row]
              /\ shown' = [shown EXCEPT ![i] = @ \cup o.new]
<1>1. PICK o : o = op[s]
  OBVIOUS
<1>2. o.kind = "write" /\ o.instance \in Instance /\ o.loaded \in Row /\ o.after \in Row
  BY <1>1 DEF LedgerInv, Target, WriteEnds
<1>3. PICK i \in Instance : i = o.instance
  BY <1>2
<1>4. CASE instances[i] = None
  BY <1>1, <1>3, <1>4 DEF WriteEnds
<1>5. ASSUME instances[i] # None
      PROVE  \E j \in Instance, row \in Row, q \in {op[s]} :
              /\ q = op[s] /\ j = q.instance /\ q.kind = "write"
              /\ instances[j] \in Row /\ instances[j] # None /\ row # None
              /\ row.connector = IF q.after.connector # q.loaded.connector THEN q.after.connector ELSE instances[j].connector
              /\ row.version = IF q.after.version # q.loaded.version THEN q.after.version ELSE instances[j].version
              /\ row.manifest = IF q.after.manifest # q.loaded.manifest THEN q.after.manifest ELSE instances[j].manifest
              /\ instances' = [instances EXCEPT ![j] = row]
              /\ shown' = [shown EXCEPT ![j] = @ \cup q.new]
  <2>1. instances[i] \in Row
    BY <1>5 DEF LedgerInv, Shape
  <2>2. PICK row \in Row : row = Written(instances[i], o.loaded, o.after)
    BY <1>2, <2>1, WrittenRow
  <2>3. row # None
    BY <2>2, InstanceAssumption
  <2>4. \A c \in Columns : row[c] = IF o.after[c] # o.loaded[c] THEN o.after[c] ELSE instances[i][c]
    BY <1>2, <2>1, <2>2, WrittenRow
  <2>5. /\ row["connector"] = IF o.after["connector"] # o.loaded["connector"] THEN o.after["connector"] ELSE instances[i]["connector"]
        /\ row["version"] = IF o.after["version"] # o.loaded["version"] THEN o.after["version"] ELSE instances[i]["version"]
        /\ row["manifest"] = IF o.after["manifest"] # o.loaded["manifest"] THEN o.after["manifest"] ELSE instances[i]["manifest"]
    BY <2>4 DEF Columns
  <2>6. /\ instances' = [instances EXCEPT ![i] = row]
        /\ shown' = [shown EXCEPT ![i] = @ \cup o.new]
    BY <1>1, <1>3, <1>5, <2>2 DEF WriteEnds
  <2> QED
    BY <1>1, <1>2, <1>3, <1>5, <2>1, <2>3, <2>5, <2>6
<1> QED
  BY <1>4, <1>5

\* The row a write leaves runs what was shown by then.
LEMMA ReviewWriteEnds ==
  ASSUME LedgerInv, ReviewInv, NEW s \in Session, op[s] # None, WriteEnds(s), op' = [op EXCEPT ![s] = None]
  PROVE  ReviewInv'
<1>1. UNCHANGED <<registry, plans>>
  BY DEF WriteEnds
<1>2. \A z \in Session : op'[z] # None => op'[z] = op[z]
  BY DEF LedgerInv, Shape
<1>3. CASE UNCHANGED <<instances, shown>>
  <2>1. Grows
    BY <1>1, <1>3 DEF LedgerInv, UsedOnce, Grows
  <2>2. \A i \in Instance : InstanceShown(i)'
    BY <1>1, <1>3 DEF ReviewInv, InstanceShown, Named
  <2> QED
    BY <1>1, <1>2, <2>1, <2>2, ReviewKept
<1>4. ASSUME NEW i \in Instance, NEW row \in Row, NEW o,
             o = op[s] /\ i = o.instance /\ o.kind = "write",
             instances[i] \in Row /\ instances[i] # None /\ row # None,
             row.connector = IF o.after.connector # o.loaded.connector THEN o.after.connector ELSE instances[i].connector,
             row.version = IF o.after.version # o.loaded.version THEN o.after.version ELSE instances[i].version,
             row.manifest = IF o.after.manifest # o.loaded.manifest THEN o.after.manifest ELSE instances[i].manifest,
             instances' = [instances EXCEPT ![i] = row],
             shown' = [shown EXCEPT ![i] = @ \cup o.new]
      PROVE  ReviewInv'
  <2>1. WriteReviewed(o) /\ InstanceShown(i) /\ shown[i] # {}
    BY <1>4 DEF LedgerInv, UsedOnce, ReviewInv
  <2>2. /\ instances'[i] = row /\ shown'[i] = shown[i] \cup o.new
        /\ \A j \in Instance \ {i} : instances'[j] = instances[j] /\ shown'[j] = shown[j]
    BY <1>4 DEF LedgerInv, Shape
  <2>3. row.connector = instances[i].connector
    BY <1>4, <2>1 DEF WriteReviewed
  <2>4. Grows
    BY <1>1, <2>2, <2>3, <1>4 DEF LedgerInv, UsedOnce, Grows
  <2>5. row.manifest.capabilities \subseteq shown'[i]
    BY <1>4, <2>1, <2>2 DEF WriteReviewed, InstanceShown
  <2>6. Named(row.connector, row.version, shown[i] \cup o.new)
    <3>1. CASE row.version = o.after.version
      BY <1>4, <2>1, <2>3, <3>1 DEF WriteReviewed
    <3>2. CASE row.version = instances[i].version
      BY <1>4, <2>1, <2>3, <3>2 DEF InstanceShown, Named
    <3> QED
      BY <1>4, <3>1, <3>2
  <2>7. InstanceShown(i)'
    BY <1>1, <2>2, <2>5, <2>6 DEF InstanceShown, Named
  <2>8. \A j \in Instance : InstanceShown(j)'
    BY <1>1, <2>2, <2>7 DEF ReviewInv, InstanceShown, Named
  <2> QED
    BY <1>1, <1>2, <2>4, <2>8, ReviewKept
<1> QED
  BY <1>3, <1>4, WriteLeaves

LEMMA ReviewStep == LedgerInv /\ ReviewInv /\ [ConnectorsNext]_connectorVars => ReviewInv'
<1> SUFFICES ASSUME LedgerInv, ReviewInv, [ConnectorsNext]_connectorVars PROVE ReviewInv'
  OBVIOUS
<1>1. ASSUME NEW file \in Files, LoadRegistry(file) PROVE ReviewInv'
  <2>1. registry = None /\ registry' = {e[2] : e \in file} /\ UNCHANGED <<instances, shown, plans, op>>
    BY <1>1 DEF LoadRegistry
  <2>2. OneManifestPerVersion'
    BY <1>1, <2>1 DEF OneManifestPerVersion, LoadRegistry, Consistent
  <2>3. \A i \in Instance : instances[i] = None
    BY <2>1 DEF ReviewInv, InstanceShown, Named
  <2>4. \A s \in Session : plans[s] = None
    BY <2>1 DEF ReviewInv, PlanReviewed
  <2>5. \A s \in Session : op[s] # None => op[s].kind # "write"
    BY <2>1 DEF ReviewInv, WriteReviewed, Named
  <2> QED
    BY <2>1, <2>2, <2>3, <2>4, <2>5 DEF ReviewInv, InstanceShown, WriteReviewed
<1>2. ASSUME NEW i \in Instance, NEW m \in Manifest, NEW given \in SUBSET Field, InstallFromRegistry(i, m, given)
      PROVE  ReviewInv'
  <2>1. /\ registry # None /\ m \in registry /\ shown[i] = {} /\ UNCHANGED <<registry, plans, op>>
    BY <1>2 DEF InstallFromRegistry, InstallConnectorInstance, Offered
  <2>2. PICK row : row = [connector |-> m.connector, version |-> m.version, enabled |-> FALSE, test |-> "none",
                        secrets |-> [f \in Field |-> IF f \in given THEN stored' ELSE 0], manifest |-> m]
    OBVIOUS
  <2>3. row.connector = m.connector /\ row.version = m.version /\ row.manifest = m
    BY <2>2
  <2>4. instances' = [instances EXCEPT ![i] = row] /\ shown' = [shown EXCEPT ![i] = m.capabilities]
    BY <1>2, <2>2 DEF InstallFromRegistry, InstallConnectorInstance
  <2>5. /\ instances'[i] = row /\ shown'[i] = m.capabilities
        /\ \A j \in Instance \ {i} : instances'[j] = instances[j] /\ shown'[j] = shown[j]
    BY <2>4 DEF LedgerInv, Shape
  <2>6. Grows
    BY <2>1, <2>5 DEF LedgerInv, UsedOnce, Grows
  <2>7. InstanceShown(i)'
    BY <2>1, <2>3, <2>5 DEF InstanceShown, Named
  <2>8. \A j \in Instance : InstanceShown(j)'
    BY <2>1, <2>5, <2>7 DEF ReviewInv, InstanceShown, Named
  <2> QED
    BY <2>1, <2>6, <2>8, ReviewKept
<1>3. ASSUME NEW s \in Session, NEW i \in Instance,
             \/ \E m \in Manifest, given \in SUBSET Field : UpdateConfig(s, i, m, given)
             \/ \E enabled \in BOOLEAN : SetEnabled(s, i, enabled)
             \/ \E outcome \in {"success", "failure"} : TestConnection(s, i, outcome)
      PROVE  ReviewInv'
  <2>1. /\ instances[i] \in Row
        /\ UNCHANGED <<registry, instances, executions, facts, shown, plans, people>>
    BY <1>3, EditLoaded
  <2>2. PICK after : EditOf(instances[i], after) /\ op' = [op EXCEPT ![s] = Pending(i, after, {}, TRUE)]
    BY <1>3, EditLoaded
  <2>3. WriteReviewed(Pending(i, after, {}, TRUE))
    BY <2>1, <2>2, EditReviewed
  <2> QED
    BY <2>1, <2>2, <2>3, ReviewLoaded
<1>4. ASSUME NEW s \in Session, NEW i \in Instance, Remove(s, i) PROVE ReviewInv'
  <2>1. PICK r : r = [kind |-> "remove", instance |-> i, seen |-> {k \in Key : executions[<<i, k>>] # "none"}]
    OBVIOUS
  <2>2. WriteReviewed(r)
    BY <2>1 DEF WriteReviewed
  <2> QED
    BY <1>4, <2>1, <2>2, ReviewLoaded DEF Remove, Load
<1>5. ASSUME NEW s \in Session, NEW i \in Instance, NEW from \in Manifest, NEW to \in Manifest, Plan(s, i, from, to)
      PROVE  ReviewInv'
  <2>1. PICK p : p = [instance |-> i, from |-> from.version, to |-> to.version, capabilities |-> to.capabilities,
                      new |-> to.capabilities \ from.capabilities]
    OBVIOUS
  <2>2. UNCHANGED <<registry, instances, shown, op>> /\ plans' = [plans EXCEPT ![s] = p]
    BY <1>5, <2>1 DEF Plan
  <2>3. /\ registry # None /\ from \in registry /\ to \in registry /\ from.connector = to.connector
        /\ instances[i] # None /\ instances[i].connector = to.connector
    BY <1>5 DEF Plan
  <2>4. PlanReviewed(p)'
    BY <2>1, <2>2, <2>3 DEF PlanReviewed, LedgerInv, UsedOnce
  <2>5. Grows
    BY <2>2 DEF LedgerInv, UsedOnce, Grows
  <2>6. \A j \in Instance : InstanceShown(j)'
    BY <2>2 DEF ReviewInv, InstanceShown, Named
  <2>7. ASSUME NEW z \in Session PROVE plans'[z] = plans[z] \/ PlanReviewed(plans[z])'
    <3>1. CASE z # s
      BY <2>2, <3>1 DEF LedgerInv, Shape
    <3>2. CASE z = s
      <4>1. plans'[z] = p
        BY <2>2, <3>2 DEF LedgerInv, Shape
      <4> QED
        BY <2>4, <4>1 DEF PlanReviewed
    <3> QED
      BY <3>1, <3>2
  <2> QED
    BY <2>2, <2>5, <2>6, <2>7, ReviewKept
<1>6. ASSUME NEW s \in Session, NEW m \in Manifest, NEW allow \in BOOLEAN, Apply(s, m, allow) PROVE ReviewInv'
  <2>1. PICK p, i, after :
           /\ p = plans[s] /\ i = p.instance /\ p # None /\ i \in Instance
           /\ p.new \subseteq Capability /\ p.from \in Nat /\ p.to \in Nat
           /\ instances[i] # None /\ instances[i] \in Row /\ after \in Row
           /\ after.version = m.version /\ after.manifest = m /\ after.connector = instances[i].connector
           /\ op' = [op EXCEPT ![s] = Pending(i, after, p.new, allow)]
           /\ FromExpected(p, instances[i]) /\ Matches(p, m) /\ m.connector = instances[i].connector
           /\ p.to < p.from => allow
           /\ plans' = [plans EXCEPT ![s] = None]
           /\ UNCHANGED <<registry, instances, executions, facts, shown, stored, people>>
    BY <1>6, ApplyLoaded
  <2>2. WriteReviewed(Pending(i, after, p.new, allow))
    BY <2>1, ApplyReviewed
  <2> QED
    BY <2>1, <2>2, ReviewLoaded
<1>7. ASSUME NEW s \in Session, NEW i \in Instance, NEW k \in Key, Run(s, i, k) PROVE ReviewInv'
  <2>1. PICK r : r = [kind |-> "run", instance |-> i, key |-> k, manifest |-> instances[i].manifest,
                      writes |-> {}]
    OBVIOUS
  <2>2. WriteReviewed(r)
    BY <2>1 DEF WriteReviewed
  <2> QED
    BY <1>7, <2>1, <2>2, ReviewLoaded DEF Run, Load
<1>8. ASSUME NEW s \in Session, NEW listing \in Listing, IngestPopulation(s, listing) PROVE ReviewInv'
  <2>1. PICK r : r = [op[s] EXCEPT !.writes = SyncDirectoryUsers(listing)]
    OBVIOUS
  <2>2. op' = [op EXCEPT ![s] = r]
    BY <1>8, <2>1 DEF IngestPopulation, LedgerInv, Shape
  <2>3. r.kind = "run"
    BY <1>8, <2>1 DEF IngestPopulation
  <2>4. WriteReviewed(r)
    BY <2>3 DEF WriteReviewed
  <2> QED
    BY <1>8, <2>2, <2>4, ReviewLoaded DEF IngestPopulation
<1>9. ASSUME NEW s \in Session, NEW writes, EditPeople(s, writes) PROVE ReviewInv'
  <2>1. PICK r : r = [kind |-> "people", writes |-> writes]
    OBVIOUS
  <2>2. WriteReviewed(r)
    BY <2>1 DEF WriteReviewed
  <2> QED
    BY <1>9, <2>1, <2>2, ReviewLoaded DEF EditPeople, Load
<1>10. ASSUME NEW s \in Session, Finish(s) PROVE ReviewInv'
  <2>1. op[s] # None /\ op' = [op EXCEPT ![s] = None]
    BY <1>10, FinishCases
  <2>2. \A z \in Session : op'[z] # None => op'[z] = op[z]
    BY <2>1 DEF LedgerInv, Shape
  <2>3. ASSUME UNCHANGED <<registry, instances, shown, plans>> PROVE ReviewInv'
    <3>1. Grows
      BY <2>3 DEF LedgerInv, UsedOnce, Grows
    <3>2. \A j \in Instance : InstanceShown(j)'
      BY <2>3 DEF ReviewInv, InstanceShown, Named
    <3> QED
      BY <2>2, <2>3, <3>1, <3>2, ReviewKept
  <2>4. ASSUME NEW outcome, RunEnds(s, outcome) PROVE ReviewInv'
    BY <2>3, <2>4 DEF RunEnds
  <2>5. ASSUME PeopleEnds(s) PROVE ReviewInv'
    BY <2>3, <2>5 DEF PeopleEnds
  <2>6. ASSUME RemoveEnds(s) PROVE ReviewInv'
    <3>1. PICK i \in Instance : i = op[s].instance
      BY <2>1, <2>6 DEF LedgerInv, Target, RemoveEnds
    <3>2. UNCHANGED <<registry, shown, plans>>
      BY <2>6 DEF RemoveEnds
    <3>3. UNCHANGED instances \/ instances' = [instances EXCEPT ![i] = None]
      BY <2>6, <3>1 DEF RemoveEnds
    <3>4. \A j \in Instance : instances'[j] # None => instances'[j] = instances[j]
      BY <3>3 DEF LedgerInv, Shape
    <3>5. Grows
      BY <3>2, <3>4 DEF LedgerInv, UsedOnce, Grows
    <3>6. \A j \in Instance : InstanceShown(j)'
      BY <3>2, <3>4 DEF ReviewInv, InstanceShown, Named
    <3> QED
      BY <2>2, <3>2, <3>5, <3>6, ReviewKept
  <2> QED
    BY <1>10, <2>1, <2>4, <2>5, <2>6, FinishCases, ReviewWriteEnds
<1>11. ASSUME UNCHANGED <<registry, instances, shown, plans, op>> PROVE ReviewInv'
  BY <1>11 DEF ReviewInv, OneManifestPerVersion, InstanceShown, PlanReviewed, WriteReviewed, Named
<1>12. CASE UNCHANGED connectorVars
  BY <1>11, <1>12 DEF connectorVars
<1> QED
  BY <1>1, <1>2, <1>3, <1>4, <1>5, <1>6, <1>7, <1>8, <1>9, <1>10, <1>12 DEF ConnectorsNext

\* What runs, and what a pending plan or upgrade will leave, was shown to
\* somebody; the registry names one manifest per version.
THEOREM ReviewInvariant == ConnectorsSpec => []ReviewInv
<1>1. ConnectorsInit => LedgerInv /\ ReviewInv
  BY LedgerInit, ReviewInit
<1>2. (LedgerInv /\ ReviewInv) /\ [ConnectorsNext]_connectorVars => (LedgerInv /\ ReviewInv)'
  BY LedgerStep, ReviewStep
<1> QED
  BY <1>1, <1>2, PTL DEF ConnectorsSpec

\* Only a write that was loaded by an upgrade changes the manifest of an
\* instance that stays.
LEMMA OnlyWritesUpgrade ==
  ASSUME LedgerInv, ConnectorsNext, NEW i \in Instance,
         instances[i] # None, instances'[i] # None, instances'[i].manifest # instances[i].manifest
  PROVE  \E s \in Session : op[s] # None /\ op' = [op EXCEPT ![s] = None] /\ WriteEnds(s)
<1>1. ASSUME UNCHANGED instances PROVE FALSE
  BY <1>1
<1>2. ASSUME NEW j \in Instance, NEW m \in Manifest, NEW given \in SUBSET Field, InstallFromRegistry(j, m, given)
      PROVE  FALSE
  BY <1>2 DEF InstallFromRegistry, InstallConnectorInstance, LedgerInv, Shape
<1>3. ASSUME NEW s \in Session, Finish(s) PROVE op[s] # None /\ op' = [op EXCEPT ![s] = None] /\ WriteEnds(s)
  <2>1. op[s] # None /\ op' = [op EXCEPT ![s] = None]
    BY <1>3, FinishCases
  <2>2. ~RemoveEnds(s)
    <3> SUFFICES ASSUME RemoveEnds(s) PROVE FALSE
      OBVIOUS
    <3>1. PICK j \in Instance : j = op[s].instance
      BY <2>1 DEF LedgerInv, Target, RemoveEnds
    <3>2. UNCHANGED instances \/ instances' = [instances EXCEPT ![j] = None]
      BY <3>1 DEF RemoveEnds
    <3> QED
      BY <1>1, <3>2 DEF LedgerInv, Shape
  <2>3. ~PeopleEnds(s) /\ \A outcome : ~RunEnds(s, outcome)
    BY <1>1 DEF PeopleEnds, RunEnds
  <2> QED
    BY <1>3, <2>1, <2>2, <2>3, FinishCases
<1>4. ASSUME NEW s \in Session,
             \/ \E j \in Instance, m \in Manifest, given \in SUBSET Field : UpdateConfig(s, j, m, given)
             \/ \E j \in Instance, enabled \in BOOLEAN : SetEnabled(s, j, enabled)
             \/ \E j \in Instance, outcome \in {"success", "failure"} : TestConnection(s, j, outcome)
             \/ \E j \in Instance : Remove(s, j)
             \/ \E j \in Instance, from, to \in Manifest : Plan(s, j, from, to)
             \/ \E m \in Manifest, allow \in BOOLEAN : Apply(s, m, allow)
             \/ \E j \in Instance, k \in Key : Run(s, j, k)
             \/ \E listing \in Listing : IngestPopulation(s, listing)
             \/ \E writes : EditPeople(s, writes)
      PROVE  FALSE
  BY <1>1, <1>4 DEF UpdateConfig, SetEnabled, TestConnection, Remove, Plan, Apply, Run, IngestPopulation, EditPeople
<1>5. \A file \in Files : ~LoadRegistry(file)
  BY <1>1 DEF LoadRegistry
<1> QED
  BY <1>2, <1>3, <1>4, <1>5 DEF ConnectorsNext

LEMMA UpgradeStep ==
  ASSUME LedgerInv, ReviewInv, ReviewInv', ConnectorsNext, NEW i \in Instance,
         instances[i] # None, instances'[i] # None, instances'[i].manifest # instances[i].manifest
  PROVE  /\ instances'[i].manifest.capabilities \subseteq shown'[i]
         /\ instances'[i].version < instances[i].version =>
              \E s \in Session : /\ op[s] # None /\ op'[s] = None
                                 /\ op[s].allowed \/ op[s].loaded.version # instances[i].version
<1>1. instances'[i].manifest.capabilities \subseteq shown'[i]
  BY DEF ReviewInv, InstanceShown
<1>2. PICK s \in Session : op[s] # None /\ op' = [op EXCEPT ![s] = None] /\ WriteEnds(s)
  BY OnlyWritesUpgrade
<1>3. op'[s] = None
  BY <1>2 DEF LedgerInv, Shape
<1>4. PICK j \in Instance, row \in Row, o \in {op[s]} :
              /\ o = op[s] /\ j = o.instance /\ o.kind = "write"
              /\ instances[j] \in Row /\ instances[j] # None /\ row # None
              /\ row.connector = IF o.after.connector # o.loaded.connector THEN o.after.connector ELSE instances[j].connector
              /\ row.version = IF o.after.version # o.loaded.version THEN o.after.version ELSE instances[j].version
              /\ row.manifest = IF o.after.manifest # o.loaded.manifest THEN o.after.manifest ELSE instances[j].manifest
              /\ instances' = [instances EXCEPT ![j] = row]
              /\ shown' = [shown EXCEPT ![j] = @ \cup o.new]
  BY <1>2, WriteLeaves
<1>5. j = i /\ instances'[i] = row
  BY <1>4 DEF LedgerInv, Shape
<1>6. WriteReviewed(o)
  BY <1>2, <1>4 DEF ReviewInv
<1>7. ASSUME row.version < instances[i].version, o.loaded.version = instances[i].version
      PROVE  o.allowed = TRUE
  <2>1. row.version \in Nat /\ instances[i].version \in Nat
    BY <1>4, <1>5, RowIs, ManifestAssumption
  <2>2. o.after.version = row.version
    BY <1>4, <1>5, <1>7, <2>1
  <2> QED
    BY <1>4, <1>6, <1>7, <2>2 DEF WriteReviewed
<1> QED
  BY <1>1, <1>2, <1>3, <1>4, <1>5, <1>7

\* Whatever plans are stale and whatever applies race, the capabilities of a
\* new manifest were all shown, and a step back was acknowledged or overtaken
\* (plan_connector_instance_upgrade, apply_connector_instance_upgrade).
THEOREM UpgradesReviewedTheorem == ConnectorsSpec => UpgradesReviewed
<1>1. LedgerInv /\ ReviewInv /\ ReviewInv' /\ [ConnectorsNext]_connectorVars =>
      [\A i \in Instance :
         instances[i] # None /\ instances'[i] # None /\ instances'[i].manifest # instances[i].manifest =>
           /\ instances'[i].manifest.capabilities \subseteq shown'[i]
           /\ instances'[i].version < instances[i].version =>
                \E s \in Session : /\ op[s] # None /\ op'[s] = None
                                   /\ op[s].allowed \/ op[s].loaded.version # instances[i].version]_connectorVars
  BY UpgradeStep
<1> QED
  BY <1>1, LedgerInvariant, ReviewInvariant, PTL DEF ConnectorsSpec, UpgradesReviewed

-----------------------------------------------------------------------------
(* The register of people.                                                   *)

PersonColumns == {"email", "name", "status", "external", "redacted"}
Names == Name \cup {RedactedName}
Statuses == {"unknown", "active", "suspended", "departed"}
Externals == {a.external : a \in Account} \cup {None}

LEMMA PersonRowIs ==
  ASSUME NEW x \in PersonRow
  PROVE  /\ DOMAIN x = PersonColumns
         /\ x.email \in Address \cup Person /\ x.name \in Names /\ x.status \in Statuses
         /\ x.external \in Externals /\ x.redacted \in BOOLEAN
BY DEF PersonRow, PersonColumns, Names, Statuses, Externals

LEMMA IsPersonRow ==
  ASSUME NEW x, x = [c \in PersonColumns |-> x[c]],
         x["email"] \in Address \cup Person, x["name"] \in Names, x["status"] \in Statuses,
         x["external"] \in Externals, x["redacted"] \in BOOLEAN
  PROVE  x \in PersonRow
BY DEF PersonRow, PersonColumns, Names, Statuses, Externals

\* The UPDATE of a row, whatever was loaded before: the same person, or redacted.
RowKept(p, row, new) ==
  /\ new \in PersonRow
  /\ \/ new.email = row.email /\ new.redacted = row.redacted
     \/ new.email = p /\ new.redacted = TRUE

LEMMA ChangedPerson ==
  ASSUME NEW row \in PersonRow, NEW w, w.loaded \in PersonRow, SamePerson(w.id, w.loaded, w.after)
  PROVE  RowKept(w.id, row, Changed(row, w))
<1>1. PICK x : x = Changed(row, w)
  OBVIOUS
<1>2. x = [c \in PersonColumns |-> IF w.after[c] # w.loaded[c] THEN w.after[c] ELSE row[c]]
  BY <1>1, PersonRowIs DEF Changed
<1>3. \A c \in PersonColumns : x[c] = IF w.after[c] # w.loaded[c] THEN w.after[c] ELSE row[c]
  BY <1>2
<1>4. x = [c \in PersonColumns |-> x[c]]
  BY <1>2
<1>5. /\ x["email"] = IF w.after["email"] # w.loaded["email"] THEN w.after["email"] ELSE row["email"]
      /\ x["redacted"] = IF w.after["redacted"] # w.loaded["redacted"] THEN w.after["redacted"] ELSE row["redacted"]
      /\ x["external"] = IF w.after["external"] # w.loaded["external"] THEN w.after["external"] ELSE row["external"]
      /\ x["status"] = IF w.after["status"] # w.loaded["status"] THEN w.after["status"] ELSE row["status"]
      /\ x["name"] = IF w.after["name"] # w.loaded["name"] THEN w.after["name"] ELSE row["name"]
  BY <1>3 DEF PersonColumns
<1>6. w.after \in PersonRow
  BY DEF SamePerson
<1>7. /\ x["email"] \in Address \cup Person /\ x["name"] \in Names /\ x["status"] \in Statuses
      /\ x["external"] \in Externals /\ x["redacted"] \in BOOLEAN
  BY <1>5, <1>6, PersonRowIs
<1>8. x \in PersonRow
  BY <1>4, <1>7, IsPersonRow
<1>9. \/ x.email = row.email /\ x.redacted = row.redacted
      \/ x.email = w.id /\ x.redacted = TRUE
  BY <1>5 DEF SamePerson
<1> QED
  BY <1>1, <1>8, <1>9 DEF RowKept

\* What a commit leaves of a person it knows.
LEMMA CommitKnown ==
  ASSUME PeopleTypeOK, NEW writes, Composed(writes), PeopleCommit(writes), NEW p \in Known
  PROVE  RowKept(p, people[p], people'[p])
<1> DEFINE inserts == {w \in writes : w.id = None}
<1>1. PICK row \in [inserts -> Person \ Known] :
        people' = [q \in Person |->
             IF \E w \in inserts : row[w] = q THEN (CHOOSE w \in inserts : row[w] = q).after
             ELSE IF \E w \in writes : w.id = q THEN Changed(people[q], CHOOSE w \in writes : w.id = q)
             ELSE people[q]]
  BY DEF PeopleCommit
<1>2. p \in Person /\ people[p] \in PersonRow
  BY DEF Known, PeopleTypeOK
<1>3. ~\E w \in inserts : row[w] = p
  BY <1>1
<1>4. CASE \E w \in writes : w.id = p
  <2>1. PICK w : w = CHOOSE v \in writes : v.id = p
    OBVIOUS
  <2>2. w \in writes /\ w.id = p
    BY <1>4, <2>1
  <2>3. people'[p] = Changed(people[p], w)
    BY <1>1, <1>2, <1>3, <1>4, <2>1
  <2>4. w.id # None
    BY <1>2, <2>2, PersonAssumption
  <2>5. Updates(w)
    BY <2>2, <2>4 DEF Composed, Inserts
  <2> QED
    BY <1>2, <2>2, <2>3, <2>5, ChangedPerson DEF Updates
<1>5. CASE ~\E w \in writes : w.id = p
  <2>1. people'[p] = people[p]
    BY <1>1, <1>2, <1>3, <1>5
  <2> QED
    BY <1>2, <2>1 DEF RowKept
<1> QED
  BY <1>4, <1>5

\* Every other person of the new register was inserted, each by a write of its own.
LEMMA CommitNew ==
  ASSUME PeopleTypeOK, NEW writes, Composed(writes), PeopleCommit(writes)
  PROVE  \E row : \A p \in Person \ Known :
           people'[p] = None \/ \E w \in writes : Inserts(w) /\ people'[p] = w.after /\ row[w] = p
<1> DEFINE inserts == {w \in writes : w.id = None}
<1>1. PICK row \in [inserts -> Person \ Known] :
        people' = [q \in Person |->
             IF \E w \in inserts : row[w] = q THEN (CHOOSE w \in inserts : row[w] = q).after
             ELSE IF \E w \in writes : w.id = q THEN Changed(people[q], CHOOSE w \in writes : w.id = q)
             ELSE people[q]]
  BY DEF PeopleCommit
<1>2. ASSUME NEW p \in Person \ Known
      PROVE  people'[p] = None \/ \E w \in writes : Inserts(w) /\ people'[p] = w.after /\ row[w] = p
  <2>1. CASE \E w \in inserts : row[w] = p
    <3>1. PICK w : w = CHOOSE v \in inserts : row[v] = p
      OBVIOUS
    <3>2. w \in inserts /\ row[w] = p
      BY <2>1, <3>1
    <3>3. people'[p] = w.after
      BY <1>1, <2>1, <3>1
    <3>4. Inserts(w)
      BY <3>2, PersonAssumption DEF Composed, Updates, Known
    <3> QED
      BY <3>2, <3>3, <3>4
  <2>2. CASE ~\E w \in inserts : row[w] = p
    <3>1. people[p] = None
      BY DEF Known
    <3>2. ~\E w \in writes : w.id = p
      BY PersonAssumption DEF Composed, Inserts, Updates
    <3> QED
      BY <1>1, <2>2, <3>1, <3>2
  <2> QED
    BY <2>1, <2>2
<1> QED
  BY <1>2

\* Nobody is forgotten and no redaction undone.
Remembers == Known \subseteq Known' /\ RedactedPeople \subseteq RedactedPeople'

LEMMA ComposedKept ==
  ASSUME Remembers, NEW writes, Composed(writes)
  PROVE  Composed(writes)'
BY DEF Remembers, Composed, Inserts, Updates

LEMMA CommitKeeps ==
  ASSUME PeopleTypeOK, Addresses, NEW writes, Composed(writes), ~PeopleConflict(writes), PeopleCommit(writes)
  PROVE  PeopleTypeOK' /\ Addresses' /\ Remembers
<1>1. \A p \in Known : RowKept(p, people[p], people'[p])
  BY CommitKnown
<1>2. PICK row : \A p \in Person \ Known :
           people'[p] = None \/ \E w \in writes : Inserts(w) /\ people'[p] = w.after /\ row[w] = p
  BY CommitNew
<1>3. PeopleTypeOK'
  <2>1. people' = [p \in Person |-> people'[p]]
    BY DEF PeopleCommit
  <2>2. ASSUME NEW p \in Person PROVE people'[p] \in PersonRow \cup {None}
    BY <1>1, <1>2 DEF RowKept, Inserts
  <2> QED
    BY <2>1, <2>2 DEF PeopleTypeOK
<1>4. Known \subseteq Known'
  BY <1>1, RowAssumption DEF Known, RowKept
<1>5. RedactedPeople \subseteq RedactedPeople'
  BY <1>1, <1>4 DEF RedactedPeople, RowKept
<1>6. ASSUME NEW p \in Known', p \notin Known
      PROVE  \E w \in writes : Inserts(w) /\ people'[p] = w.after /\ row[w] = p
  BY <1>2, <1>6 DEF Known
<1>7. Addresses'
  <2>1. ASSUME NEW p \in Known'
        PROVE  IF people'[p].redacted THEN people'[p].email = p ELSE people'[p].email \in Address
    <3>1. CASE p \in Known
      BY <1>1, <3>1 DEF Addresses, RowKept
    <3>2. CASE p \notin Known
      BY <1>6, <3>2 DEF Inserts
    <3> QED
      BY <3>1, <3>2
  <2>2. ASSUME NEW p \in Known, NEW q \in Known', q \notin Known PROVE people'[p].email # people'[q].email
    <3>1. PICK w \in writes : Inserts(w) /\ people'[q] = w.after
      BY <1>6, <2>2
    <3>2. Holder(w.after.email) = {} /\ w.after.email \in Address
      BY <3>1 DEF PeopleConflict, Inserts
    <3>3. people'[p].email = people[p].email \/ people'[p].email = p
      BY <1>1 DEF RowKept
    <3> QED
      BY <3>1, <3>2, <3>3, PersonAssumption DEF Holder, Known
  <2>3. ASSUME NEW p \in Known', NEW q \in Known', people'[p].email = people'[q].email PROVE p = q
    <3>1. CASE p \in Known /\ q \in Known
      <4>1. p \in Person /\ q \in Person
        BY <3>1 DEF Known
      <4>2. CASE people'[p].email \in Address
        <5>1. people'[p].email = people[p].email /\ people'[q].email = people[q].email
          BY <1>1, <2>3, <3>1, <4>1, <4>2, PersonAssumption DEF RowKept
        <5> QED
          BY <2>3, <3>1, <5>1 DEF Addresses
      <4>3. CASE people'[p].email \notin Address
        BY <2>1, <2>3, <4>3
      <4> QED
        BY <4>2, <4>3
    <3>2. CASE p \notin Known /\ q \notin Known
      <4>1. PICK v \in writes : Inserts(v) /\ people'[p] = v.after /\ row[v] = p
        BY <1>6, <3>2
      <4>2. PICK w \in writes : Inserts(w) /\ people'[q] = w.after /\ row[w] = q
        BY <1>6, <3>2
      <4>3. v = w
        BY <2>3, <4>1, <4>2 DEF Composed, Inserts
      <4> QED
        BY <4>1, <4>2, <4>3
    <3> QED
      BY <2>2, <2>3, <3>1, <3>2
  <2> QED
    BY <2>1, <2>3 DEF Addresses
<1> QED
  BY <1>3, <1>4, <1>5, <1>7 DEF Remembers

-----------------------------------------------------------------------------
(* What requests compose.                                                    *)

LEMMA NewPersonInserts ==
  ASSUME NEW e \in Address, NEW name \in Name, NEW status \in Statuses, NEW external \in Externals
  PROVE  Inserts(Write(None, NewPerson(e, name, status, external)))
BY DEF Inserts, Write, NewPerson, PersonRow, Statuses, Externals

LEMMA EditUpdates ==
  ASSUME NEW p \in Known, people[p] \in PersonRow, NEW after, SamePerson(p, people[p], after)
  PROVE  Updates(Write(p, after)) /\ Write(p, after).id = p
<1>1. p # None
  BY PersonAssumption DEF Known
<1> QED
  BY <1>1 DEF Updates, Write

LEMMA CreateComposed ==
  ASSUME NEW e \in Address, NEW name \in Name
  PROVE  Composed(CreatePerson(e, name, "unknown"))
<1>1. Inserts(Write(None, NewPerson(e, name, "unknown", None)))
  BY NewPersonInserts DEF Statuses, Externals
<1> QED
  BY <1>1 DEF Composed, CreatePerson

LEMMA UpdateComposed ==
  ASSUME PeopleTypeOK, NEW p \in Known, NEW name \in Name
  PROVE  Composed(UpdatePerson(p, name, "departed"))
<1>1. people[p] \in PersonRow
  BY DEF Known, PeopleTypeOK
<1>2. PICK after : after = [people[p] EXCEPT !.name = name, !.status = "departed"]
  OBVIOUS
<1>3. SamePerson(p, people[p], after)
  BY <1>1, <1>2 DEF SamePerson, PersonRow
<1>4. Updates(Write(p, after))
  BY <1>1, <1>3, EditUpdates
<1>5. UpdatePerson(p, name, "departed") = {Write(p, after)}
  BY <1>2 DEF UpdatePerson
<1> QED
  BY <1>4, <1>5, PersonAssumption DEF Composed

\* A redaction of a person who has an address.
LEMMA RedactComposed ==
  ASSUME PeopleTypeOK, Addresses, NEW p \in Person, Redactable(p)
  PROVE  Composed(RedactPersonPii(p))
<1>1. p \in Known /\ people[p] \in PersonRow /\ people[p].redacted = FALSE
  BY DEF Redactable, Known, RedactedPeople, PeopleTypeOK, PersonRow
<1>2. people[p].email # p
  BY <1>1, PersonAssumption DEF Addresses
<1>3. PICK after : after = [people[p] EXCEPT !.email = p, !.name = RedactedName, !.external = None, !.redacted = TRUE]
  OBVIOUS
<1>4. after \in PersonRow /\ after.email = p /\ after.redacted = TRUE
  BY <1>1, <1>3 DEF PersonRow
<1>5. Updates(Write(p, after)) /\ Write(p, after).id = p
  BY <1>1, <1>2, <1>4, EditUpdates DEF SamePerson
<1>6. RedactPersonPii(p) = {Write(p, after)}
  BY <1>3 DEF RedactPersonPii
<1> QED
  BY <1>5, <1>6, PersonAssumption DEF Composed

LEMMA SyncComposed ==
  ASSUME PeopleTypeOK, NEW listing \in Listing
  PROVE  Composed(SyncDirectoryUsers(listing))
<1> DEFINE status(a) == IF a.suspended THEN "suspended" ELSE "active"
           W(a) == IF Holder(a.email) = {} THEN Write(None, NewPerson(a.email, a.name, status(a), a.external))
                   ELSE LET p == CHOOSE q \in Holder(a.email) : TRUE
                        IN  Write(p, [people[p] EXCEPT !.name = a.name, !.status = status(a), !.external = a.external])
<1>1. SyncDirectoryUsers(listing) = {W(a) : a \in listing}
  BY DEF SyncDirectoryUsers
<1>2. \A a \in listing : /\ a \in Account /\ a.email \in Address /\ a.name \in Name
                         /\ a.external \in Externals /\ status(a) \in Statuses
  BY ListingAssumption, AccountAssumption DEF Externals, Statuses
<1>3. ASSUME NEW a \in listing, Holder(a.email) = {}
      PROVE  Inserts(W(a)) /\ W(a).after.email = a.email
  <2>1. PICK x : x = status(a)
    OBVIOUS
  <2>2. W(a) = Write(None, NewPerson(a.email, a.name, x, a.external))
    BY <1>3, <2>1
  <2>3. Inserts(Write(None, NewPerson(a.email, a.name, x, a.external)))
    BY <1>2, <2>1, NewPersonInserts
  <2> QED
    BY <2>2, <2>3 DEF Write, NewPerson
<1>4. ASSUME NEW a \in listing, Holder(a.email) # {}
      PROVE  Updates(W(a)) /\ W(a).id # None
  <2>1. PICK x : x = status(a)
    OBVIOUS
  <2>2. PICK p : p = CHOOSE q \in Holder(a.email) : TRUE
    OBVIOUS
  <2>3. p \in Holder(a.email)
    BY <1>4, <2>2
  <2>4. p \in Known /\ p \in Person /\ people[p] \in PersonRow
    BY <2>3 DEF Holder, Known, PeopleTypeOK
  <2>5. PICK after : after = [people[p] EXCEPT !.name = a.name, !.status = x, !.external = a.external]
    OBVIOUS
  <2>6. x \in Statuses /\ a.external \in Externals /\ a.name \in Name
    BY <1>2, <2>1
  <2>7. SamePerson(p, people[p], after)
    BY <2>4, <2>5, <2>6 DEF SamePerson, PersonRow, Statuses, Externals
  <2>8. Updates(Write(p, after)) /\ Write(p, after).id = p
    BY <2>4, <2>7, EditUpdates
  <2>9. W(a) = Write(p, after)
    BY <1>4, <2>1, <2>2, <2>5
  <2> QED
    BY <2>4, <2>8, <2>9, PersonAssumption
<1> HIDE DEF W
<1>5. ASSUME NEW a \in listing, NEW b \in listing, W(a).id = None, W(b).id = None,
             W(a).after.email = W(b).after.email
      PROVE  W(a) = W(b)
  <2>1. a.email = b.email
    BY <1>3, <1>4, <1>5
  <2> QED
    BY <2>1, ListingAssumption
<1> QED
  BY <1>1, <1>3, <1>4, <1>5 DEF Composed

-----------------------------------------------------------------------------
(* The register through all steps.                                           *)

LEMMA RegisterInit == ConnectorsInit => RegisterInv
BY DEF ConnectorsInit, PeopleInit, RegisterInv, PeopleTypeOK, Addresses, Known

\* A step keeps the invariant when it keeps the register and its operations are
\* old or well composed.
LEMMA RegisterKept ==
  ASSUME RegisterInv, PeopleTypeOK', Addresses', Remembers, DOMAIN op' = Session,
         \A s \in Session : op'[s] # None => \/ op'[s] = op[s]
                                             \/ op'[s].kind \notin {"run", "people"}
                                             \/ "writes" \in DOMAIN op'[s] /\ Composed(op'[s].writes)
  PROVE  RegisterInv' /\ Remembers
<1>1. ASSUME NEW s \in Session, op'[s] # None, op'[s].kind \in {"run", "people"}
      PROVE  "writes" \in DOMAIN op'[s] /\ Composed(op[s].writes)'
  <2>1. PICK writes : writes = op'[s].writes
    OBVIOUS
  <2>2. "writes" \in DOMAIN op'[s] /\ Composed(writes)
    BY <1>1, <2>1 DEF RegisterInv
  <2>3. Composed(writes)'
    BY <2>2, ComposedKept
  <2> QED
    BY <2>1, <2>2, <2>3 DEF Composed, Updates
<1> QED
  BY <1>1 DEF RegisterInv

\* A step that leaves the register alone and loads r.
LEMMA RegisterLoaded ==
  ASSUME RegisterInv, NEW s \in Session, NEW r, op' = [op EXCEPT ![s] = r], UNCHANGED people,
         r.kind \in {"run", "people"} => "writes" \in DOMAIN r /\ Composed(r.writes)
  PROVE  RegisterInv' /\ Remembers
<1>1. PeopleTypeOK' /\ Addresses' /\ Remembers
  BY DEF RegisterInv, PeopleTypeOK, Addresses, Remembers, Known, RedactedPeople
<1>2. /\ DOMAIN op' = Session /\ op'[s] = r
      /\ \A z \in Session \ {s} : op'[z] = op[z]
  BY DEF RegisterInv
<1> QED
  BY <1>1, <1>2, RegisterKept

LEMMA RegisterEnds ==
  ASSUME RegisterInv, NEW s \in Session, op[s] # None, op' = [op EXCEPT ![s] = None],
         \/ UNCHANGED people
         \/ /\ op[s].kind \in {"run", "people"}
            /\ ~PeopleConflict(op[s].writes) /\ PeopleCommit(op[s].writes)
  PROVE  RegisterInv' /\ Remembers
<1>1. DOMAIN op' = Session /\ \A z \in Session : op'[z] # None => op'[z] = op[z]
  BY DEF RegisterInv
<1>2. CASE UNCHANGED people
  <2>1. PeopleTypeOK' /\ Addresses' /\ Remembers
    BY <1>2 DEF RegisterInv, PeopleTypeOK, Addresses, Remembers, Known, RedactedPeople
  <2> QED
    BY <1>1, <2>1, RegisterKept
<1>3. ASSUME op[s].kind \in {"run", "people"},
             ~PeopleConflict(op[s].writes), PeopleCommit(op[s].writes)
      PROVE  RegisterInv' /\ Remembers
  <2>1. Composed(op[s].writes)
    BY <1>3 DEF RegisterInv
  <2>2. PeopleTypeOK' /\ Addresses' /\ Remembers
    <3>1. PICK writes : writes = op[s].writes
      OBVIOUS
    <3>2. Composed(writes) /\ ~PeopleConflict(writes) /\ PeopleCommit(writes)
      BY <1>3, <2>1, <3>1
    <3> QED
      BY <3>2, CommitKeeps DEF RegisterInv
  <2> QED
    BY <1>1, <2>2, RegisterKept
<1> QED
  BY <1>2, <1>3

LEMMA RegisterStep == RegisterInv /\ [ConnectorsNext]_connectorVars => RegisterInv' /\ Remembers
<1> SUFFICES ASSUME RegisterInv, [ConnectorsNext]_connectorVars PROVE RegisterInv' /\ Remembers
  OBVIOUS
<1>1. ASSUME UNCHANGED <<op, people>> PROVE RegisterInv' /\ Remembers
  <2>1. PeopleTypeOK' /\ Addresses' /\ Remembers
    BY <1>1 DEF RegisterInv, PeopleTypeOK, Addresses, Remembers, Known, RedactedPeople
  <2>2. DOMAIN op' = Session /\ \A s \in Session : op'[s] = op[s]
    BY <1>1 DEF RegisterInv
  <2> QED
    BY <2>1, <2>2, RegisterKept
<1>2. ASSUME NEW file \in Files, LoadRegistry(file) PROVE RegisterInv' /\ Remembers
  BY <1>1, <1>2 DEF LoadRegistry
<1>3. ASSUME NEW i \in Instance, NEW m \in Manifest, NEW given \in SUBSET Field, InstallFromRegistry(i, m, given)
      PROVE  RegisterInv' /\ Remembers
  BY <1>1, <1>3 DEF InstallFromRegistry, InstallConnectorInstance
<1>4. ASSUME NEW s \in Session, NEW i \in Instance, NEW m \in Manifest, NEW given \in SUBSET Field,
             UpdateConfig(s, i, m, given)
      PROVE  RegisterInv' /\ Remembers
  <2>1. \E r : r.kind = "write" /\ op' = [op EXCEPT ![s] = r] /\ UNCHANGED people
    BY <1>4 DEF UpdateConfig, Load
  <2> QED
    BY <2>1, RegisterLoaded
<1>5. ASSUME NEW s \in Session, NEW i \in Instance, NEW enabled \in BOOLEAN, SetEnabled(s, i, enabled)
      PROVE  RegisterInv' /\ Remembers
  <2>1. \E r : r.kind = "write" /\ op' = [op EXCEPT ![s] = r] /\ UNCHANGED people
    BY <1>5 DEF SetEnabled, Load
  <2> QED
    BY <2>1, RegisterLoaded
<1>6. ASSUME NEW s \in Session, NEW i \in Instance, NEW outcome \in {"success", "failure"},
             TestConnection(s, i, outcome)
      PROVE  RegisterInv' /\ Remembers
  <2>1. \E r : r.kind = "write" /\ op' = [op EXCEPT ![s] = r] /\ UNCHANGED people
    BY <1>6 DEF TestConnection, Load
  <2> QED
    BY <2>1, RegisterLoaded
<1>7. ASSUME NEW s \in Session, NEW i \in Instance, Remove(s, i) PROVE RegisterInv' /\ Remembers
  <2>1. \E r : r.kind = "remove" /\ op' = [op EXCEPT ![s] = r] /\ UNCHANGED people
    BY <1>7 DEF Remove, Load
  <2> QED
    BY <2>1, RegisterLoaded
<1>8. ASSUME NEW s \in Session, NEW i \in Instance, NEW from \in Manifest, NEW to \in Manifest, Plan(s, i, from, to)
      PROVE  RegisterInv' /\ Remembers
  BY <1>1, <1>8 DEF Plan
<1>9. ASSUME NEW s \in Session, NEW m \in Manifest, NEW allow \in BOOLEAN, Apply(s, m, allow) PROVE RegisterInv' /\ Remembers
  <2>1. \E r : r.kind = "write" /\ op' = [op EXCEPT ![s] = r] /\ UNCHANGED people
    BY <1>9 DEF Apply, Load
  <2> QED
    BY <2>1, RegisterLoaded
<1>10. ASSUME NEW s \in Session, NEW i \in Instance, NEW k \in Key, Run(s, i, k) PROVE RegisterInv' /\ Remembers
  <2>1. PICK r : r = [kind |-> "run", instance |-> i, key |-> k, manifest |-> instances[i].manifest,
                      writes |-> {}]
    OBVIOUS
  <2>2. "writes" \in DOMAIN r /\ Composed(r.writes)
    BY <2>1 DEF Composed
  <2> QED
    BY <1>10, <2>1, <2>2, RegisterLoaded DEF Run, Load
<1>11. ASSUME NEW s \in Session, NEW listing \in Listing, IngestPopulation(s, listing) PROVE RegisterInv' /\ Remembers
  <2>1. PICK r : r = [op[s] EXCEPT !.writes = SyncDirectoryUsers(listing)]
    OBVIOUS
  <2>2. op' = [op EXCEPT ![s] = r] /\ UNCHANGED people
    BY <1>11, <2>1 DEF IngestPopulation, RegisterInv
  <2>3. Composed(SyncDirectoryUsers(listing))
    BY SyncComposed DEF RegisterInv
  <2>4. "writes" \in DOMAIN op[s]
    BY <1>11 DEF IngestPopulation, RegisterInv
  <2>5. DOMAIN r = DOMAIN op[s] /\ r.writes = SyncDirectoryUsers(listing)
    BY <2>1, <2>4
  <2> QED
    BY <2>2, <2>3, <2>4, <2>5, RegisterLoaded
<1>12. ASSUME NEW s \in Session, NEW writes, EditPeople(s, writes), Composed(writes)
       PROVE  RegisterInv' /\ Remembers
  <2>1. PICK r : r = [kind |-> "people", writes |-> writes]
    OBVIOUS
  <2>2. "writes" \in DOMAIN r /\ Composed(r.writes)
    BY <1>12, <2>1
  <2> QED
    BY <1>12, <2>1, <2>2, RegisterLoaded DEF EditPeople, Load
<1>13. ASSUME NEW s \in Session, NEW listing \in Listing, EditPeople(s, SyncDirectoryUsers(listing))
       PROVE  RegisterInv' /\ Remembers
  BY <1>12, <1>13, SyncComposed DEF RegisterInv
<1>14. ASSUME NEW s \in Session, NEW e \in Address, NEW n \in Name, EditPeople(s, CreatePerson(e, n, "unknown"))
       PROVE  RegisterInv' /\ Remembers
  BY <1>12, <1>14, CreateComposed
<1>15. ASSUME NEW s \in Session, NEW p \in Known, NEW n \in Name, EditPeople(s, UpdatePerson(p, n, "departed"))
       PROVE  RegisterInv' /\ Remembers
  BY <1>12, <1>15, UpdateComposed DEF RegisterInv
<1>16. ASSUME NEW s \in Session, Finish(s) PROVE RegisterInv' /\ Remembers
  <2>1. op[s] # None /\ op' = [op EXCEPT ![s] = None]
    BY <1>16, FinishCases
  <2>2. ASSUME NEW outcome, RunEnds(s, outcome) PROVE RegisterInv' /\ Remembers
    BY <2>1, <2>2, RegisterEnds DEF RunEnds
  <2>3. ASSUME PeopleEnds(s) PROVE RegisterInv' /\ Remembers
    BY <2>1, <2>3, RegisterEnds DEF PeopleEnds
  <2>4. ASSUME WriteEnds(s) \/ RemoveEnds(s) PROVE RegisterInv' /\ Remembers
    BY <2>1, <2>4, RegisterEnds DEF WriteEnds, RemoveEnds
  <2> QED
    BY <1>16, <2>2, <2>3, <2>4, FinishCases
<1>17. ASSUME NEW s \in Session, NEW p \in Person, Redactable(p), EditPeople(s, RedactPersonPii(p))
       PROVE  RegisterInv' /\ Remembers
  BY <1>12, <1>17, RedactComposed DEF RegisterInv
<1>18. CASE UNCHANGED connectorVars
  BY <1>1, <1>18 DEF connectorVars
<1> QED
  BY <1>2, <1>3, <1>4, <1>5, <1>6, <1>7, <1>8, <1>9, <1>10, <1>11, <1>13, <1>14, <1>15, <1>16, <1>17, <1>18
  DEF ConnectorsNext

\* The register's inductive invariant: no two people share an address, and a
\* pending request changes no address but to redact the person.
THEOREM RegisterInvariant == ConnectorsSpec => []RegisterInv
BY RegisterInit, RegisterStep, PTL DEF ConnectorsSpec

\* The address of a redacted person stays gone, for any people, accounts,
\* listings and sessions (redact_person_pii): a request that loaded the row
\* before the redaction has the old address in its copy and writes no address.
THEOREM RedactedAddressStaysGoneTheorem == ConnectorsSpec => RedactedAddressStaysGone
<1>1. RegisterInv /\ [ConnectorsNext]_connectorVars =>
        [\A p \in RedactedPeople : people'[p] # None /\ people'[p].redacted /\ people'[p].email = p]_connectorVars
  <2> SUFFICES ASSUME RegisterInv, [ConnectorsNext]_connectorVars, NEW p \in RedactedPeople
               PROVE  people'[p] # None /\ people'[p].redacted /\ people'[p].email = p
    OBVIOUS
  <2>1. RegisterInv' /\ Remembers
    BY RegisterStep
  <2>2. p \in RedactedPeople'
    BY <2>1 DEF Remembers
  <2> QED
    BY <2>1, <2>2 DEF RegisterInv, Addresses, RedactedPeople, Known
<1> QED
  BY <1>1, RegisterInvariant, PTL DEF ConnectorsSpec, RedactedAddressStaysGone
=============================================================================
