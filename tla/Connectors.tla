----------------------------- MODULE Connectors -----------------------------
(***************************************************************************)
(* The connector platform: the registry of manifests                       *)
(* (app/connector_registry.py, app/connectors/manifest.py), installed      *)
(* instances with their secrets, upgrades by plan and apply, and runs that *)
(* turn a connector's result into facts (app/connector_lifecycle.py,       *)
(* app/connectors/ingestion.py).                                           *)
(*                                                                         *)
(* Every operation loads the instance, works on the loaded row, and        *)
(* flushes and commits at the end; the ORM writes the columns it changed.  *)
(* A run calls the provider in between; a population it brings is written  *)
(* to the register of people (module People), which the same sessions      *)
(* edit, sync and redact.  Versions are ordered numbers.                   *)
(* Deleting the execution ledger of an instance that is removed is         *)
(* limited to the rows the removal has seen.                               *)
(***************************************************************************)
EXTENDS Naturals, People, Requests

CONSTANTS
  Instance,     \* ids of connector_instances
  Key,          \* idempotency keys of runs
  Capability, Field,
  Manifest,     \* all manifests anyone could pass in
  Files,        \* the registry files that could be deployed: sets of <<entry number, manifest>>
  CoreVersion,  \* CORE_CONTRACT_VERSION
  MaxSecrets,   \* bound on the secrets stored
  MaxOps,       \* bound on the operations started
  Listing       \* what the directory may list: sets of accounts

ASSUME CoreAssumption == CoreVersion \in Nat
ASSUME ManifestAssumption ==
  \A m \in Manifest : /\ m.version \in Nat \ {0} /\ m.min \in Nat /\ m.max \in Nat
                      /\ m.capabilities \subseteq Capability
                      /\ m.secrets \subseteq Field /\ m.required \subseteq m.secrets
ASSUME BoundAssumption == MaxSecrets \in Nat /\ MaxOps \in Nat
ASSUME RegistryAssumption == \A file \in Files : \A e \in file : e[2] \in Manifest
\* an account that a listing repeats under one address overwrites the earlier
\* one (the session flushes before each lookup): a listing is what is left
ASSUME ListingAssumption ==
  \A listing \in Listing : /\ listing \subseteq Account
                           /\ \A a, b \in listing : a.email = b.email => a = b

VARIABLES
  registry,     \* the manifests of the loaded registry, or None
  instances,    \* rows of connector_instances
  executions,   \* connector_executions: status by instance and key
  facts,        \* how many facts the runs of a key have ingested
  shown,        \* capabilities the audit trail shows for each instance
  plans,        \* the upgrade plan each operator holds
  op,           \* the operation each session has loaded
  stored,       \* secrets stored so far
  ops           \* operations started so far

connectorVars == <<registry, instances, executions, facts, shown, plans, op, stored, ops, people>>

Row == [connector: {m.connector : m \in Manifest}, version: {m.version : m \in Manifest},
        enabled: BOOLEAN, test: {"none", "success", "failure"}, secrets: [Field -> 0 .. MaxSecrets],
        manifest: Manifest]   \* auxiliary: the manifest installed or applied last
ASSUME InstanceAssumption == None \notin Row /\ \A ms \in SUBSET Manifest : ms # None   \* neither is NULL
Status == {"none", "success", "failure", "error"}

ConnectorsTypeOK ==
  /\ registry = None \/ registry \subseteq Manifest
  /\ instances \in [Instance -> Row \cup {None}]
  /\ executions \in [Instance \X Key -> Status]
  /\ facts \in [Instance \X Key -> Nat]
  /\ shown \in [Instance -> SUBSET Capability]
  /\ stored \in 0 .. MaxSecrets /\ ops \in 0 .. MaxOps
  /\ PeopleTypeOK

-----------------------------------------------------------------------------
(* Manifests and the registry.                                               *)

\* validate_manifest and check_compatibility
Valid(m) == m.capabilities # {}
Compatible(m) == m.min <= CoreVersion /\ CoreVersion <= m.max

\* load_registry: no two entries for one version, one publisher per connector
Consistent(file) ==
  \A e, f \in file :
    /\ e[2].connector = f[2].connector => e[2].publisher = f[2].publisher
    /\ e # f => e[2].connector # f[2].connector \/ e[2].version # f[2].version

\* to_manifest and filter_compatible: what an operator can pick
Offered == {m \in registry : Compatible(m)}

LoadRegistry(file) ==
  /\ registry = None
  /\ Consistent(file)
  /\ registry' = {e[2] : e \in file}
  /\ UNCHANGED <<instances, executions, facts, shown, plans, op, stored, ops, people>>

-----------------------------------------------------------------------------
(* Install.                                                                  *)

\* _validate_config_against_schema: required secrets are given or kept
FieldsOK(m, given, kept) == m.required \subseteq given \cup kept

\* install_connector_instance: the fields given are encrypted and stored
InstallConnectorInstance(i, m, given) ==
  /\ instances[i] = None /\ shown[i] = {}
  /\ Valid(m) /\ Compatible(m)
  /\ given \subseteq m.secrets /\ FieldsOK(m, given, {})
  /\ stored < MaxSecrets /\ stored' = stored + 1
  /\ instances' = [instances EXCEPT ![i] =
       [connector |-> m.connector, version |-> m.version, enabled |-> FALSE, test |-> "none",
        secrets |-> [f \in Field |-> IF f \in given THEN stored' ELSE 0], manifest |-> m]]
  /\ shown' = [shown EXCEPT ![i] = m.capabilities]
  /\ UNCHANGED <<registry, executions, facts, plans, op, ops, people>>

\* install_from_registry
InstallFromRegistry(i, m, given) ==
  /\ registry # None /\ m \in Offered
  /\ InstallConnectorInstance(i, m, given)

-----------------------------------------------------------------------------
(* Operations on an instance: load, then commit.                             *)

Idle(s) == op[s] = None /\ ops < MaxOps
Load(s, r) == op' = [op EXCEPT ![s] = r] /\ ops' = ops + 1

\* a field that is left blank keeps its secret
Merged(secrets, given, id) == [f \in Field |-> IF f \in given THEN id ELSE secrets[f]]

\* update_connector_instance_config
UpdateConfig(s, i, m, given) ==
  /\ Idle(s) /\ instances[i] # None
  /\ m = instances[i].manifest /\ given \subseteq m.secrets
  /\ FieldsOK(m, given, {f \in Field : instances[i].secrets[f] # 0})
  /\ stored < MaxSecrets /\ stored' = stored + 1
  /\ Load(s, [kind |-> "write", instance |-> i, loaded |-> instances[i], new |-> {}, allowed |-> TRUE,
              after |-> [instances[i] EXCEPT !.secrets = Merged(@, given, stored')]])
  /\ UNCHANGED <<registry, instances, executions, facts, shown, plans, people>>

SetEnabled(s, i, enabled) ==
  /\ Idle(s) /\ instances[i] # None
  /\ Load(s, [kind |-> "write", instance |-> i, loaded |-> instances[i], new |-> {}, allowed |-> TRUE,
              after |-> [instances[i] EXCEPT !.enabled = enabled]])
  /\ UNCHANGED <<registry, instances, executions, facts, shown, plans, stored, people>>

\* test_connector_instance: whatever the test hook does, its outcome is recorded
TestConnection(s, i, outcome) ==
  /\ Idle(s) /\ instances[i] # None
  /\ Load(s, [kind |-> "write", instance |-> i, loaded |-> instances[i], new |-> {}, allowed |-> TRUE,
              after |-> [instances[i] EXCEPT !.test = outcome]])
  /\ UNCHANGED <<registry, instances, executions, facts, shown, plans, stored, people>>

\* remove_connector_instance: selects the ledger it will delete
Remove(s, i) ==
  /\ Idle(s) /\ instances[i] # None
  /\ Load(s, [kind |-> "remove", instance |-> i, seen |-> {k \in Key : executions[<<i, k>>] # "none"}])
  /\ UNCHANGED <<registry, instances, executions, facts, shown, plans, stored, people>>

-----------------------------------------------------------------------------
(* Upgrades.                                                                 *)

\* plan_connector_instance_upgrade, shown to the operator
Plan(s, i, from, to) ==
  /\ plans[s] = None /\ instances[i] # None
  /\ ops < MaxOps /\ ops' = ops + 1
  /\ registry # None /\ {from, to} \subseteq registry
  /\ from.connector = to.connector
  /\ to.connector = instances[i].connector
  /\ Valid(to) /\ Compatible(to)
  /\ plans' = [plans EXCEPT ![s] = [instance |-> i, from |-> from.version, to |-> to.version,
                                    capabilities |-> to.capabilities,
                                    new |-> to.capabilities \ from.capabilities]]
  /\ UNCHANGED <<registry, instances, executions, facts, shown, op, stored, people>>

\* Mutant of Matches: the version is compared only.
MatchesVersion(p, m) == m.version = p.to

\* the manifest is the one the plan reviewed
Matches(p, m) == m.version = p.to /\ m.capabilities = p.capabilities

\* the stale-plan guard, on the loaded row
FromExpected(p, r) == r.version = p.from

\* apply_connector_instance_upgrade
Apply(s, m, allow) ==
  /\ Idle(s) /\ plans[s] # None
  /\ LET p == plans[s]
         i == p.instance
     IN  /\ instances[i] # None
         /\ FromExpected(p, instances[i])
         /\ p.to < p.from => allow
         /\ m.connector = instances[i].connector
         /\ Matches(p, m)
         /\ Load(s, [kind |-> "write", instance |-> i, loaded |-> instances[i], new |-> p.new, allowed |-> allow,
                     after |-> [instances[i] EXCEPT !.version = m.version, !.manifest = m]])
  /\ plans' = [plans EXCEPT ![s] = None]
  /\ UNCHANGED <<registry, instances, executions, facts, shown, stored, people>>

-----------------------------------------------------------------------------
(* Runs.                                                                     *)

\* run_connector_instance up to the call of the provider: refused when
\* disabled, answered from the ledger when the key has an execution
Run(s, i, k) ==
  /\ Idle(s) /\ instances[i] # None /\ instances[i].enabled
  /\ executions[<<i, k>>] = "none"
  /\ Load(s, [kind |-> "run", instance |-> i, key |-> k, manifest |-> instances[i].manifest,
              writes |-> {}])
  /\ UNCHANGED <<registry, instances, executions, facts, shown, plans, stored, people>>

\* validate_result and _INGESTION_DISPATCH, which has no file.capture
Outcome(m, c) == IF c \in m.capabilities \ {"file.capture"} THEN "success" ELSE "error"

\* ingest_identity_population reads the register
IngestPopulation(s, listing) ==
  /\ op[s] # None /\ op[s].kind = "run" /\ op[s].writes = {}
  /\ "identity.population" \in op[s].manifest.capabilities
  /\ op' = [op EXCEPT ![s].writes = SyncDirectoryUsers(listing)]
  /\ UNCHANGED <<registry, instances, executions, facts, shown, plans, stored, ops, people>>

\* uq_connector_execution_instance_key and the ledger's foreign key
Accepted(i, k) == executions[<<i, k>>] = "none" /\ instances[i] # None

\* Mutant of RunEnds: the fact is committed before its execution is flushed.
RunEndsSeparately(s, outcome) ==
  LET i == op[s].instance
      k == op[s].key
  IN  /\ op[s].kind = "run"
      /\ executions' = IF Accepted(i, k) THEN [executions EXCEPT ![<<i, k>>] = outcome] ELSE executions
      /\ facts' = IF outcome = "success" THEN [facts EXCEPT ![<<i, k>>] = @ + 1] ELSE facts
      /\ UNCHANGED <<registry, instances, shown, plans, stored, people>>

\* the result is ingested and its execution recorded in one transaction, or a
\* failure is recorded alone after a rollback; a refused execution or person
\* takes everything with it
RunEnds(s, outcome) ==
  LET i == op[s].instance
      k == op[s].key
  IN  /\ op[s].kind = "run"
      /\ IF Accepted(i, k) /\ (outcome = "success" => ~PeopleConflict(op[s].writes))
           THEN /\ executions' = [executions EXCEPT ![<<i, k>>] = outcome]
                /\ IF outcome = "success"
                     THEN facts' = [facts EXCEPT ![<<i, k>>] = @ + 1] /\ PeopleCommit(op[s].writes)
                     ELSE UNCHANGED <<facts, people>>
           ELSE UNCHANGED <<executions, facts, people>>
      /\ UNCHANGED <<registry, instances, shown, plans, stored>>

-----------------------------------------------------------------------------
(* The register of people.                                                   *)

\* a page of the register, or a directory sync
EditPeople(s, writes) ==
  /\ Idle(s)
  /\ Load(s, [kind |-> "people", writes |-> writes])
  /\ UNCHANGED <<registry, instances, executions, facts, shown, plans, stored, people>>

PeopleEnds(s) ==
  /\ op[s].kind = "people"
  /\ IF PeopleConflict(op[s].writes) THEN UNCHANGED people ELSE PeopleCommit(op[s].writes)
  /\ UNCHANGED <<registry, instances, executions, facts, shown, plans, stored>>

-----------------------------------------------------------------------------
(* Commits.                                                                  *)

\* the ORM's UPDATE of the changed columns
Written(row, loaded, after) ==
  [c \in DOMAIN row |-> IF after[c] # loaded[c] THEN after[c] ELSE row[c]]

\* an UPDATE of a row that is gone fails
WriteEnds(s) ==
  LET i == op[s].instance
  IN  /\ op[s].kind = "write"
      /\ IF instances[i] # None
           THEN /\ instances' = [instances EXCEPT ![i] = Written(@, op[s].loaded, op[s].after)]
                /\ shown' = [shown EXCEPT ![i] = @ \cup op[s].new]
           ELSE UNCHANGED <<instances, shown>>
      /\ UNCHANGED <<registry, executions, facts, plans, stored, people>>

\* an execution the removal has not seen keeps the instance
RemoveEnds(s) ==
  LET i == op[s].instance
  IN  /\ op[s].kind = "remove"
      /\ IF {k \in Key : executions[<<i, k>>] # "none"} \subseteq op[s].seen
           THEN /\ instances' = [instances EXCEPT ![i] = None]
                /\ executions' = [e \in Instance \X Key |-> IF e[1] = i THEN "none" ELSE executions[e]]
           ELSE UNCHANGED <<instances, executions>>
      /\ UNCHANGED <<registry, facts, shown, plans, stored, people>>

Finish(s) ==
  /\ op[s] # None
  /\ \/ \E c \in Capability : /\ op[s].kind = "run"
                              /\ c = "identity.population" => op[s].writes # {}
                              /\ RunEnds(s, Outcome(op[s].manifest, c))
     \/ RunEnds(s, "failure")
     \/ WriteEnds(s)
     \/ PeopleEnds(s)
     \/ RemoveEnds(s)
  /\ op' = [op EXCEPT ![s] = None]
  /\ UNCHANGED ops

-----------------------------------------------------------------------------
ConnectorsInit ==
  /\ registry = None
  /\ instances = [i \in Instance |-> None]
  /\ executions = [e \in Instance \X Key |-> "none"]
  /\ facts = [e \in Instance \X Key |-> 0]
  /\ shown = [i \in Instance |-> {}]
  /\ plans = [s \in Session |-> None]
  /\ op = [s \in Session |-> None]
  /\ stored = 0 /\ ops = 0
  /\ PeopleInit

ConnectorsNext ==
  \/ \E file \in Files : LoadRegistry(file)
  \/ \E i \in Instance, m \in Manifest, given \in SUBSET Field : InstallFromRegistry(i, m, given)
  \/ \E s \in Session :
       \/ \E i \in Instance, m \in Manifest, given \in SUBSET Field : UpdateConfig(s, i, m, given)
       \/ \E i \in Instance, enabled \in BOOLEAN : SetEnabled(s, i, enabled)
       \/ \E i \in Instance, outcome \in {"success", "failure"} : TestConnection(s, i, outcome)
       \/ \E i \in Instance : Remove(s, i)
       \/ \E i \in Instance, from, to \in Manifest : Plan(s, i, from, to)
       \/ \E m \in Manifest, allow \in BOOLEAN : Apply(s, m, allow)
       \/ \E i \in Instance, k \in Key : Run(s, i, k)
       \/ \E listing \in Listing : IngestPopulation(s, listing) \/ EditPeople(s, SyncDirectoryUsers(listing))
       \/ \E e \in Address, n \in Name : EditPeople(s, CreatePerson(e, n, "unknown"))
       \/ \E p \in Person, n \in Name : p \in Known /\ EditPeople(s, UpdatePerson(p, n, "departed"))
       \/ \E p \in Person : Redactable(p) /\ EditPeople(s, RedactPersonPii(p))
       \/ Finish(s)

ConnectorsSpec == ConnectorsInit /\ [][ConnectorsNext]_connectorVars

-----------------------------------------------------------------------------
(* Properties.                                                               *)

\* The ledger and the facts agree, whatever runs, removals and failures race:
\* a key that succeeded ingested exactly one fact, every other key none, and
\* no execution outlives its instance (run_connector_instance's promise about
\* repeated keys and failures).
FactsMatchLedger ==
  \A i \in Instance, k \in Key :
    IF instances[i] = None THEN executions[<<i, k>>] = "none" /\ facts[<<i, k>>] <= 1
    ELSE facts[<<i, k>>] = IF executions[<<i, k>>] = "success" THEN 1 ELSE 0

\* An upgrade was reviewed, also when plans are stale and applies race: every
\* capability of the new manifest was shown at the installation or by an applied
\* plan (the audit trail "preserves exactly what was shown before the change"; it
\* rests on the registry naming one manifest per version), and a step back to an
\* older version is an acknowledged downgrade or was loaded before another
\* upgrade committed (apply_connector_instance_upgrade).
UpgradesReviewed ==
  [][\A i \in Instance :
       instances[i] # None /\ instances'[i] # None /\ instances'[i].manifest # instances[i].manifest =>
         /\ instances'[i].manifest.capabilities \subseteq shown'[i]
         /\ instances'[i].version < instances[i].version =>
              \E s \in Session : /\ op[s] # None /\ op'[s] = None
                                 /\ op[s].allowed \/ op[s].loaded.version # instances[i].version]_connectorVars

\* Once a person is redacted, the address does not come back to the row: syncs,
\* runs and edits that loaded the row before the redaction commit after it, and
\* still write no address (redact_person_pii, sync_directory_users, update_person).
RedactedAddressStaysGone ==
  [][\A p \in RedactedPeople :
       people'[p] # None /\ people'[p].redacted /\ people'[p].email = p]_connectorVars
=============================================================================
