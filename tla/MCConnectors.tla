---------------------------- MODULE MCConnectors ----------------------------
(***************************************************************************)
(* What comes in from other systems: a policy's files and its Drive link,  *)
(* or connectors and the directory of people.  The two share no table, so  *)
(* each behaviour is one of either: part says which, and the other one     *)
(* stays as it started.                                                    *)
(*                                                                         *)
(* Manifests and registry files: three versions of one connector, the      *)
(* second one in two forms, and one that needs a newer core.               *)
(***************************************************************************)
EXTENDS Connectors, PolicyDrive, TLC

CONSTANTS s1, s2, a1, pdf, docx, d1, f1, f2

V1 == [connector |-> "aws", publisher |-> "p", version |-> 1, capabilities |-> {"evidence.collect"},
       secrets |-> {"key", "extra"}, required |-> {"key"}, min |-> 1, max |-> 2]
V2 == [V1 EXCEPT !.version = 2, !.capabilities = {"evidence.collect", "file.capture"}]
V2Wide == [V2 EXCEPT !.capabilities = {"evidence.collect", "file.capture", "identity.population"}]
V3 == [V2 EXCEPT !.version = 3, !.capabilities = {"evidence.collect", "identity.population"}]
V4 == [V1 EXCEPT !.version = 4, !.min = 2]

MCManifest == {V1, V2, V2Wide, V3, V4}
MCFiles == {{<<1, V1>>, <<2, V2>>, <<3, V3>>, <<4, V4>>},
            {<<1, V1>>, <<2, V2>>, <<3, V2Wide>>, <<4, V3>>}}
MCCapability == {"evidence.collect", "file.capture", "identity.population"}
MCField == {"key", "extra"}
MCAccount == {[email |-> a1, name |-> "Ada", external |-> "x", suspended |-> FALSE]}
MCListing == {MCAccount}

VARIABLE part

\* ext is a local that no step reads before it has assigned it: one initial
\* value stands for all.
PartsInit ==
  /\ ConnectorsInit /\ DriveInit
  /\ ext = [s \in Session |-> pdf]
  /\ part \in {"connectors", "files"}

PartsNext ==
  \/ part = "connectors" /\ ConnectorsNext /\ UNCHANGED <<allVars, part>>
  \/ part = "files" /\ DriveNext /\ UNCHANGED <<connectorVars, part>>

PartsSpec == PartsInit /\ [][PartsNext]_<<connectorVars, allVars, part>>

Symmetry == Permutations(Session) \cup Permutations(Person) \cup Permutations(Ext) \cup Permutations(File)
=============================================================================
