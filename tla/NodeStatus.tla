------------------------------ MODULE NodeStatus ------------------------------
(***************************************************************************)
(* The status snapshot /run/aks-flex-node/status.json (pkg/status) as a    *)
(* value, and the three functions that decide on it or rewrite it.         *)
(*                                                                         *)
(* The agent's loops talk to each other only through this file: the status *)
(* loop and drift remediation write it, the health check and drift         *)
(* detection read it.                                                      *)
(***************************************************************************)
EXTENDS Naturals

CONSTANTS
  Versions,  \* Kubernetes versions, ordered like their release order
  Minor      \* the major.minor of each version, as one number

ASSUME VersionsAssumption == Versions \subseteq Nat \ {0}

ASSUME MinorAssumption ==
  /\ Minor \in [Versions -> Nat]
  /\ \A v, w \in Versions : v <= w => Minor[v] <= Minor[w]

\* The "unknown" (or empty) version: a version command that failed, or no binary.
Unknown == 0

KnownOrNot == Versions \union {Unknown}

(***************************************************************************)
(* version : KubeletVersion; running : KubeletRunning; host : the other    *)
(* signals of NeedsBootstrap (runc version known and, when Arc is enabled, *)
(* Arc connected); fresh : LastUpdated is less than 5 minutes ago.         *)
(***************************************************************************)
Snapshot == [present : BOOLEAN, version : KnownOrNot, running : BOOLEAN,
             host : BOOLEAN, fresh : BOOLEAN]

\* No file on disk; also the empty NodeStatus{} the Mark functions start from.
NoSnapshot == [present |-> FALSE, version |-> Unknown, running |-> FALSE,
               host |-> FALSE, fresh |-> FALSE]

\* MUTANT of NeedsBootstrap: the kubelet's state is not asked for.
NeedsBootstrapButKubelet(s) ==
  ~s.present \/ ~s.host \/ ~s.fresh \/ s.version = Unknown

\* What the health check concludes from the file.
NeedsBootstrap(s) ==
  \/ ~s.present
  \/ ~s.running
  \/ ~s.host
  \/ ~s.fresh
  \/ s.version = Unknown

\* The read-modify-write of a failed kubelet upgrade.
MarkKubeletUnhealthy(s) ==
  [s EXCEPT !.present = TRUE, !.running = FALSE, !.version = Unknown, !.fresh = TRUE]

\* The read-modify-write of a successful kubelet upgrade to v.
MarkKubeletHealthyAfterUpgrade(s, v) ==
  [s EXCEPT !.present = TRUE, !.running = TRUE, !.version = v, !.fresh = TRUE]

\* MUTANT of Drifted: the comparison is the wrong way round.
DriftedBackwards(current, wanted) ==
  /\ current # Unknown
  /\ Minor[current] > Minor[wanted]

\* compareMajorMinor: patch releases do not count.
OlderMinor(v, w) == Minor[v] < Minor[w]

\* KubernetesVersionDetector.Detect: only an older major.minor is drift.
Drifted(current, wanted) == current # Unknown /\ OlderMinor(current, wanted)

===============================================================================
