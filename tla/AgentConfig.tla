------------------------------ MODULE AgentConfig -----------------------------
(***************************************************************************)
(* The configuration file of the agent: which ones LoadConfig accepts, and *)
(* whose identity the parts of the agent act under. A configuration is     *)
(* reduced to the presence of what these decisions look at.                *)
(***************************************************************************)
EXTENDS FiniteSets, Naturals

CONSTANT ConfigFiles  \* the configuration files of the instance

Configurations ==
  [wellFormed : BOOLEAN,  \* the ids, the location, the cloud and the log level
   arc : BOOLEAN,         \* Arc is enabled
   sp : {"none", "partial", "full"},         \* fields of the service principal
   mi : BOOLEAN,          \* the key managedIdentity is there, whatever is in it
   token : {"none", "malformed", "good"},    \* the bootstrap token
   server : BOOLEAN, ca : BOOLEAN]           \* serverURL and caCertData are given

ASSUME ConfigFilesAssumption == ConfigFiles \subseteq Configurations

IsARCEnabled(c) == c.arc
IsSPConfigured(c) == c.sp = "full"
IsMIConfigured(c) == c.mi
IsBootstrapTokenConfigured(c) == c.token # "none"

Methods(c) ==
  {m \in {"arc", "sp", "mi", "token"} :
     CASE m = "arc" -> IsARCEnabled(c)
       [] m = "sp" -> IsSPConfigured(c)
       [] m = "mi" -> IsMIConfigured(c)
       [] m = "token" -> IsBootstrapTokenConfigured(c)}

\* MUTANT of Valid: more than one method is let through.
ValidIfAny(c) == c.wellFormed /\ Methods(c) # {}

\* A token needs the server in the file: without an identity in Azure nothing
\* can be asked for it.
ValidToken(c) == c.token = "good" /\ c.server /\ c.ca

\* Validate. (Without any targetCluster it does not return: it dereferences nil.)
Valid(c) ==
  /\ c.wellFormed
  /\ Cardinality(Methods(c)) = 1
  /\ IsBootstrapTokenConfigured(c) => ValidToken(c)

\* UserCredential, of every call the agent makes to Azure but those of Arc.
UserCredential(c) ==
  CASE IsSPConfigured(c) -> "sp"
    [] ~IsSPConfigured(c) /\ IsMIConfigured(c) -> "mi"
    [] OTHER -> "cli"

\* What startKubelet gives the kubelet to authenticate with, in the order of its
\* cases; "none" is its error.
KubeletCredential(c) ==
  IF IsARCEnabled(c) THEN "arc"
  ELSE IF IsSPConfigured(c) THEN "sp"
  ELSE IF IsMIConfigured(c) THEN "mi"
  ELSE IF IsBootstrapTokenConfigured(c) THEN "token"
  ELSE "none"

\* IsCompleted of the step that asks the cluster for its server.
KnowsServer(c) == c.server /\ c.ca
===============================================================================
