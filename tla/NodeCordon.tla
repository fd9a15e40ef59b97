------------------------------ MODULE NodeCordon ------------------------------
(***************************************************************************)
(* The calls an upgrade makes to the API server, in detail: with whose     *)
(* credentials cordon, drain and uncordon are made, and what is done when  *)
(* those have not the right. The client is the cached one; a new one takes *)
(* the credentials of the cluster's administrator from Azure or, failing   *)
(* that, those of the kubelet on disk. `AgentDaemon` has each of the calls *)
(* as one step.                                                            *)
(***************************************************************************)
EXTENDS StepProgram

VARIABLES
  client,    \* the cached client: "none", "kubelet", "admin" or "stale", an
             \* administrator's whose certificate is no longer accepted
  rights,    \* what the kubelet's credentials are good for; {}: there are none
  op,        \* the call of the upgrade that is under way
  cordonedBy,     \* who made the node unschedulable
  seen,           \* was it so when the call read it?
  uncordonAfter,  \* this run cordoned it
  hurt       \* history: a request of this run failed, or its certificate expired; asking
             \* for a client does not count

cordonVars == <<client, rights, op, cordonedBy, seen, uncordonAfter, hurt>>

NodeOps == {"isCordoned", "cordon", "drain", "undo", "upgrade", "uncordon", "retry"}

CordonPCs == {"ncClient", "ncLastResort", "ncGet", "ncWrite", "ncAdmin", "ncGetAgain",
              "ncWriteAgain", "ncUpgrade"}

CordonTypeOK ==
  /\ client \in {"none", "kubelet", "admin", "stale"}
  /\ rights \subseteq {"get", "write", "drain"}
  /\ op \in NodeOps \union {"none"}
  /\ cordonedBy \in {"nobody", "agent", "operator"}
  /\ seen \in BOOLEAN /\ uncordonAfter \in BOOLEAN /\ hurt \in BOOLEAN

CordonInit ==
  /\ client = "none" /\ op = "none" /\ cordonedBy = "nobody"
  /\ seen = FALSE /\ uncordonAfter = FALSE /\ hurt = FALSE
  /\ rights \in {{}, {"get"}, {"get", "write"}, {"get", "write", "drain"}}

\* A maintenance object of its own, without a client, for each plan.
BeginMaintenance ==
  /\ pc' = "ncClient" /\ op' = "isCordoned" /\ client' = "none"
  /\ uncordonAfter' = FALSE /\ hurt' = FALSE /\ UNCHANGED <<rights, cordonedBy, seen>>

-----------------------------------------------------------------------------
(* The order of the calls, in cordonAndDrainExecutor, uncordonExecutor and *)
(* executeUpgradePlan.                                                     *)

Proceed(call, becomes) ==
  /\ op' = call /\ uncordonAfter' = becomes
  /\ Goto(IF call = "upgrade" THEN "ncUpgrade" ELSE "ncClient")

Returns(result) == op' = "none" /\ Goto(result) /\ UNCHANGED uncordonAfter

\* MUTANT of AfterUpgrade: the node is left cordoned.
AfterUpgradeReturns == Returns("ok")

\* Only what this run cordoned is uncordoned.
AfterUpgrade == IF uncordonAfter THEN Proceed("uncordon", TRUE) ELSE Returns("ok")

\* What follows a call that succeeded.
Done ==
  CASE op = "isCordoned" -> IF cordonedBy = "nobody" THEN Proceed("cordon", FALSE)
                            ELSE Proceed("drain", FALSE)
    [] op = "cordon"     -> Proceed("drain", TRUE)
    [] op = "drain"      -> Proceed("upgrade", uncordonAfter)
    [] op = "upgrade"    -> AfterUpgrade
    [] op = "uncordon"   -> Returns("ok")
    [] OTHER             -> Returns("failed")  \* "undo" and "retry"

\* MUTANT of GivenUp: after a drain that failed the node is uncordoned whoever cordoned it.
GivenUpUndoes ==
  CASE op = "drain" -> Proceed("undo", TRUE)
    [] op = "uncordon" -> Proceed("retry", TRUE)
    [] OTHER -> Returns("failed")

\* What follows one that failed: only a drain is undone, only uncordoning is
\* tried again.
GivenUp ==
  CASE op = "drain" /\ uncordonAfter -> Proceed("undo", TRUE)
    [] op = "uncordon" -> Proceed("retry", TRUE)
    [] OTHER -> Returns("failed")

\* Stopping, downloading and starting the kubelet. A node whose upgrade failed
\* is left cordoned.
Upgrade ==
  /\ pc = "ncUpgrade"
  /\ \/ Succeeds /\ Done /\ UNCHANGED hurt
     \/ Fails /\ GivenUp /\ hurt' = TRUE
  /\ UNCHANGED <<client, rights, cordonedBy, seen>>

-----------------------------------------------------------------------------
(* One call.                                                               *)

AfterClient == IF op = "drain" THEN "ncWrite" ELSE "ncGet"

\* clientset: the cached client, an administrator's, or the kubelet's.
GetClient ==
  /\ pc = "ncClient"
  /\ \/ client # "none" /\ Succeeds /\ Goto(AfterClient) /\ UNCHANGED client
     \/ client = "none" /\ Succeeds /\ client' = "admin" /\ Goto(AfterClient)
     \/ /\ client = "none" /\ Fails
        /\ IF rights # {} THEN client' = "kubelet" /\ Goto(AfterClient)
           ELSE Goto("ncLastResort") /\ UNCHANGED client
  /\ UNCHANGED <<rights, op, cordonedBy, seen, uncordonAfter, hurt>>

\* No kubeconfig either: the administrator's is asked for once more.
LastResort ==
  /\ pc = "ncLastResort"
  /\ \/ Succeeds /\ client' = "admin" /\ Goto(AfterClient) /\ UNCHANGED <<op, uncordonAfter, hurt>>
     \/ Fails /\ GivenUp /\ hurt' = TRUE /\ UNCHANGED client
  /\ UNCHANGED <<rights, cordonedBy, seen>>

Denied(right) == client = "stale" \/ (client = "kubelet" /\ right \notin rights)

\* The node is read first. A refusal here is the end of the call: it is not
\* among the errors that are tried again.
GetNode(from, next) ==
  /\ pc = from
  /\ \/ /\ Succeeds /\ ~Denied("get")
        /\ seen' = (cordonedBy # "nobody")
        /\ IF op = "isCordoned" THEN Done ELSE Goto(next) /\ UNCHANGED <<op, uncordonAfter>>
        /\ UNCHANGED hurt
     \/ Succeeds /\ Denied("get") /\ GivenUp /\ UNCHANGED <<seen, hurt>>
     \/ Fails /\ GivenUp /\ hurt' = TRUE /\ UNCHANGED seen
  /\ UNCHANGED <<client, rights, cordonedBy>>

\* RunCordonOrUncordon writes nothing if the node was read as it should be;
\* cordoning one the operator has cordoned since changes nothing.
Writes ==
  cordonedBy' = CASE op = "cordon" /\ ~seen /\ cordonedBy = "nobody" -> "agent"
                  [] op \in {"undo", "uncordon", "retry"} /\ seen    -> "nobody"
                  [] OTHER -> cordonedBy

\* MUTANT of OnDenial: the refusal is the result.
OnDenialGivesUp == GivenUp

\* shouldRetryWithAdmin.
OnDenial == Goto("ncAdmin") /\ UNCHANGED <<op, uncordonAfter>>

WriteNode(from, denied) ==
  /\ pc = from
  /\ LET right == IF op = "drain" THEN "drain" ELSE "write"
     IN  \/ Succeeds /\ ~Denied(right) /\ Writes /\ Done /\ UNCHANGED hurt
         \/ Succeeds /\ Denied(right) /\ denied /\ UNCHANGED <<cordonedBy, hurt>>
         \/ /\ Fails /\ ~Denied(right) /\ (Writes \/ UNCHANGED cordonedBy)
            /\ GivenUp /\ hurt' = TRUE
  /\ UNCHANGED <<client, rights, seen>>

\* forceAdminClientset, which replaces the cached client.
GetAdmin ==
  /\ pc = "ncAdmin"
  /\ \/ /\ Succeeds /\ client' = "admin"
        /\ Goto(IF op = "drain" THEN "ncWriteAgain" ELSE "ncGetAgain")
        /\ UNCHANGED <<op, uncordonAfter, hurt>>
     \/ Fails /\ GivenUp /\ hurt' = TRUE /\ UNCHANGED client
  /\ UNCHANGED <<rights, cordonedBy, seen>>

CordonStep ==
  \/ GetClient \/ LastResort \/ GetNode("ncGet", "ncWrite") \/ WriteNode("ncWrite", OnDenial)
  \/ GetAdmin \/ GetNode("ncGetAgain", "ncWriteAgain") \/ WriteNode("ncWriteAgain", GivenUp)
  \/ Upgrade

-----------------------------------------------------------------------------
(* Around it.                                                              *)

\* The cluster's certificates are rotated while the administrator's is in use:
\* the next request may fail.
CertificatesRotate ==
  /\ client = "admin" /\ client' = "stale" /\ hurt' = TRUE
  /\ UNCHANGED <<pc, faults, rights, op, cordonedBy, seen, uncordonAfter>>

OperatorMarks ==
  /\ cordonedBy' = IF cordonedBy = "nobody" THEN "operator" ELSE "nobody"
  /\ UNCHANGED <<pc, faults, client, rights, op, seen, uncordonAfter, hurt>>

CordonAbandoned == op' = "none" /\ client' = "none"
                   /\ UNCHANGED <<rights, cordonedBy, seen, uncordonAfter, hurt>>
===============================================================================
