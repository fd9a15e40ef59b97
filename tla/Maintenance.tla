----------------------------- MODULE Maintenance -----------------------------
(***************************************************************************)
(* What an upgrade promises about the schedulability of its node, without  *)
(* clients, credentials, refusals or what a call reads before it writes: a *)
(* run cordons only a node it found schedulable, answers for that cordon   *)
(* until it is over, takes it back after the upgrade or after a drain that *)
(* failed, and never touches the mark of a node it found unschedulable.    *)
(* Anybody else may change the mark at any time.                           *)
(***************************************************************************)

VARIABLES
  phase,  \* what the run does; "ok" and "failed": what it came to; "none": no run
  mark,   \* who made the node unschedulable
  own     \* the run answers for a cordon of its own

maintenance == <<phase, mark, own>>

\* The phases in which there may be a cordon to answer for.
Owning == {"drain", "undo", "upgrade", "uncordon", "retry"}

Init == phase = "none" /\ mark = "nobody" /\ own = FALSE

Begin == phase = "none" /\ phase' = "isCordoned" /\ UNCHANGED <<mark, own>>

Ask ==
  /\ phase = "isCordoned"
  /\ phase' = IF mark = "nobody" THEN "cordon" ELSE "drain"
  /\ UNCHANGED <<mark, own>>

\* A mark that is there is left as it is.
MayMark == UNCHANGED mark \/ (mark = "nobody" /\ mark' = "agent")
MayUnmark == UNCHANGED mark \/ mark' = "nobody"

Cordon == phase = "cordon" /\ phase' = "drain" /\ own' = TRUE /\ MayMark

Drain == phase = "drain" /\ phase' = "upgrade" /\ UNCHANGED <<mark, own>>

Upgrade ==
  /\ phase = "upgrade"
  /\ phase' = IF own THEN "uncordon" ELSE "ok"
  /\ UNCHANGED <<mark, own>>

\* Uncordoning that succeeded has left no mark of the agent.
Uncordon ==
  /\ phase = "uncordon" /\ phase' = "ok" /\ own' = FALSE
  /\ MayUnmark /\ mark' # "agent"

\* A call that failed may have written what it was to write.
Fail ==
  \/ phase = "cordon" /\ phase' = "failed" /\ MayMark /\ UNCHANGED own
  \/ phase = "drain" /\ own /\ phase' = "undo" /\ UNCHANGED <<mark, own>>
  \/ phase = "uncordon" /\ phase' = "retry" /\ MayUnmark /\ UNCHANGED own
  \/ /\ phase \in {"isCordoned", "upgrade"} \/ (phase = "drain" /\ ~own)
     /\ phase' = "failed" /\ own' = FALSE /\ UNCHANGED mark

\* The run has failed whatever comes of the last attempt.
LastAttempt ==
  /\ phase \in {"undo", "retry"} /\ phase' = "failed" /\ own' = FALSE
  /\ MayUnmark

\* The run is over, or the agent is killed in it: what it owned is forgotten.
Forget == phase # "none" /\ phase' = "none" /\ own' = FALSE /\ UNCHANGED mark

Operator ==
  /\ mark' = IF mark = "nobody" THEN "operator" ELSE "nobody"
  /\ UNCHANGED <<phase, own>>

Next ==
  \/ Begin \/ Ask \/ Cordon \/ Drain \/ Upgrade \/ Uncordon \/ Fail \/ LastAttempt
  \/ Forget \/ Operator

Spec == Init /\ [][Next]_maintenance
===============================================================================
