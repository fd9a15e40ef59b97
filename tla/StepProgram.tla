----------------------------- MODULE StepProgram ------------------------------
(***************************************************************************)
(* The body of one step of a procedure: a program of calls, each of which  *)
(* may fail, with or without its effect (a time-out after the call was     *)
(* carried out). `pc` is the label of the next call; a step starts at its  *)
(* own first label and ends at "ok" or, when it returns an error, at       *)
(* "failed". Between two calls the process may be killed, so every call    *)
(* that leaves a trace is a label of its own.                              *)
(***************************************************************************)
EXTENDS Naturals

CONSTANT MaxFaults  \* bound: how many calls fail in a behaviour

ASSUME MaxFaultsAssumption == MaxFaults \in Nat

VARIABLES
  pc,     \* the next call
  faults  \* how many calls have failed

Ends == {"ok", "failed"}

Succeeds == UNCHANGED faults
Fails == faults < MaxFaults /\ faults' = faults + 1

Goto(label) == pc' = label

\* The call at `from` does `effect` and leads to `next`; if it fails, with or
\* without the effect, the step goes on at `onError`.
Attempt(from, effect, nothing, next, onError) ==
  /\ pc = from
  /\ \/ Succeeds /\ effect /\ Goto(next)
     \/ Fails /\ (effect \/ nothing) /\ Goto(onError)

\* The usual call: its error is the error of the step.
Call(from, effect, nothing, next) == Attempt(from, effect, nothing, next, "failed")

\* A test or a local decision, which does not fail.
Decide(from, next) == pc = from /\ Goto(next) /\ UNCHANGED faults
===============================================================================
