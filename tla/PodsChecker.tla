----------------------------- MODULE PodsChecker -----------------------------
(***************************************************************************)
(* opensearch_pods_checker.py: the integration tests wait, for at most    *)
(* `timeout` seconds, until the stateful sets of the cluster are ready and *)
(* its health is green (or yellow, for an external cluster).               *)
(*                                                                         *)
(* Time is counted in turns of the loop, each of which sleeps 10 s; the   *)
(* readiness of the stateful sets and the health the cluster answers are   *)
(* chosen afresh at each request, as the cluster may change at any time.   *)
(* requests.get is called without a timeout, so it may never return.      *)
(***************************************************************************)
EXTENDS Integers

CONSTANTS
  Externals,   \* the values EXTERNAL_OPENSEARCH may hold
  Deadline     \* `timeout`, in turns of the loop

VARIABLES
  kpc,         \* the point of the script it is at
  external,    \* EXTERNAL_OPENSEARCH
  turns,       \* turns of the loop so far (time.time() - start_time)
  exitCode     \* the code passed to exit, or -1

pcVars == <<kpc, external, turns, exitCode>>

PCInit == kpc = "init" /\ external \in Externals /\ turns = 0 /\ exitCode = -1

Exit(code) == kpc' = "exit" /\ exitCode' = code

\* Lines 37-40: PlatformLibrary() may raise, which exits with 1.
PCStart ==
  /\ kpc = "init"
  /\ \/ kpc' = "loop" /\ UNCHANGED exitCode
     \/ Exit(1)
  /\ UNCHANGED <<external, turns>>

\* Mutant: start_time is taken again in every turn.
PCLoop_restart_clock ==
  /\ kpc = "loop"
  /\ \/ turns < Deadline /\ turns' = 1 /\ UNCHANGED exitCode
        /\ kpc' = IF external THEN "health" ELSE "sets"
     \/ turns >= Deadline /\ Exit(1) /\ UNCHANGED turns
  /\ UNCHANGED external

\* Lines 46-47 and 72: the deadline, then a sleep of 10 s.
PCLoop ==
  /\ kpc = "loop"
  /\ \/ turns < Deadline /\ turns' = turns + 1 /\ UNCHANGED exitCode
        /\ kpc' = IF external THEN "health" ELSE "sets"
     \/ turns >= Deadline /\ Exit(1) /\ UNCHANGED turns
  /\ UNCHANGED external

(***************************************************************************)
(* Lines 49-61: the stateful sets are listed and read one by one; the      *)
(* first one not ready, or a request that raises, starts the next turn.   *)
(***************************************************************************)
PCSets ==
  /\ kpc = "sets"
  /\ kpc' \in {"loop", "health"}
  /\ UNCHANGED <<external, turns, exitCode>>

(***************************************************************************)
(* Lines 62-71: the health request.  It may never return; an exception,   *)
(* another status code or a health not good enough starts the next turn;  *)
(* green, or yellow for an external cluster, exits with 0.                 *)
(***************************************************************************)
PCHealth ==
  /\ kpc = "health"
  /\ \E answer \in {"hang", "error", "red", "yellow", "green"} :
       \/ answer = "hang" /\ kpc' = "hung" /\ UNCHANGED exitCode
       \/ answer = "green" /\ Exit(0)
       \/ answer = "yellow" /\ external /\ Exit(0)
       \/ answer = "yellow" /\ ~external /\ kpc' = "loop" /\ UNCHANGED exitCode
       \/ answer \in {"error", "red"} /\ kpc' = "loop" /\ UNCHANGED exitCode
  /\ UNCHANGED <<external, turns>>

PCNext == PCStart \/ PCLoop \/ PCSets \/ PCHealth

\* The checker is one sequential process that keeps going while it can.
PCFairness == WF_pcVars(PCNext)

-----------------------------------------------------------------------------
(***************************************************************************)
(* Once started, the checker exits, with 0 or 1, by the deadline of the   *)
(* loop, unless its health request is never answered: not-ready stateful  *)
(* sets, failed requests and a red or yellow cluster only delay it.        *)
(***************************************************************************)
CheckerEndsUnlessHung == (kpc # "init") ~> (kpc \in {"exit", "hung"})

=============================================================================
