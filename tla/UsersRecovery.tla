---------------------------- MODULE UsersRecovery ----------------------------
(***************************************************************************)
(* recover_users of restore.py: the poller that asks the DBaaS aggregator  *)
(* to restore user passwords and follows the DBaaS adapter's recovery      *)
(* state until it is done or failed.                                       *)
(*                                                                         *)
(* The poller is one sequential process; ppc is the point of the function *)
(* it is at.  The two services are its environment: adapter is the         *)
(* adapter's restore-password state, which a successful aggregator POST    *)
(* sets to running and which later ends as done or failed.  Each request   *)
(* of the poller has the outcomes the requests library gives it: a 200,    *)
(* another status code, a ConnectionError, another RequestException (an    *)
(* InvalidSchema for an address without http://, a ChunkedEncodingError), *)
(* or no answer at all (the clients of dbaas_client.py set no timeout).  Time is counted only       *)
(* inside the aggregator retry loop, where the code measures it, in units  *)
(* of the retry interval's granularity.                                    *)
(***************************************************************************)
EXTENDS Naturals

CONSTANTS
  Environments, \* the service addresses and database id the poller may start with
  Timeout,     \* TIMEOUT, in time units
  Interval,    \* INTERVAL, in time units
  MaxErrors,   \* bound on the failed answers the services give in a run
  CanHang      \* whether a request may never be answered

States == {"idle", "running", "done", "failed"}

VARIABLES
  env,           \* [adapter, aggregator, dbId]: the environment variables read
  ppc,           \* the point of recover_users the poller is at
  state,         \* the local variable state
  restoreFailed, \* the local variable restore_failed
  elapsed,       \* time.time() - start_time in the retry loop
  result,        \* how the function ended
  adapter,       \* the adapter's restore-password state
  fresh,         \* the adapter's state was reached while the poller ran
  errors         \* failed answers given so far

vars == <<env, ppc, state, restoreFailed, elapsed, result, adapter, fresh, errors>>

Init ==
  /\ env \in Environments
  /\ ppc = "entry"
  /\ state = "idle"
  /\ restoreFailed = FALSE
  /\ elapsed = 0
  /\ result = "none"
  /\ adapter \in States
  /\ fresh = FALSE
  /\ errors = 0

\* The outcomes of send_request (requests.request without a timeout); a
\* failed one is counted against MaxErrors.
Answers == {"200", "500", "conn_error", "other_error"} \cup (IF CanHang THEN {"hang"} ELSE {})
Answer(a) == a = "200" \/ errors < MaxErrors
CountAnswer(a) == errors' = IF a = "200" THEN errors ELSE errors + 1

Finish(r) == ppc' = "finished" /\ result' = r

(***************************************************************************)
(* get_url of both clients (dbaas_client.py): an unset or empty address    *)
(* gives None, written "None".  send_request then computes None + path, a  *)
(* TypeError that no except clause of recover_users catches.              *)
(***************************************************************************)
get_url(host) == IF host = "" THEN "None" ELSE host
Sendable(host) == get_url(host) # "None"

\* The configuration the environment amounts to, as spec.md 4.4 names it:
\* off without a database id, without a service address, or on.
Configuration(e) ==
  CASE e.dbId = "" -> "disabled"
    [] e.adapter = "" \/ e.aggregator = "" -> "no_url"
    [] OTHER -> "enabled"

config == Configuration(env)
Configs == {Configuration(e) : e \in Environments}

(***************************************************************************)
(* Lines 284-291: the feature is off when a client's url or the database  *)
(* id is the empty string.  get_url returns None, not "", for an unset     *)
(* address, so only a missing database id turns the feature off; without  *)
(* an address the script goes on to the request that uses it.             *)
(***************************************************************************)
Entry ==
  /\ ppc = "entry"
  /\ IF get_url(env.adapter) = "" \/ get_url(env.aggregator) = "" \/ env.dbId = ""
     THEN Finish("disabled")
     ELSE ppc' = "get0" /\ UNCHANGED result
  /\ UNCHANGED <<env, state, restoreFailed, elapsed, adapter, fresh, errors>>

\* Mutant: the first answer is taken as the state without mapping it to idle.
InitialGet_keep_text ==
  /\ ppc = "get0"
  /\ \/ ~Sendable(env.adapter) /\ Finish("crashed") /\ UNCHANGED <<state, errors>>
     \/ Sendable(env.adapter)
        /\ \E a \in Answers : Answer(a) /\ CountAnswer(a) /\
          \/ a \in {"conn_error", "other_error"} /\ Finish("crashed") /\ UNCHANGED state
          \/ a = "hang" /\ ppc' = "hung" /\ UNCHANGED <<state, result>>
          \/ a \in {"200", "500"} /\ ppc' = "loop" /\ UNCHANGED result
             /\ state' = IF a = "200" THEN adapter ELSE "idle"
  /\ UNCHANGED <<env, restoreFailed, elapsed, adapter, fresh>>

(***************************************************************************)
(* Lines 301-308: the first state request, outside any try: a connection   *)
(* error propagates out of the script.  resp.text is read whatever the     *)
(* status code, and every text but "running" counts as idle.               *)
(***************************************************************************)
InitialGet ==
  /\ ppc = "get0"
  /\ \/ ~Sendable(env.adapter) /\ Finish("crashed") /\ UNCHANGED <<state, errors>>
     \/ Sendable(env.adapter)
        /\ \E a \in Answers : Answer(a) /\ CountAnswer(a) /\
          \/ a \in {"conn_error", "other_error"} /\ Finish("crashed") /\ UNCHANGED state
          \/ a = "hang" /\ ppc' = "hung" /\ UNCHANGED <<state, result>>
          \/ a \in {"200", "500"} /\ ppc' = "loop" /\ UNCHANGED result
             /\ state' = IF a = "200" /\ adapter = "running" THEN "running" ELSE "idle"
  /\ UNCHANGED <<env, restoreFailed, elapsed, adapter, fresh>>

\* Mutant: the outer loop stops only on done, so a failed state is polled again.
LoopHead_loop_on_failed ==
  /\ ppc = "loop"
  /\ \/ state = "done"
        /\ Finish(IF restoreFailed THEN "raised" ELSE "done")
        /\ UNCHANGED elapsed
     \/ state = "idle" /\ ppc' = "post" /\ elapsed' = 0 /\ UNCHANGED result
     \/ state \notin {"done", "idle"} /\ ppc' = "check"
        /\ UNCHANGED <<elapsed, result>>
  /\ UNCHANGED <<env, state, restoreFailed, adapter, fresh, errors>>

(***************************************************************************)
(* Lines 310-311 and 349-352: the outer loop runs while state is neither   *)
(* done nor failed; an idle state enters the aggregator retry loop with a  *)
(* new start_time.  After the loop a failed state, or restore_failed,      *)
(* raises.                                                                 *)
(***************************************************************************)
LoopHead ==
  /\ ppc = "loop"
  /\ \/ state \in {"done", "failed"}
        /\ Finish(IF state = "failed" \/ restoreFailed THEN "raised" ELSE "done")
        /\ UNCHANGED elapsed
     \/ state = "idle" /\ ppc' = "post" /\ elapsed' = 0 /\ UNCHANGED result
     \/ state \notin {"done", "failed", "idle"} /\ ppc' = "check"
        /\ UNCHANGED <<elapsed, result>>
  /\ UNCHANGED <<env, state, restoreFailed, adapter, fresh, errors>>

\* Mutant: the retry loop without its deadline.
Post_no_deadline ==
  /\ ppc = "post"
  /\ \/ ~Sendable(env.aggregator)
        /\ Finish("crashed") /\ UNCHANGED <<restoreFailed, elapsed, adapter, fresh, errors>>
     \/ Sendable(env.aggregator)
        /\ \E a \in Answers : Answer(a) /\ CountAnswer(a) /\
             \/ a = "200" /\ restoreFailed' = FALSE /\ ppc' = "check"
                /\ adapter' = "running" /\ fresh' = FALSE /\ UNCHANGED <<elapsed, result>>
             \/ a \in {"500", "conn_error"} /\ restoreFailed' = (a = "conn_error")
                /\ elapsed' = elapsed + Interval
                /\ UNCHANGED <<ppc, adapter, fresh, result>>
             \/ a = "hang" /\ ppc' = "hung"
                /\ UNCHANGED <<restoreFailed, elapsed, adapter, fresh, result>>
             \/ a = "other_error" /\ Finish("crashed")
                /\ UNCHANGED <<restoreFailed, elapsed, adapter, fresh>>
  /\ UNCHANGED <<state, env>>

(***************************************************************************)
(* Lines 313-335: one turn of the aggregator retry loop.  Past TIMEOUT the *)
(* loop gives up and the state becomes failed.  A 200 answer ends the loop *)
(* (the aggregator has the adapter start a recovery); another status or a  *)
(* ConnectionError (which sets restore_failed, reset on the next turn)     *)
(* sleeps INTERVAL and tries again.  "except requests.ConnectionError or  *)
(* requests.HTTPError" names ConnectionError alone, so any other          *)
(* RequestException leaves the loop, and the function, at once, as does  *)
(* the TypeError of an aggregator url that is None.                        *)
(***************************************************************************)
Post ==
  /\ ppc = "post"
  /\ \/ /\ elapsed > Timeout
        /\ restoreFailed' = TRUE /\ state' = "failed" /\ ppc' = "loop"
        /\ UNCHANGED <<elapsed, adapter, fresh, errors, result>>
     \/ /\ elapsed <= Timeout /\ ~Sendable(env.aggregator)
        /\ Finish("crashed") /\ UNCHANGED <<restoreFailed, elapsed, adapter, fresh, errors, state>>
     \/ /\ elapsed <= Timeout /\ Sendable(env.aggregator)
        /\ \E a \in Answers : Answer(a) /\ CountAnswer(a) /\
             \/ a = "200" /\ restoreFailed' = FALSE /\ ppc' = "check"
                /\ adapter' = "running" /\ fresh' = FALSE /\ UNCHANGED <<elapsed, result>>
             \/ a \in {"500", "conn_error"} /\ restoreFailed' = (a = "conn_error")
                /\ elapsed' = elapsed + Interval
                /\ UNCHANGED <<ppc, adapter, fresh, result>>
             \/ a = "hang" /\ ppc' = "hung"
                /\ UNCHANGED <<restoreFailed, elapsed, adapter, fresh, result>>
             \/ a = "other_error" /\ Finish("crashed")
                /\ UNCHANGED <<restoreFailed, elapsed, adapter, fresh>>
        /\ UNCHANGED state
  /\ UNCHANGED env

\* Mutant: the state read from the adapter is not stored.
CheckState_drop_answer ==
  /\ ppc = "check"
  /\ \E a \in Answers : Answer(a) /\ CountAnswer(a) /\
       \/ a \in {"200", "500", "conn_error"} /\ ppc' = "loop" /\ UNCHANGED <<state, result>>
       \/ a = "hang" /\ ppc' = "hung" /\ UNCHANGED <<state, result>>
       \/ a = "other_error" /\ Finish("crashed") /\ UNCHANGED state
  /\ UNCHANGED <<env, restoreFailed, elapsed, adapter, fresh>>

(***************************************************************************)
(* Lines 336-347: sleep 5 s and read the adapter's state; a connection     *)
(* error or a status other than 200 leaves state as it was and goes round  *)
(* the outer loop again; another RequestException propagates.              *)
(***************************************************************************)
CheckState ==
  /\ ppc = "check"
  /\ \E a \in Answers : Answer(a) /\ CountAnswer(a) /\
       \/ a = "200" /\ state' = adapter /\ ppc' = "loop" /\ UNCHANGED result
       \/ a \in {"500", "conn_error"} /\ ppc' = "loop" /\ UNCHANGED <<state, result>>
       \/ a = "hang" /\ ppc' = "hung" /\ UNCHANGED <<state, result>>
       \/ a = "other_error" /\ Finish("crashed") /\ UNCHANGED state
  /\ UNCHANGED <<env, restoreFailed, elapsed, adapter, fresh>>

\* The adapter finishes the recovery it runs.
AdapterFinish ==
  /\ adapter = "running"
  /\ \E s \in {"done", "failed"} : adapter' = s
  /\ fresh' = TRUE
  /\ UNCHANGED <<env, ppc, state, restoreFailed, elapsed, result, errors>>

PollerStep == Entry \/ InitialGet \/ LoopHead \/ Post \/ CheckState

Next == PollerStep \/ AdapterFinish

\* The poller is one sequential process and the adapter's recovery job runs
\* on its own: each keeps taking steps while it can.
Spec == Init /\ [][Next]_vars /\ WF_vars(PollerStep) /\ WF_vars(AdapterFinish)

-----------------------------------------------------------------------------
\* The shape of the state.
TypeOK ==
  /\ env \in Environments
  /\ ppc \in {"entry", "get0", "loop", "post", "check", "hung", "finished"}
  /\ state \in States
  /\ restoreFailed \in BOOLEAN
  /\ elapsed \in 0..(Timeout + Interval)
  /\ result \in {"none", "disabled", "crashed", "raised", "done"}
  /\ adapter \in States
  /\ fresh \in BOOLEAN
  /\ errors \in 0..MaxErrors

(***************************************************************************)
(* recover_users returns normally only when the adapter reports done for a *)
(* recovery that finished while it ran: a done or failed state left by an  *)
(* earlier run is never taken for this run's result.                       *)
(***************************************************************************)
DoneMeansRecovered == result = "done" => adapter = "done" /\ fresh

(***************************************************************************)
(* With the feature configured off, recover_users does nothing and does    *)
(* not fail (spec.md 4.4, skip condition).                                 *)
(***************************************************************************)
DisabledIsNoOp == config # "enabled" => result \in {"none", "disabled"}

(***************************************************************************)
(* recover_users always returns or raises (spec.md 4.4 and 5: a bounded     *)
(* polling protocol with a hard deadline).                                 *)
(***************************************************************************)
PollerTerminates == <>(ppc = "finished")

(***************************************************************************)
(* recover_users returns or raises unless one of its requests is never    *)
(* answered: the retry loop, its deadline and the state checks always come *)
(* to an end while the services answer and the adapter's job finishes.    *)
(***************************************************************************)
PollerEndsUnlessHung == <>(ppc \in {"finished", "hung"})


(***************************************************************************)
(* recover_users implements AbstractRecovery: seen through the mapping     *)
(* below, every step of the poller and of the adapter is a step of the     *)
(* abstract protocol or leaves it unchanged, and the poller's fairness     *)
(* gives the abstract one.  The requests, the retry loop with its          *)
(* deadline and the state checks are hidden; a 200 from the aggregator is *)
(* the abstract StartRecovery, and the poller's end is Conclude or Hang.   *)
(***************************************************************************)
Phase == CASE ppc = "finished" -> "finished"
           [] ppc = "hung" -> "hung"
           [] OTHER -> "running"

Abstract == INSTANCE AbstractRecovery WITH phase <- Phase

(***************************************************************************)
(* The poller ends only with a result its state allows (disabled only when *)
(* configured off, done only after a recovery of this run finished as     *)
(* done), never starts a recovery after it ended, and ends unless a       *)
(* request is never answered.                                              *)
(***************************************************************************)
RecoveryRefined == Abstract!Spec

=============================================================================
