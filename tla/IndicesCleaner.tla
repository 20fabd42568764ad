---------------------------- MODULE IndicesCleaner ----------------------------
(***************************************************************************)
(* indices_cleaner.py: a process that runs delete_indices on a schedule.  *)
(* Each run reads the cleaner configuration again (a mounted config map,  *)
(* which may change between runs), checks it, and deletes, config after   *)
(* config, the indices curator selects by pattern and age.                *)
(*                                                                         *)
(* An exception in a run leaves schedule.run_pending and the endless loop  *)
(* of __main__, so the process ends; the pod restarts it and               *)
(* schedule_cleaning registers the job again.  A configuration is a record *)
(* [pattern, valid]: valid is FALSE when a key is missing or its value is *)
(* neither a string nor an integer.  An index is [name, pattern, old]: the *)
(* pattern it matches and whether it is older than the configured age.    *)
(* The scheduler settings, INDICES_CLEANER_SCHEDULER_UNIT and _UNIT_COUNT, *)
(* are the pod's environment: the same at every restart.  The count is a  *)
(* sequence of characters.                                                 *)
(***************************************************************************)
EXTENDS Integers, Sequences, FiniteSets, SequencesExt

CONSTANTS
  ConfigLists,   \* the configurations the file may hold under the key
  InitIndices,   \* the indices of the cluster
  MaxJobs,       \* bound on the runs of delete_indices
  SchedulerEnvs, \* the scheduler settings the pod may have: [unit, count]
  ClusterEnvs    \* ELASTICSEARCH_HOST and ES_AUTH the pod may have: [host, auth]

VARIABLES
  cpc,           \* "start", "idle", "delete" or "restart"
  configs,       \* the configurations of the run in progress
  ci,            \* the index of the configuration the run is at
  indices,       \* the indices of the cluster
  jobs,          \* runs of delete_indices started so far
  jobDeleted,    \* the indices the run in progress deleted (history)
  schedEnv,      \* the scheduler settings of the pod
  esEnv          \* the cluster settings of the pod

icVars == <<cpc, configs, ci, indices, jobs, jobDeleted, schedEnv, esEnv>>

\* check_configuration: every configuration has every key, well typed.
ConfigsValid(cs) == \A j \in DOMAIN cs : cs[j].valid

\* _delete_indices_by_pattern's selection: filter_by_regex, then filter_by_age.
Selected(c, idx) == {i \in idx : i.pattern = c.pattern /\ i.old}

ICInit ==
  /\ cpc = "start" /\ configs = <<>> /\ ci = 0 /\ indices = InitIndices
  /\ jobs = 0 /\ jobDeleted = {} /\ schedEnv \in SchedulerEnvs /\ esEnv \in ClusterEnvs

\* An exception ends the process.
Die == cpc' = "restart" /\ ci' = 0

\* SCHEDULER_POSSIBLE_UNITS (lines 34-36): the properties of schedule.Job.
SCHEDULER_POSSIBLE_UNITS ==
  {"second", "seconds", "minute", "minutes", "hour", "hours", "day", "days", "week",
   "weeks", "monday", "tuesday", "wednesday", "thursday", "friday", "saturday", "sunday"}

DigitChars == <<"0", "1", "2", "3", "4", "5", "6", "7", "8", "9">>
DecimalDigits == Range(DigitChars)

\* str.isdigit and int() of a string of digits.
isdigit(s) == s # <<>> /\ \A i \in DOMAIN s : s[i] \in DecimalDigits
Num(s) == FoldLeft(LAMBDA acc, d : 10 * acc + CHOOSE v \in 0..9 : DigitChars[v + 1] = d, 0, s)

(***************************************************************************)
(* The schedule library, the script's collaborator.  every(n).<unit> of a *)
(* singular unit or a weekday raises IntervalError unless n is 1.  at(t)  *)
(* accepts "HH:MM" (hours 0-23) for day and the weekdays, "[MM]:SS" for   *)
(* hours, ":SS" for minutes, and raises ScheduleValueError otherwise.      *)
(***************************************************************************)
Singular == {"second", "minute", "hour", "day", "week", "monday", "tuesday",
             "wednesday", "thursday", "friday", "saturday", "sunday"}
EveryAccepts(u, n) == u \in Singular => n = 1

TwoDigits(x, firsts) == Len(x) = 2 /\ x[1] \in firsts /\ x[2] \in DecimalDigits
Sexagesimal == {"0", "1", "2", "3", "4", "5"}

AtAccepts(u, h, m) ==
  CASE u \in {"day", "days", "monday", "tuesday", "wednesday", "thursday", "friday",
              "saturday", "sunday"} ->
         TwoDigits(h, {"0", "1", "2"}) /\ TwoDigits(m, Sexagesimal) /\ Num(h) <= 23
    [] u \in {"hour", "hours"} -> (h = <<>> \/ TwoDigits(h, Sexagesimal)) /\ TwoDigits(m, Sexagesimal)
    [] u \in {"minute", "minutes"} -> h = <<>> /\ TwoDigits(m, Sexagesimal)
    [] OTHER -> FALSE

(***************************************************************************)
(* Lines 133-166: schedule_cleaning checks the unit, then the count: with  *)
(* a ':' at most one separator and digits (or nothing) on either side,    *)
(* for every().<unit>.at(count); without one, digits for                  *)
(* every(int(count)).<unit>.  TRUE when the job is registered, FALSE when *)
(* the script or the library raises.                                       *)
(***************************************************************************)
schedule_cleaning(e) ==
  LET c      == e.count
      colons == {i \in DOMAIN c : c[i] = ":"}
      k      == CHOOSE i \in colons : TRUE
      h      == SubSeq(c, 1, k - 1)
      m      == SubSeq(c, k + 1, Len(c))
  IN /\ e.unit \in SCHEDULER_POSSIBLE_UNITS
     /\ IF colons # {}
        THEN /\ Cardinality(colons) = 1
             /\ h = <<>> \/ isdigit(h)
             /\ m = <<>> \/ isdigit(m)
             /\ AtAccepts(e.unit, h, m)
        ELSE isdigit(c) /\ EveryAccepts(e.unit, Num(c))

(***************************************************************************)
(* Line 170: __main__ calls schedule_cleaning; an exception ends the       *)
(* process, and the restarted pod, with the same environment, calls it    *)
(* again.                                                                  *)
(***************************************************************************)
ICSchedule ==
  /\ cpc \in {"start", "restart"}
  /\ cpc' = IF schedule_cleaning(schedEnv) THEN "idle" ELSE "restart"
  /\ UNCHANGED <<configs, ci, indices, jobs, jobDeleted, schedEnv, esEnv>>

(***************************************************************************)
(* Lines 45-70: the client of a run.  A host of "" is unset or empty, and *)
(* ES_AUTH is [set, text], its text a character sequence.  No host raises *)
(* RuntimeError; os.environ.get('ES_AUTH').split is an AttributeError     *)
(* when it is unset; [1] of a split without ':' an IndexError.  The       *)
(* password is the text between the first and the second ':', and it      *)
(* becomes None unless user and password are non-empty; opensearch-py's   *)
(* join of the tuple then raises TypeError.                                *)
(***************************************************************************)
Colon(a, from) == SelectInSubSeq(a, from, Len(a), LAMBDA x : x = ":")

ic_get_credentials(auth) ==
  LET a      == auth.text
      first  == Colon(a, 1)
      second == Colon(a, first + 1)
      user     == SubSeq(a, 1, first - 1)
      password == SubSeq(a, first + 1, IF second = 0 THEN Len(a) ELSE second - 1)
      raise(x) == [error |-> x, password |-> <<>>]
  IN CASE ~auth.set -> raise("AttributeError")
       [] first = 0 -> raise("IndexError")
       [] user = <<>> \/ password = <<>> -> raise("TypeError")
       [] OTHER -> [error |-> "none", password |-> password]

ic_prepare_elasticsearch_client(e) ==
  IF e.host = "" THEN [error |-> "RuntimeError", password |-> <<>>]
  ELSE ic_get_credentials(e.auth)

\* A run gets past line 79.
ClientBuilt(e) == ic_prepare_elasticsearch_client(e).error = "none"

\* The cluster accepts the client's password when it is all of ES_AUTH's
\* text after the first ':'; otherwise every request fails.
Authorized(e) ==
  /\ ClientBuilt(e)
  /\ ic_prepare_elasticsearch_client(e).password
       = SubSeq(e.auth.text, Colon(e.auth.text, 1) + 1, Len(e.auth.text))

\* Mutant: each configuration is checked only when its turn comes.
ICJob_lazy_check ==
  /\ cpc = "idle" /\ jobs < MaxJobs
  /\ jobs' = jobs + 1 /\ jobDeleted' = {}
  /\ \/ Die /\ UNCHANGED configs
     \/ \E cs \in ConfigLists :
          /\ configs' = cs
          /\ IF cs = <<>> THEN cpc' = "idle" /\ ci' = 0
             ELSE cpc' = "delete" /\ ci' = 1
  /\ UNCHANGED <<indices, schedEnv, esEnv>>

(***************************************************************************)
(* Lines 73-81 and 121-130: a run of delete_indices.  An unset key, or a  *)
(* file without it, raises.  An empty configuration ends the run; an      *)
(* invalid one raises in check_configuration before any index is deleted. *)
(***************************************************************************)
ICJob ==
  /\ cpc = "idle" /\ jobs < MaxJobs
  /\ jobs' = jobs + 1 /\ jobDeleted' = {}
  /\ \/ Die /\ UNCHANGED configs
     \/ \E cs \in ConfigLists :
          /\ configs' = cs
          /\ CASE cs = <<>> -> cpc' = "idle" /\ ci' = 0
               [] ~ConfigsValid(cs) \/ ~ClientBuilt(esEnv) -> Die
               [] OTHER -> cpc' = "delete" /\ ci' = 1
  /\ UNCHANGED <<indices, schedEnv, esEnv>>

(***************************************************************************)
(* Lines 108-118: the indices of one configuration.  Listing, filtering   *)
(* and deleting may raise (curator's NoIndices on an empty cluster, a     *)
(* failed request, the KeyError of a configuration that lacks a key),     *)
(* which ends the process and skips the configurations after it.  Nothing *)
(* selected means no delete request.                                       *)
(***************************************************************************)
ICDelete ==
  /\ cpc = "delete"
  /\ \/ Die /\ UNCHANGED <<indices, jobDeleted>>
     \/ /\ configs[ci].valid /\ indices # {} /\ Authorized(esEnv)
        /\ indices' = indices \ Selected(configs[ci], indices)
        /\ jobDeleted' = jobDeleted \cup Selected(configs[ci], indices)
        /\ ci' = ci + 1
        /\ cpc' = IF ci < Len(configs) THEN "delete" ELSE "idle"
  /\ UNCHANGED <<configs, jobs, schedEnv, esEnv>>

ICNext == ICSchedule \/ ICJob \/ ICDelete

-----------------------------------------------------------------------------
(***************************************************************************)
(* A run whose configuration has an invalid entry deletes nothing: the    *)
(* whole configuration is checked before the first index is deleted, so a *)
(* typo in one entry cannot leave a run half done.                         *)
(***************************************************************************)
InvalidConfigDeletesNothing ==
  ~ConfigsValid(configs) => jobDeleted = {}

=============================================================================
