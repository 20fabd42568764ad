--------------------------- MODULE MCUsersRecovery ---------------------------
(***************************************************************************)
(* UsersRecovery with a deadline of two retry intervals, so that the      *)
(* aggregator retry loop can both succeed and time out, and enough failed  *)
(* answers to reach the deadline.                                          *)
(***************************************************************************)
EXTENDS UsersRecovery

\* Each address unset or set, with or without a database id.
MCEnvironments == [adapter : {"", "adapter"}, aggregator : {"", "aggregator"},
                   dbId : {"", "db"}]

=============================================================================
