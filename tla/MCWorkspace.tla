---------------------------- MODULE MCWorkspace ----------------------------
(***************************************************************************)
(* The two panels of Workspace meet only in the log, which the logs panel  *)
(* may find with any entries, so TLC looks at one of them at a time.  With *)
(* focus "dashboard" the logs are never selected and nobody else's entries *)
(* are kept.  With focus "logs" the dashboard's first load fails before    *)
(* anything else happens, it is not looked at again (away from the logs    *)
(* the tab is the chat), and what the dashboard would log the Host logs,   *)
(* which the logs panel does not tell apart.                               *)
(***************************************************************************)
EXTENDS Workspace

VARIABLE focus

MCInit == Init /\ focus \in {"dashboard", "logs"}

DashboardOnly ==
  /\ tab' # "logs"
  /\ chat' = chat
  /\ log' = log \/ get' # get

LogsOnly ==
  /\ get'.at = "none"
  /\ get.at # "none" => get' # get
  /\ tab' = tab \/ tab' # "dashboard"
  /\ version' = version
  /\ \A k \in DOMAIN log' : log'[k].context # "WEB_DASHBOARD"

MCNext ==
  /\ Next
  /\ focus = "dashboard" => DashboardOnly
  /\ focus = "logs" => LogsOnly
  /\ UNCHANGED focus

MCFairSpec == MCInit /\ [][MCNext]_<<vars, focus>> /\ Fairness
=============================================================================
