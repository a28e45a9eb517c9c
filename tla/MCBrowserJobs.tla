--------------------------- MODULE MCBrowserJobs ----------------------------
(* Two jobs that use one account, or one job alone. *)
EXTENDS BrowserJobs
=============================================================================
