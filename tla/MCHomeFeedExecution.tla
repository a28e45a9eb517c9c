------------------------ MODULE MCHomeFeedExecution -------------------------
(* Two runs, two workers, two leases and two profiles; one worker may be   *)
(* signalled and the other one may die.                                    *)
EXTENDS HomeFeedExecution
=============================================================================
