------------------------------ MODULE MCEngine ------------------------------
(***************************************************************************)
(* Values for the constants of Engine that a cfg file cannot express.      *)
(***************************************************************************)
EXTENDS Engine

\* What launchers of the supported resource managers do: the job is spawned
\* once, MPIR_Breakpoint may be called again, and the job may abort.
MCSteps == {<<"null", "spawned">>, <<"spawned", "spawned">>,
            <<"null", "aborting">>, <<"spawned", "aborting">>}

\* Any value at any time, for the paths of MPIR_NULL and of relaunching.
AnySteps == MpirStates \X MpirStates

LaunchHits == [b \in Bps |-> IF b = "launch" THEN 2 ELSE 0]
BothHits == [b \in Bps |-> IF b = "launch" THEN 2 ELSE 1]
OneHit == [b \in Bps |-> IF b = "launch" THEN 1 ELSE 0]
=============================================================================
