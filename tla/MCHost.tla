-------------------------------- MODULE MCHost --------------------------------
(*****************************************************************************)
(* The programs that work on a machine, for TLC: a behavior is a row of      *)
(* calls of the system proxy, the runs of the command line client, or the    *)
(* sending of a report. The other parts keep a first state.                  *)
(*****************************************************************************)
EXTENDS SysProxy, HostSession, Collectors

VARIABLE layer

mcHostVars == <<sysVars, hostVars, collectVars, layer>>

MCHostInit ==
    /\ layer \in {"proxy", "session", "report"}
    /\ SysInit /\ HostInit /\ CollectInit
    /\ layer # "proxy" =>
         platform = CHOOSE p \in Platforms: TRUE
    /\ layer # "proxy" =>
         active = CHOOSE s \in Services: TRUE
    /\ layer # "session" =>
         file["head"] = "none" /\ ipv6 = "on"
    /\ layer # "report" =>
         nested = "remote"

MCHostNext ==
    /\ layer' = layer
    /\ \/ layer = "proxy" /\ SysNext /\ UNCHANGED <<hostVars, collectVars>>
       \/ layer = "session" /\ HostNext /\ UNCHANGED <<sysVars, collectVars>>
       \/ layer = "report" /\ CollectNext /\ UNCHANGED <<sysVars, hostVars>>

\* Only the runs of the client are fair here, so only of them anything is expected.
MCHostSpec == MCHostInit /\ [][MCHostNext]_mcHostVars /\ (layer = "session" => HostFairness)

\* A run that is over comes to its end, in the order of its deferred calls.
EachRunReturns == layer = "session" => RunReturns
===============================================================================
