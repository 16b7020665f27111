------------------------------- MODULE MCSmart --------------------------------
(*****************************************************************************)
(* The smart dialer for TLC: a behavior is a race of dialers or of           *)
(* resolvers, a number of strategy searches that share a cache, or DNS       *)
(* queries through the cache of the dialer found. The other parts keep a     *)
(* first state.                                                              *)
(*****************************************************************************)
EXTENDS SmartDns, SmartFinder, DnsQuery

VARIABLE layer

smartVars == <<raceVars, dnsVars, finderVars, queryVars, layer>>

MCConfig(dns, tls, fallback, has) ==
    [dns |-> dns, tls |-> tls, fallback |-> fallback, hasFallback |-> has]

MCConfigs == {MCConfig(<<"system", "doh", "dot">>, <<"split", "frag">>, <<"ss", "psiphon">>, TRUE),
              MCConfig(<<"doh">>, <<>>, <<>>, FALSE),
              MCConfig(<<"doh", "broken">>, <<"frag">>, <<"psiphon">>, TRUE),
              MCConfig(<<>>, <<>>, <<"ss">>, TRUE)}

MCLeftovers == {Strategy(<<"dot">>, <<"frag">>, <<>>),
                Strategy(<<"doh">>, <<>>, <<>>),
                Strategy(<<>>, <<>>, <<"psiphon">>),
                Strategy(<<>>, <<>>, <<"gone">>),
                Strategy(<<"doh">>, <<"gone">>, <<"ss">>)}

FirstConfig == MCConfig(<<"doh">>, <<>>, <<>>, FALSE)

FirstQuestion == [name |-> "example", type |-> "A"]

MCSmartInit ==
    /\ layer \in {"race", "search", "query"}
    /\ SearchInit /\ FinderInit /\ QueryInit
    /\ layer # "race" =>
         kind = "dialers"
    /\ layer # "search" =>
         cache = {} /\ tcpBase /\ \A c \in Callers: input[c] = FirstConfig
    /\ layer # "query" =>
         \A c \in Clients: question[c] = FirstQuestion /\ transport[c] = "framed"

MCSmartNext ==
    /\ layer' = layer
    /\ \/ layer = "race" /\ SearchNext /\ UNCHANGED <<finderVars, queryVars>>
       \/ layer = "search" /\ FinderNext /\ UNCHANGED <<raceVars, dnsVars, queryVars>>
       \/ layer = "query" /\ QueryNext /\ UNCHANGED <<raceVars, dnsVars, finderVars>>

MCSmartSpec == MCSmartInit /\ [][MCSmartNext]_smartVars /\ (layer = "race" => RaceFairness)

\* Only the race is fair here, so only of the race anything is expected.
\* A test that never ends holds nobody up ("that way you bound the wait for a test",
\* racer.go).
RaceWaitIsBounded == layer = "race" => WaitBounded
===============================================================================
