------------------------------- MODULE SmartDns -------------------------------
(*****************************************************************************)
(* The test of a DNS resolver (src/x/smart/dns.go and the test function of   *)
(* findDNS): for each test domain an address query and, when the resolver is *)
(* not authenticated, checks of the answer and a CNAME query. Injected       *)
(* answers are told from real ones by what they get wrong.                   *)
(*****************************************************************************)
EXTENDS SmartRace

CONSTANT Asked   \* the test domains the resolvers are tested with

\* There is a domain to test with: without one the code takes any resolver.
ASSUME SearchAssumption == NumEntries \in Nat /\ Asked \subseteq Domains /\ Asked # {}

VARIABLES class,      \* class[e]: "secure" (TLS, HTTPS) | "plain" (UDP, TCP) | "system"
          behaviour   \* behaviour[e]: how the resolver of entry e answers

dnsVars == <<class, behaviour>>

Classes == {"secure", "plain", "system"}

Behaviours == {"honest",     \* keeps the case of the name, knows the CNAME
               "leaf",       \* honest about a name that has no CNAME
               "lowercase",  \* rewrites the name of the question
               "private",    \* answers with an address that is not public
               "refused", "blank",
               "forger",     \* answers every question with an address
               "bare"}       \* a CNAME answer with neither records nor a SOA

\* Bound: one entry differs from an honest plain resolver, any of them.
DnsInit ==
  \E odd \in Entries, c \in Classes, b \in Behaviours:
    /\ kind = "dialers" => odd = 1 /\ c = "plain" /\ b = "honest"
    /\ class = [e \in Entries |-> IF e = odd THEN c ELSE "plain"]
    /\ behaviour = [e \in Entries |-> IF e = odd THEN b ELSE "honest"]

-------------------------------------------------------------------------------

Response(rcode, answers, soas) == [rcode |-> rcode, answers |-> answers, soas |-> soas]

Record(type, name, ip) == [type |-> type, name |-> name, ip |-> ip]

\* The answers of a resolver to the address and to the CNAME question. The
\* question's name is in mixed case (mixCase); a rewritten one is not equal to it.
AddressAnswer(b) ==
  CASE b = "refused"   -> Response("failure", <<>>, 0)
    [] b = "blank"     -> Response("success", <<>>, 0)
    [] b = "private"   -> Response("success", <<Record("A", "asked", "private")>>, 0)
    [] b = "lowercase" -> Response("success", <<Record("A", "lower", "public")>>, 0)
    [] OTHER           -> Response("success", <<Record("A", "asked", "public")>>, 0)

CnameAnswer(b) ==
  CASE b = "refused"          -> Response("failure", <<>>, 0)
    [] b = "leaf"             -> Response("success", <<>>, 1)
    [] b \in {"blank", "bare"} -> Response("success", <<>>, 0)
    [] b = "forger"           -> Response("success", <<Record("A", "asked", "public")>>, 0)
    [] OTHER                  -> Response("success", <<Record("CNAME", "asked", "none")>>, 0)

Addresses(answers) == {i \in DOMAIN answers: answers[i].type \in {"A", "AAAA"}}

Public(ip) == ip \notin {"loopback", "private", "zero"}

(* Variant: the case of the answered name is not compared. *)
AddressOkAnyCase(resp) ==
  /\ resp.rcode = "success"
  /\ Addresses(resp.answers) # {}
  /\ \A i \in Addresses(resp.answers): Public(resp.answers[i].ip)

\* evaluateAddressResponse
AddressOk(resp) ==
  /\ resp.rcode = "success"
  /\ Addresses(resp.answers) # {}
  /\ \A i \in Addresses(resp.answers): Public(resp.answers[i].ip)
  /\ resp.answers[1].name = "asked"

\* evaluateCNAMEResponse
CnameOk(resp) ==
  /\ resp.rcode = "success"
  /\ IF resp.answers = <<>>
     THEN resp.soas = 1
     ELSE /\ \A i \in DOMAIN resp.answers: resp.answers[i].type = "CNAME"
          /\ Len(resp.answers) = 1

\* evaluateNetResolver looks at the addresses the system's resolver returns; it
\* sees neither the name nor the records.
SystemOk(resp) == /\ resp.rcode = "success"
                  /\ Addresses(resp.answers) # {}
                  /\ \A i \in Addresses(resp.answers): Public(resp.answers[i].ip)

-------------------------------------------------------------------------------

Begin(e) == /\ kind = "resolvers" /\ tst[e] = "make"
            /\ tst' = [tst EXCEPT ![e] = "run"]
            /\ UNCHANGED <<kind, race, winner, next, toTest, waitCh, parent, results, visit, tripped>>

AtDomain(e, d) == /\ kind = "resolvers" /\ tst[e] = "run"
                  /\ \A o \in Asked \ {d}: visit[e][o] \in {"idle", "ok"}

To(e, d, v) == /\ visit' = [visit EXCEPT ![e][d] = v]
               /\ UNCHANGED <<kind, race, winner, next, toTest, waitCh, parent, tst, results, tripped>>

FailTest(e) == /\ EndTest(e, "failed")
               /\ UNCHANGED <<kind, race, winner, next, toTest, waitCh, parent, visit, tripped>>

\* Before each domain the test looks whether its race is over.
StopsAtDomain(e, d) == /\ AtDomain(e, d) /\ visit[e][d] = "idle" /\ RaceCtxDone
                       /\ FailTest(e)

Asks(e, d) == /\ AtDomain(e, d) /\ visit[e][d] = "idle" /\ ~RaceCtxDone
              /\ To(e, d, "address")

\* Every query is bounded by TestTimeout and ends when the race does.
GetsNothing(e, d) == /\ AtDomain(e, d) /\ visit[e][d] \in {"address", "cname"}
                     /\ FailTest(e)

AddressArrives(e, d) ==
  /\ AtDomain(e, d) /\ visit[e][d] = "address"
  /\ LET resp == AddressAnswer(behaviour[e])
     IN \/ class[e] = "secure" /\ To(e, d, "ok")
        \/ class[e] = "system" /\ SystemOk(resp) /\ To(e, d, "ok")
        \/ class[e] = "system" /\ ~SystemOk(resp) /\ FailTest(e)
        \/ class[e] = "plain" /\ AddressOk(resp) /\ To(e, d, "cname")
        \/ class[e] = "plain" /\ ~AddressOk(resp) /\ FailTest(e)

CnameArrives(e, d) ==
  /\ AtDomain(e, d) /\ visit[e][d] = "cname"
  /\ LET resp == CnameAnswer(behaviour[e])
     IN \/ CnameOk(resp) /\ To(e, d, "ok")
        \/ ~CnameOk(resp) /\ FailTest(e)

\* All domains resolved.
Resolved(e) == /\ kind = "resolvers" /\ tst[e] = "run"
               /\ \A d \in Asked: visit[e][d] = "ok"
               /\ EndTest(e, "passed")
               /\ UNCHANGED <<kind, race, winner, next, toTest, waitCh, parent, visit, tripped>>

ResolverTest == \E e \in Entries:
                  \/ Begin(e) \/ Resolved(e)
                  \/ \E d \in Asked: \/ StopsAtDomain(e, d) \/ Asks(e, d) \/ GetsNothing(e, d)
                                       \/ AddressArrives(e, d) \/ CnameArrives(e, d)

SearchNext == \/ (Loop \/ WaitExpires \/ CallerCancels \/ DialerTest \/ ResolverTest) /\ UNCHANGED dnsVars

SearchInit == RaceInit /\ DnsInit

SearchSpec == SearchInit /\ [][SearchNext]_<<raceVars, dnsVars>> /\ RaceFairness

\* Nobody selects an unauthenticated resolver whose answers are forged, rewritten
\* or empty; an authenticated one needs only to be reachable, and of the system's
\* only the addresses are known.
Trustworthy(c, b) == CASE c = "secure" -> TRUE
                       [] c = "plain"  -> b \in {"honest", "leaf"}
                       [] c = "system" -> b \notin {"private", "refused", "blank"}

ResolverVetted ==
  kind = "resolvers" /\ race = "won" => Trustworthy(class[winner], behaviour[winner])
===============================================================================
