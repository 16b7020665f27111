------------------------------ MODULE Collectors ------------------------------
(*****************************************************************************)
(* Sending a report (src/x/report/report.go): a sampling collector, a        *)
(* retrying one, a falling back one and remote ones, nested as a caller      *)
(* nests them. The report or the answer may be lost on the way, and a server *)
(* may refuse the request.                                                   *)
(*****************************************************************************)
EXTENDS Naturals, FiniteSets

CONSTANTS MaxRetry,    \* retries after the first attempt
          Remotes      \* collectors the falling back one has, in their order 1..Remotes

ASSUME CollectAssumption == MaxRetry \in Nat /\ Remotes \in Nat \ {0}

VARIABLES nested,    \* "remote" | "fallback": what the retrying collector calls
          attempt,   \* attempts the retrying collector has made
          remote,    \* the remote collector that is called
          asked,     \* asked[r]: requests to remote collector r
          answers,   \* what the remote collectors of this attempt have answered
          received,  \* reports that have reached a server
          refusals,  \* answers of class 4xx
          after,     \* requests sent after the first of them
          collect    \* "run" | "called" | "sleep" | "nil" | "error" | "skipped"

collectVars == <<nested, attempt, remote, asked, answers, received, refusals, after, collect>>

CollectInit == /\ nested \in {"remote", "fallback"}
               /\ attempt = 0 /\ remote = 1 /\ answers = {}
               /\ asked = [r \in 1..Remotes |-> 0]
               /\ received = 0 /\ refusals = 0 /\ after = 0
               /\ collect = "sleep"

\* SamplingCollector: the report is not chosen, or has no success to go by.
NotSampled == /\ attempt = 0 /\ collect = "sleep"
              /\ collect' = "skipped"
              /\ UNCHANGED <<nested, attempt, remote, asked, answers, received, refusals, after>>

\* The next round of RetryCollector's loop, after its sleep, which no context ends.
Attempt == /\ collect = "sleep" /\ attempt <= MaxRetry
           /\ attempt' = attempt + 1
           /\ remote' = 1 /\ answers' = {}
           /\ collect' = "run"
           /\ UNCHANGED <<nested, asked, received, refusals, after>>

\* "max retry exceeded"
GivesUp == /\ collect = "sleep" /\ attempt = MaxRetry + 1
           /\ collect' = "error"
           /\ UNCHANGED <<nested, attempt, remote, asked, answers, received, refusals, after>>

\* sendReport: an answer of class 4xx is a BadRequestError, any other answer a
\* success; "lost" stands for all that comes back without one.
Answers == {"accepted", "serverError", "refused", "lost", "unsent"}
Success(a) == a \in {"accepted", "serverError"}

Send == /\ collect = "run"
        /\ \E a \in Answers:
             /\ asked' = [asked EXCEPT ![remote] = @ + 1]
             /\ answers' = answers \cup {a}
             /\ received' = received + (IF a = "unsent" THEN 0 ELSE 1)
             /\ refusals' = refusals + (IF a = "refused" THEN 1 ELSE 0)
             /\ after' = after + (IF refusals > 0 THEN 1 ELSE 0)
             /\ collect' = IF Success(a) THEN "nil" ELSE "called"
        /\ UNCHANGED <<nested, attempt, remote>>

\* FallbackCollector goes on to its next collector.
FallsBack == /\ collect = "called" /\ nested = "fallback" /\ remote < Remotes
             /\ remote' = remote + 1
             /\ collect' = "run"
             /\ UNCHANGED <<nested, attempt, asked, answers, received, refusals, after>>

\* The error that reaches RetryCollector: that of its remote collector, or "all
\* collectors failed", in which a refusal is not to be seen.
SeesRefusal == nested = "remote" /\ "refused" \in answers

(* Variant: a refusal is retried. *)
CallFailedRetry == /\ collect = "called" /\ (nested = "remote" \/ remote = Remotes)
                   /\ collect' = "sleep"
                   /\ UNCHANGED <<nested, attempt, remote, asked, answers, received, refusals, after>>

CallFailed == /\ collect = "called" /\ (nested = "remote" \/ remote = Remotes)
              /\ collect' = IF SeesRefusal THEN "error" ELSE "sleep"
              /\ UNCHANGED <<nested, attempt, remote, asked, answers, received, refusals, after>>

CollectNext == NotSampled \/ Attempt \/ GivesUp \/ Send \/ FallsBack \/ CallFailed

CollectSpec == CollectInit /\ [][CollectNext]_collectVars /\ WF_collectVars(CollectNext)

-------------------------------------------------------------------------------

\* The remote collectors that an attempt may come to.
Reached == IF nested = "fallback" THEN 1..Remotes ELSE {1}

\* Collect reports success only when a server has the report; over all retries each
\* remote collector is asked at most once per attempt; an error means that each of
\* them was asked that often, or that a lone one has refused; and a lone one that
\* refuses is not asked again ("If a BadRequestError is encountered during the
\* collection, it breaks the retry loop").
RetriesAreSound == /\ collect = "nil" => received > 0
                   /\ \A r \in 1..Remotes: asked[r] <= MaxRetry + 1
                   /\ collect = "error" => \/ nested = "remote" /\ refusals > 0
                                           \/ \A r \in Reached: asked[r] = MaxRetry + 1
                   /\ nested = "remote" => after = 0

\* Not so behind a falling back collector, whose error hides the refusal.
RefusalIsFinal == after = 0
===============================================================================
