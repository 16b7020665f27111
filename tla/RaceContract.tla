----------------------------- MODULE RaceContract -----------------------------
(*****************************************************************************)
(* What a search for a strategy promises its caller: every entry is judged   *)
(* at most once, the entry that wins has passed its whole test, and the      *)
(* search fails only when no entry is left that could still win. Abstract    *)
(* specification of raceTests of src/x/smart/racer.go.                       *)
(*****************************************************************************)
EXTENDS Naturals

CONSTANT NumEntries

VARIABLES verdict,   \* verdict[e]: "none" | "passed" | "failed"
          outcome,   \* "open" | "won" | "failed" | "cancelled"
          best       \* the winner, 0 for none

contractVars == <<verdict, outcome, best>>

RaceEntries == 1..NumEntries

ContractInit == /\ verdict = [e \in RaceEntries |-> "none"]
                /\ outcome = "open"
                /\ best = 0

\* A test comes to its end, during the race or after it.
Judge(e) == /\ verdict[e] = "none"
            /\ \E v \in {"passed", "failed"}: verdict' = [verdict EXCEPT ![e] = v]
            /\ UNCHANGED <<outcome, best>>

Win(e) == /\ outcome = "open" /\ verdict[e] = "passed"
          /\ outcome' = "won" /\ best' = e
          /\ UNCHANGED verdict

\* "all tests failed"
Lose == /\ outcome = "open"
        /\ \A e \in RaceEntries: verdict[e] = "failed"
        /\ outcome' = "failed"
        /\ UNCHANGED <<verdict, best>>

Cancel == /\ outcome = "open"
          /\ outcome' = "cancelled"
          /\ UNCHANGED <<verdict, best>>

ContractNext == \/ \E e \in RaceEntries: Judge(e) \/ Win(e)
                \/ Lose
                \/ Cancel

ContractSpec == ContractInit /\ [][ContractNext]_contractVars
===============================================================================
