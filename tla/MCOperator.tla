----------------------------- MODULE MCOperator -----------------------------
EXTENDS KubemartOperator, TLC
CONSTANTS a1, a2, k1, k2

NoDependencies == [a \in Apps |-> {}]
Chain == [a \in Apps |-> IF a = a1 THEN {a2} ELSE {}]

\* No application has configurations.
NoConfiguration == [a \in Apps |-> [v \in 1..MaxVersion |-> <<>>]]
\* The second version uses another variable for k1, and has a new key.
Password == [kinds |-> {"ALPHANUMERIC"}, sized |-> TRUE]
Address == [kinds |-> {"EMAIL_ADDRESS"}, sized |-> FALSE]
NewKeys == [a \in Apps |-> [v \in 1..MaxVersion |->
              IF v = 1 THEN k1 :> Password ELSE k1 :> Address @@ k2 :> Address]]

\* A plan with two keys, which the second version uses for templates as well.
SizePlan == [a \in Apps |-> <<[label |-> 5, configuration |-> k1 :> 5 @@ k2 :> 5]>>]
NoPlans == [a \in Apps |-> <<>>]
\* The plan of a2 has no value: a2 panics before its installation, and a1, which
\* has a proper plan, when it creates a2 with the smallest plan of a2.
EmptyPlan == [a \in Apps |-> <<[label |-> 5, configuration |-> IF a = a2 THEN <<>> ELSE k2 :> 5]>>]

Ask(c, u, d) == [k \in RequestKinds |-> CASE k = "create" -> c [] k = "update" -> u [] k = "delete" -> d]
OneInstall == Ask(1, 0, 0)
OneInstallOneUpdate == Ask(1, 1, 0)
InstallDelete == Ask(1, 0, 1)
TwoInstallsOneDelete == Ask(2, 0, 1)
=============================================================================
