------------------------- MODULE DeploymentPointer -------------------------
(***************************************************************************)
(* What the deployment store promises about one target: intents are        *)
(* numbered as they are accepted, an intent gives way to a newer one, the  *)
(* active build only ever moves to the newest intent or, when the branch   *)
(* disappears, to none.  Versions, observations and the remote repository  *)
(* are out of sight; Deployments implements this specification with them.  *)
(***************************************************************************)
EXTENDS Naturals

CONSTANT MaxIntent    \* a natural number

VARIABLES
    newest,    \* the last intent accepted, 0 for none
    active,    \* the intent whose build is deployed, 0 for none
    outcome    \* what became of each intent

pointerVars == <<newest, active, outcome>>

Intents == 1..MaxIntent
Outcomes == {"NONE", "PENDING", "DEPLOYED", "ENDED"}

PointerInit ==
    /\ newest = 0
    /\ active = 0
    /\ outcome = [i \in Intents |-> "NONE"]

\* The outcomes once no intent is pending.
GivenUp == [i \in Intents |-> IF outcome[i] = "PENDING" THEN "ENDED" ELSE outcome[i]]

Accepts ==
    /\ newest < MaxIntent
    /\ newest' = newest + 1
    /\ outcome' = [GivenUp EXCEPT ![newest'] = "PENDING"]
    /\ UNCHANGED active

Deploys ==
    /\ newest # 0
    /\ outcome[newest] = "PENDING"
    /\ outcome' = [outcome EXCEPT ![newest] = "DEPLOYED"]
    /\ active' = newest
    /\ UNCHANGED newest

Ends(i) ==
    /\ outcome[i] = "PENDING"
    /\ outcome' = [outcome EXCEPT ![i] = "ENDED"]
    /\ UNCHANGED <<newest, active>>

\* The branch has gone.
Disappears ==
    /\ active' = 0
    /\ outcome' = GivenUp
    /\ UNCHANGED newest

PointerNext == Accepts \/ Deploys \/ Disappears \/ \E i \in Intents : Ends(i)

PointerSpec == PointerInit /\ [][PointerNext]_pointerVars

-----------------------------------------------------------------------------
(* Consequences.                                                           *)

\* Only the newest intent is pending, and the active one is the newest that
\* was ever deployed, unless the branch disappeared.
PointerIsNewest ==
    /\ newest \in 0..MaxIntent
    /\ active \in 0..MaxIntent
    /\ outcome \in [Intents -> Outcomes]
    /\ \A i \in Intents :
         /\ outcome[i] = "NONE" <=> i > newest
         /\ outcome[i] = "PENDING" => i = newest
         /\ outcome[i] = "DEPLOYED" => active = 0 \/ i <= active
    /\ active # 0 => outcome[active] = "DEPLOYED"

\* The pointer never goes back to an older build.
NeverBack == [][active' = 0 \/ active' >= active]_pointerVars
=============================================================================
