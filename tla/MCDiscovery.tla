----------------------------- MODULE MCDiscovery -----------------------------
(***************************************************************************)
(* Both halves of how a caller finds a server: servers publish themselves  *)
(* (Registry) and callers choose one (Balance). The two share no state: a  *)
(* caller does not look at the tree when it chooses, nor does a server     *)
(* look at what was chosen. So each moves while the other one is still as  *)
(* it began, and what is reached is what each reaches on its own.          *)
(***************************************************************************)
EXTENDS Registry, MCBalance

allVars == <<vars, balanceVars>>

DiscoveryInit == Init /\ BalanceInit

NothingPublished == \A s \in Servers : opened[s] = 0

\* One hash function is enough where nothing is chosen.
NothingChosen ==
    /\ hash = CHOOSE f \in Hashes : TRUE
    /\ ring = EmptyRing /\ members = {} /\ pick = NoPick

DiscoveryNext ==
    \/ Next /\ NothingChosen /\ UNCHANGED balanceVars
    \/ BalanceNext /\ NothingPublished /\ UNCHANGED vars

DiscoverySpec == DiscoveryInit /\ [][DiscoveryNext]_allVars /\ Fairness
=============================================================================
