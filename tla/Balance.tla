------------------------------- MODULE Balance -------------------------------
(***************************************************************************)
(* Choosing a server. ConsistentHash (common/consistent_hash.cc) is a ring *)
(* of virtual nodes that servers join and leave; the strategies of         *)
(* net/load_balance.h choose one of the addresses they are given with the  *)
(* call, and keep state from call to call: there is one object of each     *)
(* strategy for the whole process, under a mutex.                          *)
(***************************************************************************)
EXTENDS HashRing, Sequences

CONSTANTS
    Nodes,      \* servers: index of a ConsistentHash, address of a strategy
    Hashes,     \* where the virtual nodes of each can be: the hash is any of these
    Keys,       \* the hash values of what is looked up
    Methods,    \* m_method_name
    Lists       \* the lists of addresses that callers pass to select

ASSUME BalanceAssumption ==
    /\ Hashes \subseteq [Nodes -> (SUBSET Nat) \ {{}}]
    /\ Keys \subseteq Nat
    /\ Lists \subseteq Seq(Nodes) \ {<<>>}

NoPick == [how |-> "none"]

VARIABLES
    hash,       \* the hash function, which never changes
    ring,       \* server_nodes_
    members,    \* history: the nodes added and not deleted
    index,      \* index_ of the round robin
    selectors,  \* selectors_: the ring of each method, empty before its first call
    pick        \* history: the last choice of a strategy

balanceVars == <<hash, ring, members, index, selectors, pick>>

\* ConsistentHashSelector, which does map[point] = address for each address in turn:
\* where two of them meet, the later one stays.
IsLastAt(addrs, p, i) ==
    p \in hash[addrs[i]] /\ \A j \in DOMAIN addrs : j > i => p \notin hash[addrs[j]]

SelectorFor(addrs) ==
    [p \in UNION {hash[addrs[i]] : i \in DOMAIN addrs} |->
        addrs[CHOOSE i \in DOMAIN addrs : IsLastAt(addrs, p, i)]]

\* Every point on the ring belongs to a member, at a place of its own. A point
\* of a member that is not there went with a node that has the same one.
RingIsMembers ==
    /\ \A p \in DOMAIN ring : ring[p] \in members /\ p \in hash[ring[p]]
    /\ \A n \in members : \A p \in hash[n] :
           p \in DOMAIN ring \/ \E m \in Nodes \ {n} : p \in hash[m]

BalanceTypeOK ==
    /\ hash \in Hashes
    /\ members \subseteq Nodes
    /\ RingIsMembers
    /\ index \in Nat
    /\ \A m \in Methods : \E addrs \in Lists \cup {<<>>} : selectors[m] = SelectorFor(addrs)

\* Initialize is AddNewNode for each of its nodes in turn.
BalanceInit ==
    /\ hash \in Hashes
    /\ ring = EmptyRing
    /\ members = {}
    /\ index = 0
    /\ selectors = [m \in Methods |-> EmptyRing]
    /\ pick = NoPick

\* A node that is a member already gets back the points that it has lost.
AddNewNode(n) ==
    /\ ring' = Insert(ring, hash[n], n)
    /\ members' = members \cup {n}
    /\ UNCHANGED <<hash, index, selectors, pick>>

\* A node that is no member takes the points of others with it all the same.
DeleteNode(n) ==
    /\ ring' = Erase(ring, hash[n])
    /\ members' = members \ {n}
    /\ UNCHANGED <<hash, index, selectors, pick>>

\* RandomLoadBalanceStrategy::select: the clock decides.
SelectRandom(addrs) ==
    /\ \E i \in DOMAIN addrs : pick' = [how |-> "Random", from |-> addrs, to |-> addrs[i]]
    /\ UNCHANGED <<hash, ring, members, index, selectors>>

\* Mutant of SelectRound: going back to the first address is not counted.
SelectRoundTwice(addrs) ==
    /\ LET i == IF index >= Len(addrs) THEN 0 ELSE index
       IN  /\ pick' = [how |-> "Round", from |-> addrs, to |-> addrs[i + 1]]
           /\ index' = IF index >= Len(addrs) THEN 0 ELSE index + 1
    /\ UNCHANGED <<hash, ring, members, selectors>>

\* RoundLoadBalanceStrategy::select, with one index for all lists.
SelectRound(addrs) ==
    /\ LET i == IF index >= Len(addrs) THEN 0 ELSE index
       IN  /\ pick' = [how |-> "Round", from |-> addrs, to |-> addrs[i + 1]]
           /\ index' = i + 1
    /\ UNCHANGED <<hash, ring, members, selectors>>

\* A method's selector is made at its first call. When the list has changed since
\* a new one is made, and insert does not put it in the place of the old one.
Selectors(m, addrs) ==
    IF selectors[m] = EmptyRing THEN [selectors EXCEPT ![m] = SelectorFor(addrs)]
    ELSE selectors

\* ConsistentHashLoadBalanceStrategy::select.
SelectConsistentHash(m, h, addrs) ==
    /\ selectors' = Selectors(m, addrs)
    /\ pick' = [how |-> "ConsistentHash", from |-> addrs, to |-> Lookup(selectors'[m], h)]
    /\ UNCHANGED <<hash, ring, members, index>>

Select(addrs) ==
    \/ SelectRandom(addrs)
    \/ SelectRound(addrs)
    \/ \E m \in Methods, h \in Keys : SelectConsistentHash(m, h, addrs)

BalanceNext ==
    \/ \E n \in Nodes : AddNewNode(n) \/ DeleteNode(n)
    \/ \E addrs \in Lists : Select(addrs)

BalanceSpec == BalanceInit /\ [][BalanceNext]_balanceVars

-----------------------------------------------------------------------------
(* Properties.                                                             *)

\* A change of the ring moves few keys: to points that the node which is added has
\* got with it, or away from points that went because the node which is deleted has
\* one there, even if the point was another's (consistent_hash.cc:53 erases it all
\* the same).
KeysMoveOnlyWhenTheyMust ==
    [][DOMAIN ring # {} /\ DOMAIN ring' # {} =>
       \E n \in Nodes : \A h \in Keys : Lookup(ring', h) # Lookup(ring, h) =>
         \/ Lookup(ring', h) = n /\ Successor(ring', h) \in hash[n] \ DOMAIN ring
         \/ Successor(ring, h) \in hash[n] \ DOMAIN ring']_balanceVars

\* A list that is asked twice in a row gives the address after the last one, and the
\* first again after its last, although one index serves the lists of all channels
\* and may be past the end of the next of them (load_balance.h:50).
RoundTakesTurns ==
    [][pick.how = "Round" /\ pick'.how = "Round" /\ pick.from = pick'.from =>
       <<index, pick>>' = <<index, pick>> \/
       \E i \in DOMAIN pick.from :
           /\ pick.to = pick.from[i]
           /\ pick'.to = pick.from[IF i = Len(pick.from) THEN 1 ELSE i + 1]]_balanceVars

\* A strategy chooses one of the addresses that it is given with the call: when the
\* list has grown or shrunk, ConsistentHash makes its selector anew, as the comment
\* above the test says (load_balance.h:68-69).
PickIsOffered ==
    pick # NoPick => \E i \in DOMAIN pick.from : pick.to = pick.from[i]
=============================================================================
