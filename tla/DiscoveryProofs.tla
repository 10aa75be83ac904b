--------------------------- MODULE DiscoveryProofs ---------------------------
(***************************************************************************)
(* How a caller finds a server. Registry: it keeps its types, what is not  *)
(* found of a server that serves is what ServingIsFound says, and one that *)
(* races stays, for any number of servers, services, sessions and cuts.    *)
(* Balance: the ring belongs to its members, a key moves only when it      *)
(* must, and the round robin takes turns, for any number of nodes and any  *)
(* hash function, collisions included.                                     *)
(***************************************************************************)
EXTENDS Registry, Balance, FiniteSetTheorems, WellFoundedInduction, TLAPS

-----------------------------------------------------------------------------
(* Registry: the walk over the paths.                                      *)

\* Create walks over the paths, and every path is one of its walk.
LEMMA PathsAreWalked ==
    /\ \A i \in 1..2 * NumServices : PathAt(i) \in Paths
    /\ \A p \in Paths : \E i \in 1..2 * NumServices : p = PathAt(i)
<1>1. ASSUME NEW i \in 1..2 * NumServices PROVE PathAt(i) \in Paths
  <2>1. (i + 1) \div 2 \in Services
    BY RegistryAssumption DEF Services
  <2> QED
    BY <2>1 DEF PathAt, Paths
<1>2. ASSUME NEW p \in Paths PROVE \E i \in 1..2 * NumServices : p = PathAt(i)
  <2>1. p.of \in 1..NumServices /\ p.kind \in {"service", "method"}
        /\ p = [kind |-> p.kind, of |-> p.of]
    BY DEF Paths, Services
  <2>2. CASE p.kind = "service"
    <3>1. 2 * p.of - 1 \in 1..2 * NumServices /\ (2 * p.of - 1) % 2 = 1
          /\ (2 * p.of - 1 + 1) \div 2 = p.of
      BY <2>1, RegistryAssumption
    <3>2. PathAt(2 * p.of - 1) = [kind |-> "service", of |-> p.of]
      BY <3>1 DEF PathAt
    <3> QED
      BY <2>1, <2>2, <3>1, <3>2
  <2>3. CASE p.kind = "method"
    <3>1. 2 * p.of \in 1..2 * NumServices /\ (2 * p.of) % 2 # 1
          /\ (2 * p.of + 1) \div 2 = p.of
      BY <2>1, RegistryAssumption
    <3>2. PathAt(2 * p.of) = [kind |-> "method", of |-> p.of]
      BY <3>1 DEF PathAt
    <3> QED
      BY <2>1, <2>3, <3>1, <3>2
  <2> QED
    BY <2>1, <2>2, <2>3
<1> QED
  BY <1>1, <1>2

-----------------------------------------------------------------------------
(* The inductive invariant.                                                *)

\* Where each server can be on its walk over the paths.
WalkInv ==
    \A s \in Servers :
        /\ pc[s] \in Alive => round[s] >= 1
        /\ pc[s] \in {"exists", "create"} => at[s] <= 2 * round[s]
        /\ pc[s] = "next" => round[s] < NumServices
        /\ pc[s] = "serving" => at[s] = 2 * NumServices + 1

\* Start has returned, or is about to, because its session was connected; one that
\* is connected no more has been cut, and so had an earlier one whose late post was
\* taken for its own.
Held(s) == link[Handle(s)] = "connected" \/ cut # {}

SessionInv ==
    /\ \A s \in Servers : \A i \in 1..MaxSessions :
           link[<<s, i>>] = "none" <=> i > opened[s]
    /\ \A s \in Servers : pc[s] \in Alive => Handle(s) \in Sessions
    /\ \A s \in Servers :
           /\ sem[s] => pc[s] \in {"init", "wait"} /\ Held(s)
           /\ pc[s] \in {"exists", "create", "next"} => Held(s)

\* The earlier sessions of a process stay connected, as long as none is cut.
OwnInv ==
    cut = {} => \A s \in Servers : pc[s] \in Alive =>
        \A h \in Own(s) \ {Handle(s)} : link[h] = "connected"

\* What is missing of the paths that a server has passed is what the history says.
FoundInv ==
    \A s \in Servers :
        /\ \A p \in dropped[s] \cup overlooked[s] : Missing(p)
        /\ \A p \in Passed(s) : Missing(p) => p \in dropped[s] \cup overlooked[s]
        /\ overlooked[s] # {} => cut # {}

RegInv == TypeOK /\ WalkInv /\ SessionInv /\ OwnInv /\ FoundInv

-----------------------------------------------------------------------------

LEMMA InitInv == Init => RegInv
<1> SUFFICES ASSUME Init PROVE RegInv
  OBVIOUS
<1>1. TypeOK
  BY RegistryAssumption DEF Init, TypeOK, Alive
<1>2. WalkInv
  BY DEF Init, WalkInv, Alive
<1>3. SessionInv
  BY RegistryAssumption DEF Init, SessionInv, Alive, Sessions
<1>4. OwnInv
  BY DEF Init, OwnInv, Alive
<1>5. FoundInv
  BY DEF Init, FoundInv, Passed
<1> QED
  BY <1>1, <1>2, <1>3, <1>4, <1>5 DEF RegInv

\* A server may open a session only while it has not opened them all.
LEMMA RoomIsForOne ==
    ASSUME RegInv, RoomForOne, NEW s \in Servers
    PROVE  opened[s] < MaxSessions
<1> DEFINE all == {h \in Sessions : link[h] # "none"}
           mine == {s} \X (1..MaxSessions)
<1>0. opened[s] \in 0..MaxSessions /\ MaxSessions \in Nat /\ IsFiniteSet(Servers)
  BY RegistryAssumption DEF RegInv, TypeOK
<1>1. IsFiniteSet(1..MaxSessions) /\ Cardinality(1..MaxSessions) = MaxSessions
  <2>1. 1 \in Int /\ MaxSessions \in Int
    BY <1>0
  <2>2. Cardinality(1..MaxSessions) = IF 1 > MaxSessions THEN 0 ELSE MaxSessions - 1 + 1
    BY <2>1, FS_Interval
  <2> QED
    BY <1>0, <2>1, <2>2, FS_Interval
<1>2. IsFiniteSet(Sessions)
  BY <1>0, <1>1, FS_Product DEF Sessions
<1>3. IsFiniteSet(all)
  BY <1>2, FS_Subset
<1>4. Cardinality(mine) = MaxSessions
  <2>1. IsFiniteSet({s}) /\ Cardinality({s}) = 1
    BY FS_Singleton
  <2>2. Cardinality(mine) = Cardinality({s}) * Cardinality(1..MaxSessions)
    BY <1>1, <2>1, FS_Product
  <2> QED
    BY <1>0, <1>1, <2>1, <2>2
<1>5. SUFFICES ASSUME opened[s] = MaxSessions PROVE FALSE
  BY <1>0
<1>6. mine \subseteq all
  BY <1>0, <1>5 DEF RegInv, SessionInv, Sessions
<1>7. Cardinality(mine) <= Cardinality(all) /\ Cardinality(all) \in Nat
  BY <1>3, <1>6, FS_Subset, FS_CardinalityType
<1>8. Cardinality(all) < MaxSessions
  BY DEF RoomForOne
<1> QED
  BY <1>0, <1>4, <1>7, <1>8

LEMMA PassedArePaths ==
    ASSUME RegInv, NEW t \in Servers PROVE Passed(t) \subseteq Paths
<1>1. at[t] - 1 \in 0..2 * NumServices /\ NumServices \in Nat
  BY RegistryAssumption DEF RegInv, TypeOK
<1>2. \A i \in 1..at[t] - 1 : i \in 1..2 * NumServices
  BY <1>1
<1> QED
  BY <1>2, PathsAreWalked DEF Passed

\* What a step does to the tree, and the history with it.
TreeStep ==
    \/ UNCHANGED <<node, dropped, overlooked>>
    \/ \E h \in Sessions : Drop(h)
    \/ \E s \in Servers : Path(s) \in Paths /\ Handle(s) \in Sessions /\ Make(s)

\* Make leaves nothing missing, Drop writes down what it takes.
LEMMA FoundIsKept ==
    ASSUME RegInv, TreeStep, cut \subseteq cut',
           \A t \in Servers : \A p \in Passed(t)' : p \in Passed(t) \/ ~Missing(p)'
    PROVE  FoundInv'
<1>1. CASE UNCHANGED <<node, dropped, overlooked>>
  BY <1>1 DEF RegInv, FoundInv, Missing
<1>2. ASSUME NEW h \in Sessions, Drop(h) PROVE FoundInv'
  <2>1. /\ \A p \in Paths : node'[p] = IF node[p] = h THEN NoNode ELSE node[p]
        /\ \A t \in Servers :
              dropped'[t] = dropped[t] \cup ({p \in Paths : node[p] = h} \cap Passed(t))
        /\ overlooked' = overlooked
    BY <1>2 DEF Drop
  <2>2. \A t \in Servers : dropped[t] \subseteq Paths /\ overlooked[t] \subseteq Paths
    BY DEF RegInv, TypeOK
  <2>3. ASSUME NEW t \in Servers, NEW p \in dropped'[t] \cup overlooked'[t]
        PROVE  node'[p] = NoNode
    BY <2>1, <2>2 DEF RegInv, FoundInv, Missing
  <2>4. ASSUME NEW t \in Servers, NEW p \in Passed(t)', p \in Paths, node'[p] = NoNode
        PROVE  p \in dropped'[t] \cup overlooked'[t]
    <3>1. p \in Passed(t)
      BY <2>4 DEF Missing
    <3> QED
      BY <2>1, <2>4, <3>1 DEF RegInv, FoundInv, Missing
  <2>5. \A t \in Servers : Passed(t) \subseteq Paths
    BY PassedArePaths
  <2>6. ASSUME NEW t \in Servers, NEW p \in Passed(t)', node'[p] = NoNode
        PROVE  p \in dropped'[t] \cup overlooked'[t]
    BY <2>4, <2>5, <2>6 DEF Missing
  <2> QED
    BY <2>1, <2>3, <2>6 DEF RegInv, FoundInv, Missing
<1>3. ASSUME NEW s \in Servers, Path(s) \in Paths, Handle(s) \in Sessions, Make(s)
      PROVE  FoundInv'
  <2>1. /\ node'[Path(s)] # NoNode
        /\ \A p \in Paths : p # Path(s) => node'[p] = node[p]
        /\ \A t \in Servers : /\ dropped'[t] = dropped[t] \ {Path(s)}
                              /\ overlooked'[t] = overlooked[t] \ {Path(s)}
    BY <1>3, RegistryAssumption DEF Make, Known, RegInv, TypeOK
  <2>2. \A t \in Servers : dropped[t] \subseteq Paths /\ overlooked[t] \subseteq Paths
    BY DEF RegInv, TypeOK
  <2>3. ASSUME NEW t \in Servers, NEW p \in dropped'[t] \cup overlooked'[t]
        PROVE  node'[p] = NoNode
    BY <2>1, <2>2 DEF RegInv, FoundInv, Missing
  <2>4. \A t \in Servers : Passed(t) \subseteq Paths
    BY PassedArePaths
  <2>5. ASSUME NEW t \in Servers, NEW p \in Passed(t)', node'[p] = NoNode
        PROVE  p \in dropped'[t] \cup overlooked'[t]
    <3>1. p \in Passed(t) /\ p \in Paths
      BY <2>4, <2>5 DEF Missing
    <3> QED
      BY <2>1, <2>5, <3>1 DEF RegInv, FoundInv, Missing
  <2>6. \A t \in Servers : overlooked'[t] # {} => cut' # {}
    BY <2>1 DEF RegInv, FoundInv
  <2> QED
    BY <2>3, <2>5, <2>6 DEF FoundInv, Missing
<1> QED
  BY <1>1, <1>2, <1>3 DEF TreeStep

LEMMA StartKeeps ==
    ASSUME RegInv, NEW s \in Servers, Start(s)
    PROVE  RegInv'
<1>1. opened[s] < MaxSessions /\ opened[s] \in Nat /\ round[s] \in Nat
      /\ round[s] <= opened[s] /\ MaxSessions \in Nat
  BY RoomIsForOne, RegistryAssumption DEF Start, RegInv, TypeOK
<1>2. round[s] + 1 \in 0..NumServices \/ pc[s] # "next"
  BY RegistryAssumption DEF RegInv, TypeOK, WalkInv
<1>3. <<s, opened[s] + 1>> \in Sessions /\ link[<<s, opened[s] + 1>>] = "none"
  BY <1>1 DEF RegInv, SessionInv, Sessions
<1>4. pc' = [pc EXCEPT ![s] = "init"]
  BY DEF Start, Goto
<1>5. TypeOK'
  <2>1. /\ round' \in [Servers -> 0..NumServices]
        /\ opened' \in [Servers -> 0..MaxSessions]
        /\ \A t \in Servers : round'[t] <= opened'[t]
    BY <1>1, <1>2, RegistryAssumption DEF Start, RegInv, TypeOK
  <2>2. link' \in [Sessions -> {"none", "connecting", "connected", "lost", "gone"}]
    BY DEF Start, RegInv, TypeOK
  <2>3. pc' \in [Servers -> Alive \cup {"down", "exited", "crashed"}]
    BY <1>4 DEF RegInv, TypeOK, Alive
  <2>4. \A p \in Paths : node'[p] \in Sessions =>
            p.kind = "method" /\ link'[node'[p]] \in {"connected", "lost"}
    BY <1>3 DEF Start, RegInv, TypeOK
  <2>5. UNCHANGED <<at, sem, node, cut, dropped, overlooked>>
    BY DEF Start, historyVars
  <2> QED
    BY <2>1, <2>2, <2>3, <2>4, <2>5 DEF RegInv, TypeOK
<1>6. WalkInv'
  BY <1>1, <1>4 DEF Start, RegInv, TypeOK, WalkInv, Alive
<1>7. SessionInv'
  <2>1. opened' = [opened EXCEPT ![s] = @ + 1]
        /\ link' = [link EXCEPT ![<<s, opened[s] + 1>>] = "connecting"]
        /\ sem' = sem /\ cut' = cut
    BY DEF Start, historyVars
  <2>2. \A t \in Servers : \A i \in 1..MaxSessions :
            link'[<<t, i>>] = "none" <=> i > opened'[t]
    <3> SUFFICES ASSUME NEW t \in Servers, NEW i \in 1..MaxSessions
                 PROVE  link'[<<t, i>>] = "none" <=> i > opened'[t]
      OBVIOUS
    <3>1. <<t, i>> \in Sessions /\ opened[t] \in Nat /\ (link[<<t, i>>] = "none" <=> i > opened[t])
      BY DEF RegInv, TypeOK, SessionInv, Sessions
    <3>2. CASE t = s /\ i = opened[s] + 1
      BY <1>1, <1>3, <2>1, <3>1, <3>2 DEF RegInv, TypeOK
    <3>3. CASE ~(t = s /\ i = opened[s] + 1)
      <4>1. link'[<<t, i>>] = link[<<t, i>>]
        BY <2>1, <3>1, <3>3 DEF RegInv, TypeOK
      <4>2. opened'[t] = IF t = s THEN opened[s] + 1 ELSE opened[t]
        BY <2>1 DEF RegInv, TypeOK
      <4>3. i > opened'[t] <=> i > opened[t]
        BY <3>1, <3>3, <4>2
      <4> QED
        BY <3>1, <4>1, <4>3
    <3> QED
      BY <3>2, <3>3
  <2>3. \A t \in Servers : t # s =>
            /\ Handle(t)' = Handle(t)
            /\ Handle(t) \in Sessions => (Held(t) <=> Held(t)')
    <3>1. ASSUME NEW t \in Servers, t # s PROVE Handle(t)' = Handle(t)
      BY <2>1, <3>1 DEF RegInv, TypeOK, Handle
    <3>2. ASSUME NEW t \in Servers, t # s, Handle(t) \in Sessions
          PROVE  link'[Handle(t)] = link[Handle(t)]
      BY <2>1, <3>2 DEF RegInv, TypeOK, Handle
    <3> QED
      BY <2>1, <3>1, <3>2 DEF Held
  <2>4. Handle(s)' \in Sessions
    BY <1>1, <1>3, <2>1 DEF RegInv, TypeOK, Handle
  <2>5. ~sem[s]
    BY DEF Start, RegInv, SessionInv, Alive
  <2>6. \A t \in Servers : pc'[t] \in Alive => Handle(t)' \in Sessions
    BY <1>4, <2>3, <2>4 DEF RegInv, TypeOK, SessionInv
  <2>7. \A t \in Servers :
            /\ sem'[t] => pc'[t] \in {"init", "wait"} /\ Held(t)'
            /\ pc'[t] \in {"exists", "create", "next"} => Held(t)'
    BY <1>4, <2>1, <2>3, <2>5 DEF RegInv, TypeOK, SessionInv, Alive
  <2> QED
    BY <2>2, <2>6, <2>7 DEF SessionInv
<1>8. OwnInv'
  <2> SUFFICES ASSUME cut = {}, NEW t \in Servers, pc'[t] \in Alive,
                      NEW h \in Own(t)', h # Handle(t)'
               PROVE  link'[h] = "connected"
    BY DEF OwnInv, Start, historyVars
  <2>1. CASE t = s
    <3>1. pc[s] = "next" => round'[s] = round[s] + 1
      BY DEF Start, RegInv, TypeOK
    <3>2. pc[s] # "next" => round'[s] = 1
      BY DEF Start, RegInv, TypeOK
    <3>3. opened'[s] = opened[s] + 1
      BY DEF Start, RegInv, TypeOK
    <3>4. PICK i \in opened'[s] - round'[s] + 1..opened'[s] : h = <<s, i>>
      BY <2>1 DEF Own
    <3>5. i # opened[s] + 1
      BY <2>1, <3>3, <3>4 DEF Handle
    <3>6. pc[s] = "next"
      BY <1>1, <3>2, <3>3, <3>4, <3>5
    <3>7. i \in opened[s] - round[s] + 1..opened[s] /\ i \in 1..MaxSessions
      BY <1>1, <3>1, <3>3, <3>4, <3>5, <3>6
    <3>8. h \in Own(s) /\ h \in Sessions /\ link'[h] = link[h]
      BY <3>4, <3>5, <3>7 DEF Own, Sessions, Start, RegInv, TypeOK
    <3>9. CASE h = Handle(s)
      BY <3>6, <3>8, <3>9 DEF RegInv, SessionInv, Held
    <3>10. CASE h # Handle(s)
      BY <3>6, <3>8, <3>10 DEF RegInv, OwnInv, Alive
    <3> QED
      BY <3>9, <3>10
  <2>2. CASE t # s
    <3>1. /\ Own(t)' = Own(t) /\ Handle(t)' = Handle(t) /\ pc'[t] = pc[t]
          /\ h \in Own(t) /\ h # <<s, opened[s] + 1>>
      BY <1>4, <2>2 DEF Own, Handle, Start, RegInv, TypeOK
    <3>2. link[h] = "connected"
      BY <3>1 DEF RegInv, OwnInv
    <3> QED
      BY <3>1, <3>2 DEF Start, RegInv, TypeOK
  <2> QED
    BY <2>1, <2>2
<1>9. FoundInv'
  <2>1. TreeStep /\ cut' = cut /\ at' = at
    BY DEF Start, TreeStep, historyVars
  <2> QED
    BY <2>1, FoundIsKept DEF Passed
<1> QED
  BY <1>5, <1>6, <1>7, <1>8, <1>9 DEF RegInv

LEMMA SetContextKeeps ==
    ASSUME RegInv, NEW s \in Servers, SetContext(s)
    PROVE  RegInv'
<1>1. pc' = [pc EXCEPT ![s] = "wait"] /\ pc[s] = "init"
      /\ UNCHANGED <<round, at, opened, sem, link, node, cut, dropped, overlooked>>
  BY DEF SetContext, Goto, historyVars
<1>2. TypeOK'
  BY <1>1 DEF RegInv, TypeOK, Alive
<1>3. WalkInv'
  BY <1>1 DEF RegInv, TypeOK, WalkInv, Alive
<1>4. SessionInv'
  BY <1>1 DEF RegInv, TypeOK, SessionInv, Held, Handle, Alive
<1>5. OwnInv'
  BY <1>1 DEF RegInv, TypeOK, OwnInv, Own, Handle, Alive
<1>6. FoundInv'
  BY <1>1, FoundIsKept DEF TreeStep, Passed
<1> QED
  BY <1>2, <1>3, <1>4, <1>5, <1>6 DEF RegInv

\* A server begins its walk: its session is connected, and nothing is passed yet.
LEMMA StartReturnsKeeps ==
    ASSUME RegInv, NEW s \in Servers, StartReturns(s)
    PROVE  RegInv'
<1>1. /\ pc' = [pc EXCEPT ![s] = "exists"] /\ pc[s] = "wait"
      /\ sem[s] /\ sem' = [sem EXCEPT ![s] = FALSE] /\ at' = [at EXCEPT ![s] = 1]
      /\ dropped' = [dropped EXCEPT ![s] = {}] /\ overlooked' = [overlooked EXCEPT ![s] = {}]
      /\ UNCHANGED <<round, opened, link, node, cut>>
  BY DEF StartReturns, Goto
<1>2. TypeOK'
  BY <1>1, RegistryAssumption DEF RegInv, TypeOK, Alive
<1>3. round[s] >= 1 /\ round[s] \in Nat
  BY <1>1 DEF RegInv, TypeOK, WalkInv, Alive
<1>4. WalkInv'
  BY <1>1, <1>3 DEF RegInv, TypeOK, WalkInv, Alive
<1>5. SessionInv'
  BY <1>1 DEF RegInv, TypeOK, SessionInv, Held, Handle, Alive
<1>6. OwnInv'
  BY <1>1 DEF RegInv, TypeOK, OwnInv, Own, Handle, Alive
<1>7. FoundInv'
  <2>1. Passed(s)' = {}
    BY <1>1 DEF Passed, RegInv, TypeOK
  <2>2. \A t \in Servers : t # s =>
            Passed(t)' = Passed(t) /\ dropped'[t] = dropped[t] /\ overlooked'[t] = overlooked[t]
    BY <1>1 DEF Passed, RegInv, TypeOK
  <2>3. dropped'[s] = {} /\ overlooked'[s] = {}
    BY <1>1 DEF RegInv, TypeOK
  <2> QED
    BY <1>1, <2>1, <2>2, <2>3 DEF RegInv, FoundInv, Missing
<1> QED
  BY <1>2, <1>4, <1>5, <1>6, <1>7 DEF RegInv

\* The walk goes on by one place.
LEMMA PassesOne ==
    ASSUME RegInv, NEW s \in Servers, Advance(s)
    PROVE  \A t \in Servers : \A p \in Passed(t)' : p \in Passed(t) \/ (t = s /\ p = Path(s))
<1>1. at' = [at EXCEPT ![s] = @ + 1] /\ at \in [Servers -> 1..2 * NumServices + 1]
  BY DEF Advance, RegInv, TypeOK
<1>2. ASSUME NEW t \in Servers, NEW p \in Passed(t)', t # s PROVE p \in Passed(t)
  BY <1>1, <1>2 DEF Passed
<1>3. ASSUME NEW p \in Passed(s)' PROVE p \in Passed(s) \/ p = Path(s)
  <2>1. at[s] \in Nat /\ at'[s] = at[s] + 1
    BY <1>1, RegistryAssumption
  <2>2. PICK i \in 1..at'[s] - 1 : p = PathAt(i)
    BY <1>3 DEF Passed
  <2>3. i = at[s] \/ i \in 1..at[s] - 1
    BY <2>1
  <2> QED
    BY <2>2, <2>3 DEF Passed, Path
<1> QED
  BY <1>2, <1>3

LEMMA AdvanceKeeps ==
    ASSUME RegInv, NEW s \in Servers, pc[s] \in {"exists", "create"}, Advance(s),
           UNCHANGED <<opened, cut, link>>, TypeOK', FoundInv'
    PROVE  RegInv'
<1>1. /\ pc' = [pc EXCEPT ![s] = NextPlace(s)] /\ at' = [at EXCEPT ![s] = @ + 1]
      /\ round' = round /\ sem' = sem
  BY DEF Advance, Goto
<1>2. at[s] \in Nat /\ round[s] \in Nat /\ at[s] >= 1 /\ at[s] <= 2 * round[s]
      /\ round[s] <= NumServices /\ round[s] >= 1 /\ NumServices \in Nat
  BY RegistryAssumption DEF RegInv, TypeOK, WalkInv, Alive
<1>3. WalkInv'
  <2>1. /\ NextPlace(s) = "exists" => at[s] + 1 <= 2 * round[s]
        /\ NextPlace(s) = "next" => round[s] < NumServices
        /\ NextPlace(s) = "serving" => at[s] + 1 = 2 * NumServices + 1
        /\ NextPlace(s) # "create"
    BY <1>2 DEF NextPlace
  <2> QED
    BY <1>1, <1>2, <2>1 DEF RegInv, TypeOK, WalkInv
<1>4. NextPlace(s) \in Alive /\ NextPlace(s) \notin {"init", "wait"}
  BY DEF NextPlace, Alive
<1>5. SessionInv'
  <2>1. ~sem[s] /\ Held(s) /\ Handle(s) \in Sessions
    BY DEF RegInv, SessionInv, Alive
  <2> QED
    BY <1>1, <1>4, <2>1, SMTT(60) DEF RegInv, TypeOK, SessionInv, Held, Handle
<1>6. OwnInv'
  <2>1. pc[s] \in Alive /\ \A t \in Servers : pc'[t] \in Alive => pc[t] \in Alive
    BY <1>1 DEF RegInv, TypeOK, Alive
  <2> QED
    BY <1>1, <2>1 DEF RegInv, OwnInv, Own, Handle
<1> QED
  BY <1>3, <1>5, <1>6 DEF RegInv

LEMMA ExistsKeeps ==
    ASSUME RegInv, NEW s \in Servers, Exists(s)
    PROVE  RegInv'
<1>1. pc[s] = "exists" /\ UNCHANGED <<opened, link, node, cut, dropped>>
  BY DEF Exists
<1>2. Path(s) \in Paths
  BY <1>1, PathsAreWalked, RegistryAssumption DEF Path, RegInv, TypeOK, WalkInv, Alive
<1>3. CASE Connected(s) /\ Missing(Path(s))
  <2>1. pc' = [pc EXCEPT ![s] = "create"] /\ UNCHANGED <<at, round, sem, overlooked>>
    BY <1>3 DEF Exists, Goto
  <2>2. TypeOK'
    BY <1>1, <2>1 DEF RegInv, TypeOK, Alive
  <2>3. WalkInv'
    BY <1>1, <2>1 DEF RegInv, TypeOK, WalkInv, Alive
  <2>4. SessionInv'
    BY <1>1, <2>1 DEF RegInv, TypeOK, SessionInv, Held, Handle, Alive
  <2>5. OwnInv'
    BY <1>1, <2>1 DEF RegInv, TypeOK, OwnInv, Own, Handle, Alive
  <2>6. FoundInv'
    BY <1>1, <2>1, FoundIsKept DEF TreeStep, Passed
  <2> QED
    BY <2>2, <2>3, <2>4, <2>5, <2>6 DEF RegInv
<1>4. CASE ~(Connected(s) /\ Missing(Path(s)))
  <2>1. /\ Advance(s)
        /\ overlooked' = [overlooked EXCEPT ![s] = @ \cup {p \in {Path(s)} : Missing(p)}]
    BY <1>4 DEF Exists
  <2>2. TypeOK'
    <3>1. at[s] + 1 \in 1..2 * NumServices + 1
      BY <1>1, RegistryAssumption DEF RegInv, TypeOK, WalkInv
    <3>2. NextPlace(s) \in Alive
      BY DEF NextPlace, Alive
    <3>3. overlooked' \in [Servers -> SUBSET Paths]
      BY <1>2, <2>1 DEF RegInv, TypeOK
    <3> QED
      BY <1>1, <2>1, <3>1, <3>2, <3>3 DEF RegInv, TypeOK, Advance, Goto
  <2>3. Missing(Path(s)) => cut # {}
    BY <1>1, <1>4 DEF Connected, RegInv, SessionInv, Held
  <2>4. \A t \in Servers : overlooked[t] \subseteq overlooked'[t]
    BY <2>1 DEF RegInv, TypeOK
  <2>5. \A t \in Servers : \A p \in overlooked'[t] :
            p \in overlooked[t] \/ (t = s /\ p = Path(s) /\ Missing(Path(s)))
    BY <2>1 DEF RegInv, TypeOK
  <2>6. Missing(Path(s)) => Path(s) \in overlooked'[s]
    BY <2>1 DEF RegInv, TypeOK
  <2>7. \A t \in Servers : \A p \in Passed(t)' : p \in Passed(t) \/ (t = s /\ p = Path(s))
    BY <2>1, PassesOne
  <2>8. \A p : Missing(p)' = Missing(p)
    BY <1>1 DEF Missing
  <2>9. FoundInv'
    <3>1. \A t \in Servers : \A p \in dropped'[t] \cup overlooked'[t] : Missing(p)'
      BY <1>1, <2>5, <2>8 DEF RegInv, FoundInv
    <3>2. \A t \in Servers : \A p \in Passed(t)' :
              Missing(p)' => p \in dropped'[t] \cup overlooked'[t]
      BY <1>1, <2>4, <2>6, <2>7, <2>8 DEF RegInv, FoundInv
    <3>3. \A t \in Servers : overlooked'[t] # {} => cut' # {}
      BY <1>1, <2>3, <2>5 DEF RegInv, FoundInv
    <3> QED
      BY <3>1, <3>2, <3>3 DEF FoundInv
  <2> QED
    BY <1>1, <2>1, <2>2, <2>9, AdvanceKeeps
<1> QED
  BY <1>3, <1>4

-----------------------------------------------------------------------------
(* The end of a process, and the environment.                              *)

\* What the tree and the history are apart from link, which the end of a process
\* also changes.
NodeIsTyped ==
    /\ node \in [Paths -> {NoNode, Permanent} \cup Sessions]
    /\ \A p \in Paths : node[p] = Permanent => p.kind = "service"
    /\ dropped \in [Servers -> SUBSET Paths]
    /\ overlooked \in [Servers -> SUBSET Paths]

LEMMA GoneKeeps ==
    ASSUME RegInv, NEW s \in Servers, pc[s] \in Alive,
           NEW how \in {"exited", "crashed", "down"}, Gone(s, how),
           NEW closed \in SUBSET {Handle(s)}, Abandon(s, closed),
           UNCHANGED <<opened, cut>>, TreeStep, NodeIsTyped',
           \A p \in Paths : node'[p] \in Sessions =>
               /\ p.kind = "method" /\ node'[p] \notin closed
               /\ link[node'[p]] \in {"connected", "lost"}
    PROVE  RegInv'
<1>1. /\ pc' = [pc EXCEPT ![s] = how] /\ round' = [round EXCEPT ![s] = 0]
      /\ at' = [at EXCEPT ![s] = 1] /\ sem' = [sem EXCEPT ![s] = FALSE]
  BY DEF Gone, Goto
<1>2. Handle(s) \in Sessions /\ link[Handle(s)] # "none"
  BY RegistryAssumption DEF RegInv, SessionInv, TypeOK, Handle, Sessions
<1>3. /\ link' \in [Sessions -> {"none", "connecting", "connected", "lost", "gone"}]
      /\ \A h \in Sessions :
            /\ link'[h] = "none" <=> link[h] = "none"
            /\ link[h] \in {"connected", "lost"} /\ h \notin closed =>
                  link'[h] \in {"connected", "lost"}
            /\ h \notin closed /\ h \notin Own(s) => link'[h] = link[h]
  BY <1>2 DEF Abandon, RegInv, TypeOK
<1>4. TypeOK'
  <2>1. pc' \in [Servers -> Alive \cup {"down", "exited", "crashed"}]
    BY <1>1 DEF RegInv, TypeOK, Alive
  <2>2. /\ round' \in [Servers -> 0..NumServices]
        /\ at' \in [Servers -> 1..2 * NumServices + 1]
        /\ sem' \in [Servers -> BOOLEAN]
        /\ opened' \in [Servers -> 0..MaxSessions]
        /\ \A t \in Servers : round'[t] <= opened'[t]
    BY <1>1, RegistryAssumption DEF RegInv, TypeOK
  <2>3. \A p \in Paths : node'[p] \in Sessions =>
            p.kind = "method" /\ link'[node'[p]] \in {"connected", "lost"}
    BY <1>3
  <2> QED
    BY <1>3, <2>1, <2>2, <2>3 DEF RegInv, TypeOK, NodeIsTyped
<1>5. WalkInv'
  BY <1>1 DEF RegInv, TypeOK, WalkInv, Alive
<1>6. SessionInv'
  <2>1. \A t \in Servers : \A i \in 1..MaxSessions :
            link'[<<t, i>>] = "none" <=> i > opened'[t]
    BY <1>3 DEF RegInv, SessionInv, Sessions
  <2>2. ASSUME NEW t \in Servers, t # s, Handle(t) \in Sessions
        PROVE  Held(t) <=> Held(t)'
    <3>1. Handle(t) \notin closed /\ Handle(t) \notin Own(s) /\ Handle(t)' = Handle(t)
      BY <2>2 DEF Handle, Own
    <3>2. link'[Handle(t)] = link[Handle(t)]
      BY <1>3, <2>2, <3>1
    <3> QED
      BY <3>1, <3>2 DEF Held
  <2>3. \A t \in Servers : pc'[t] \in Alive => t # s /\ Handle(t)' \in Sessions
    BY <1>1 DEF RegInv, TypeOK, SessionInv, Alive, Handle
  <2>4. \A t \in Servers :
            /\ sem'[t] => pc'[t] \in {"init", "wait"} /\ Held(t)'
            /\ pc'[t] \in {"exists", "create", "next"} => Held(t)'
    BY <1>1, <2>2, <2>3 DEF RegInv, TypeOK, SessionInv, Alive, Handle
  <2> QED
    BY <2>1, <2>3, <2>4 DEF SessionInv
<1>7. OwnInv'
  <2> SUFFICES ASSUME cut = {}, NEW t \in Servers, pc'[t] \in Alive,
                      NEW h \in Own(t)', h # Handle(t)'
               PROVE  link'[h] = "connected"
    BY DEF OwnInv
  <2>1. t # s /\ pc[t] = pc'[t]
    BY <1>1 DEF RegInv, TypeOK, Alive
  <2>2. Own(t)' = Own(t) /\ Handle(t)' = Handle(t)
    BY <1>1, <2>1 DEF Own, Handle, RegInv, TypeOK
  <2>3. link[h] = "connected" /\ h \notin Own(s) /\ h \notin closed
    BY <2>1, <2>2 DEF RegInv, OwnInv, Own, Handle
  <2>4. h \in Sessions
    <3>1. /\ opened[t] \in 0..MaxSessions /\ round[t] \in Nat /\ round[t] <= opened[t]
          /\ MaxSessions \in Nat
      BY RegistryAssumption DEF RegInv, TypeOK
    <3>2. \A i \in opened[t] - round[t] + 1..opened[t] : i \in 1..MaxSessions
      BY <3>1
    <3> QED
      BY <2>2, <3>2 DEF Own, Sessions
  <2> QED
    BY <1>3, <2>3, <2>4
<1>8. FoundInv'
  <2>1. Passed(s)' = {}
    BY <1>1 DEF Passed, RegInv, TypeOK
  <2>2. \A t \in Servers : t # s => Passed(t)' = Passed(t)
    BY <1>1 DEF Passed, RegInv, TypeOK
  <2> QED
    BY <2>1, <2>2, FoundIsKept
<1> QED
  BY <1>4, <1>5, <1>6, <1>7, <1>8 DEF RegInv

\* The nodes after Make, for a session that holds its node.
LEMMA MakeTypes ==
    ASSUME RegInv, NEW s \in Servers, pc[s] = "create", Make(s),
           link[Handle(s)] \in {"connected", "lost"}
    PROVE  /\ NodeIsTyped' /\ TreeStep
           /\ node'[Path(s)] # NoNode
           /\ \A p \in Paths : node'[p] \in Sessions =>
                  p.kind = "method" /\ link[node'[p]] \in {"connected", "lost"}
<1>1. Path(s) \in Paths
  BY PathsAreWalked, RegistryAssumption DEF Path, RegInv, TypeOK, WalkInv, Alive
<1>2. Handle(s) \in Sessions
  BY DEF RegInv, SessionInv, Alive
<1>3. Path(s).kind \in {"method", "service"}
  BY <1>1 DEF Paths
<1>4. /\ node' = [node EXCEPT ![Path(s)] = IF Path(s).kind = "method" THEN Handle(s)
                                           ELSE Permanent]
      /\ dropped' = [t \in Servers |-> dropped[t] \ {Path(s)}]
      /\ overlooked' = [t \in Servers |-> overlooked[t] \ {Path(s)}]
  BY DEF Make, Known
<1>5. node \in [Paths -> {NoNode, Permanent} \cup Sessions]
  BY DEF RegInv, TypeOK
<1>6. NoNode \notin Sessions /\ Permanent \notin Sessions /\ NoNode # Permanent
  BY RegistryAssumption
<1>7. node'[Path(s)] # NoNode
  BY <1>1, <1>2, <1>4, <1>5, <1>6
<1>8. NodeIsTyped'
  BY <1>1, <1>2, <1>3, <1>4, <1>5, <1>6 DEF NodeIsTyped, RegInv, TypeOK
<1>9. TreeStep
  BY <1>1, <1>2 DEF TreeStep
<1>10. \A p \in Paths : node'[p] \in Sessions =>
           p.kind = "method" /\ link[node'[p]] \in {"connected", "lost"}
  BY <1>1, <1>2, <1>3, <1>4, <1>5, <1>6 DEF RegInv, TypeOK
<1> QED
  BY <1>7, <1>8, <1>9, <1>10

LEMMA CreateKeeps ==
    ASSUME RegInv, NEW s \in Servers, Create(s)
    PROVE  RegInv'
<1>1. pc[s] = "create" /\ pc[s] \in Alive /\ UNCHANGED <<opened, cut>>
  BY DEF Create, Alive
<1>2. CASE Connected(s) /\ Creatable(s) /\ Make(s) /\ Advance(s) /\ UNCHANGED link
  <2>1. /\ NodeIsTyped' /\ TreeStep /\ node'[Path(s)] # NoNode
        /\ \A p \in Paths : node'[p] \in Sessions =>
               p.kind = "method" /\ link'[node'[p]] \in {"connected", "lost"}
    BY <1>1, <1>2, MakeTypes DEF Connected
  <2>2. TypeOK'
    <3>1. at[s] + 1 \in 1..2 * NumServices + 1
      BY <1>1, RegistryAssumption DEF RegInv, TypeOK, WalkInv
    <3>2. NextPlace(s) \in Alive
      BY DEF NextPlace, Alive
    <3> QED
      BY <1>1, <1>2, <2>1, <3>1, <3>2 DEF RegInv, TypeOK, Advance, Goto, NodeIsTyped
  <2>3. \A t \in Servers : \A p \in Passed(t)' : p \in Passed(t) \/ ~Missing(p)'
    BY <1>2, <2>1, PassesOne DEF Missing
  <2>4. FoundInv'
    BY <1>1, <2>1, <2>3, FoundIsKept
  <2> QED
    BY <1>1, <1>2, <2>2, <2>4, AdvanceKeeps
<1>3. CASE /\ Connected(s) /\ ~Creatable(s)
           /\ Gone(s, "exited") /\ Abandon(s, {Handle(s)}) /\ Drop(Handle(s))
  <2>1. Handle(s) \in Sessions
    BY <1>1 DEF RegInv, SessionInv
  <2>2. NodeIsTyped' /\ TreeStep
    BY <1>1, <1>3, <2>1, RegistryAssumption
       DEF Drop, NodeIsTyped, TreeStep, RegInv, TypeOK
  <2>3. \A p \in Paths : node'[p] \in Sessions =>
            /\ p.kind = "method" /\ node'[p] \notin {Handle(s)}
            /\ link[node'[p]] \in {"connected", "lost"}
    BY <1>3, RegistryAssumption DEF Drop, RegInv, TypeOK
  <2> QED
    BY <1>1, <1>3, <2>2, <2>3, GoneKeeps
<1>4. CASE /\ ~Connected(s) /\ Gone(s, "exited") /\ Abandon(s, {})
           /\ UNCHANGED <<node, dropped, overlooked>>
  <2>1. NodeIsTyped' /\ TreeStep
    BY <1>1, <1>4 DEF NodeIsTyped, TreeStep, RegInv, TypeOK
  <2>2. \A p \in Paths : node'[p] \in Sessions =>
            p.kind = "method" /\ link[node'[p]] \in {"connected", "lost"}
    BY <1>4 DEF RegInv, TypeOK
  <2> QED
    BY <1>1, <1>4, <2>1, <2>2, GoneKeeps
<1>5. CASE /\ ~Connected(s) /\ Gone(s, "exited") /\ Abandon(s, {})
           /\ link[Handle(s)] = "lost" /\ Creatable(s) /\ Make(s)
  BY <1>1, <1>5, MakeTypes, GoneKeeps
<1> QED
  BY <1>2, <1>3, <1>4, <1>5 DEF Create

\* A session connects, and its watcher posts a semaphore: the one that its own Start
\* waits for, or, when it is an earlier session that was cut, perhaps a later one's.
LEMMA ConnectKeeps ==
    ASSUME RegInv, NEW h \in Sessions, Connect(h)
    PROVE  RegInv'
<1>1. PICK s \in Servers : pc[s] \in Alive /\ h \in Own(s) /\ Watch(h, s)
  BY DEF Connect
<1>2. /\ link[h] \in {"connecting", "lost"}
      /\ UNCHANGED <<opened, node, cut, dropped, overlooked>>
  BY DEF Connect, historyVars
<1>3. ASSUME NEW posted \in BOOLEAN, sem' = [sem EXCEPT ![s] = @ \/ posted],
             posted => pc[s] \in {"init", "wait"} /\ (h = Handle(s) \/ cut # {}),
             link' = [link EXCEPT ![h] = "connected"],
             UNCHANGED <<pc, round, at>>
      PROVE  RegInv'
  <2>1. \A k \in Sessions : link'[k] = IF k = h THEN "connected" ELSE link[k]
    BY <1>3 DEF RegInv, TypeOK
  <2>2. TypeOK'
    <3>1. sem' \in [Servers -> BOOLEAN]
      BY <1>3 DEF RegInv, TypeOK
    <3>2. link' \in [Sessions -> {"none", "connecting", "connected", "lost", "gone"}]
      BY <1>3 DEF RegInv, TypeOK
    <3> QED
      BY <1>2, <1>3, <2>1, <3>1, <3>2 DEF RegInv, TypeOK
  <2>3. WalkInv'
    BY <1>3 DEF RegInv, WalkInv
  <2>4. SessionInv'
    <3>1. \A t \in Servers : Handle(t) \in Sessions /\ Held(t) => Held(t)'
      BY <1>2, <2>1 DEF Held, Handle
    <3>2. posted => pc[s] \in {"init", "wait"} /\ Held(s)'
      BY <1>2, <1>3, <2>1 DEF Held, Handle
    <3>3. \A t \in Servers : sem'[t] => sem[t] \/ (t = s /\ posted)
      BY <1>3 DEF RegInv, TypeOK
    <3>4. \A t \in Servers : pc[t] \in Alive => Handle(t)' \in Sessions /\ Handle(t) \in Sessions
      BY <1>2 DEF RegInv, SessionInv, Handle
    <3>5. \A t \in Servers : \A i \in 1..MaxSessions :
              link'[<<t, i>>] = "none" <=> i > opened'[t]
      <4>1. \A k \in Sessions : link'[k] = "none" <=> link[k] = "none"
        BY <1>2, <2>1 DEF RegInv, TypeOK
      <4> QED
        BY <1>2, <4>1 DEF RegInv, SessionInv, Sessions
    <3>6. ASSUME NEW t \in Servers
          PROVE  /\ sem'[t] => pc'[t] \in {"init", "wait"} /\ Held(t)'
                 /\ pc'[t] \in {"exists", "create", "next"} => Held(t)'
      <4>1. sem[t] => pc[t] \in {"init", "wait"} /\ Held(t)'
        BY <3>1, <3>4 DEF RegInv, SessionInv, Alive
      <4>2. pc[t] \in {"exists", "create", "next"} => Held(t)'
        BY <3>1, <3>4 DEF RegInv, SessionInv, Alive
      <4> QED
        BY <1>3, <3>2, <3>3, <4>1, <4>2
    <3> QED
      BY <1>3, <3>4, <3>5, <3>6 DEF SessionInv
  <2>5. OwnInv'
    <3> SUFFICES ASSUME cut = {}, NEW t \in Servers, pc[t] \in Alive,
                        NEW k \in Own(t), k # Handle(t)
                 PROVE  link'[k] = "connected"
      BY <1>2, <1>3 DEF OwnInv, Own, Handle
    <3>1. link[k] = "connected"
      BY DEF RegInv, OwnInv
    <3> QED
      BY <1>3, <3>1 DEF RegInv, TypeOK
  <2>6. FoundInv'
    BY <1>2, <1>3, FoundIsKept DEF TreeStep, Passed
  <2> QED
    BY <2>2, <2>3, <2>4, <2>5, <2>6 DEF RegInv
<1>4. CASE sem' = [sem EXCEPT ![s] = @ \/ WaitedFor(h, s)]
           /\ link' = [link EXCEPT ![h] = "connected"] /\ UNCHANGED <<pc, round, at>>
  <2>1. WaitedFor(h, s) \in BOOLEAN
        /\ (WaitedFor(h, s) => pc[s] \in {"init", "wait"} /\ h = Handle(s))
    BY DEF WaitedFor
  <2> QED
    BY <1>3, <1>4, <2>1
<1>5. CASE h # Handle(s) /\ pc[s] \in {"init", "wait"} /\ sem' = [sem EXCEPT ![s] = TRUE]
           /\ link' = [link EXCEPT ![h] = "connected"] /\ UNCHANGED <<pc, round, at>>
  <2>1. cut # {}
    BY <1>1, <1>2, <1>5 DEF RegInv, OwnInv
  <2>2. sem' = [sem EXCEPT ![s] = @ \/ TRUE]
    BY <1>5
  <2> QED
    BY <1>3, <1>5, <2>1, <2>2
<1>6. CASE Gone(s, "crashed") /\ Abandon(s, {})
  <2>1. NodeIsTyped' /\ TreeStep
    BY <1>2 DEF NodeIsTyped, TreeStep, RegInv, TypeOK
  <2>2. \A p \in Paths : node'[p] \in Sessions =>
            p.kind = "method" /\ link[node'[p]] \in {"connected", "lost"}
    BY <1>2 DEF RegInv, TypeOK
  <2> QED
    BY <1>1, <1>2, <1>6, <2>1, <2>2, GoneKeeps
<1> QED
  BY <1>1, <1>4, <1>5, <1>6 DEF Watch

\* A session that is cut or expires: what a server waits for is cut then, and what it
\* has passed is dropped.
LEMMA LinkEndKeeps ==
    ASSUME RegInv, NEW h \in Sessions, LoseConnection(h) \/ Expire(h)
    PROVE  RegInv'
<1>1. UNCHANGED serverVars /\ UNCHANGED <<pc, round, at, opened, sem>>
  BY DEF LoseConnection, Expire, serverVars
<1>2. /\ link[h] \in {"connected", "lost"} /\ link' \in [Sessions -> {"none", "connecting", "connected", "lost", "gone"}]
      /\ \A k \in Sessions : k # h => link'[k] = link[k]
      /\ link'[h] \in {"lost", "gone"}
      /\ link[h] = "connected" => h \in cut' /\ link'[h] = "lost"
  BY DEF LoseConnection, Expire, RegInv, TypeOK
<1>3. TreeStep /\ cut \subseteq cut' /\ cut' \subseteq Sessions /\ NodeIsTyped'
  BY RegistryAssumption DEF LoseConnection, Expire, Drop, TreeStep, NodeIsTyped, RegInv, TypeOK
<1>4. \A p \in Paths : node'[p] \in Sessions =>
          p.kind = "method" /\ link'[node'[p]] \in {"connected", "lost"}
  BY <1>2, RegistryAssumption DEF LoseConnection, Expire, Drop, RegInv, TypeOK
<1>5. TypeOK'
  BY <1>1, <1>2, <1>3, <1>4 DEF RegInv, TypeOK, NodeIsTyped
<1>6. WalkInv'
  BY <1>1 DEF RegInv, WalkInv
<1>7. SessionInv'
  <2>1. \A t \in Servers : Handle(t) \in Sessions /\ Held(t) => Held(t)'
    BY <1>1, <1>2, <1>3 DEF Held, Handle
  <2>2. \A t \in Servers : \A i \in 1..MaxSessions :
            link'[<<t, i>>] = "none" <=> i > opened'[t]
    <3>1. \A k \in Sessions : link'[k] = "none" <=> link[k] = "none"
      BY <1>2
    <3> QED
      BY <1>1, <3>1 DEF RegInv, SessionInv, Sessions
  <2> QED
    BY <1>1, <2>1, <2>2 DEF RegInv, SessionInv, Handle, Alive
<1>8. OwnInv'
  <2> SUFFICES ASSUME cut' = {}, NEW t \in Servers, pc[t] \in Alive,
                      NEW k \in Own(t), k # Handle(t)
               PROVE  link'[k] = "connected"
    BY <1>1 DEF OwnInv, Own, Handle
  <2>1. cut = {} /\ link[h] = "lost"
    BY <1>2, <1>3
  <2>2. link[k] = "connected"
    BY <2>1 DEF RegInv, OwnInv
  <2>3. k \in Sessions
    <3>1. /\ opened[t] \in 0..MaxSessions /\ round[t] \in Nat /\ round[t] <= opened[t]
          /\ MaxSessions \in Nat
      BY RegistryAssumption DEF RegInv, TypeOK
    <3>2. \A i \in opened[t] - round[t] + 1..opened[t] : i \in 1..MaxSessions
      BY <3>1
    <3> QED
      BY <3>2 DEF Own, Sessions
  <2> QED
    BY <1>2, <2>1, <2>2, <2>3
<1>9. FoundInv'
  BY <1>1, <1>3, FoundIsKept DEF Passed
<1> QED
  BY <1>5, <1>6, <1>7, <1>8, <1>9 DEF RegInv

LEMMA DieKeeps ==
    ASSUME RegInv, NEW s \in Servers, Die(s)
    PROVE  RegInv'
<1>1. /\ UNCHANGED <<opened, node, cut, dropped, overlooked>>
      /\ pc[s] \in Alive /\ Gone(s, "down") /\ Abandon(s, {})
  BY DEF Die, historyVars
<1>2. NodeIsTyped' /\ TreeStep
  BY <1>1 DEF NodeIsTyped, TreeStep, RegInv, TypeOK
<1>3. \A p \in Paths : node'[p] \in Sessions =>
          p.kind = "method" /\ link[node'[p]] \in {"connected", "lost"}
  BY <1>1 DEF RegInv, TypeOK
<1> QED
  BY <1>1, <1>2, <1>3, GoneKeeps

LEMMA NextKeeps == RegInv /\ [Next]_vars => RegInv'
<1>1. CASE UNCHANGED vars
  BY <1>1 DEF vars, serverVars, historyVars, RegInv, TypeOK, WalkInv, SessionInv, OwnInv,
              FoundInv, Held, Handle, Own, Passed, Missing
<1>2. RegInv /\ Next => RegInv'
  BY StartKeeps, SetContextKeeps, StartReturnsKeeps, ExistsKeeps, CreateKeeps,
     ConnectKeeps, LinkEndKeeps, DieKeeps DEF Next, Environment, MainThread
<1> QED
  BY <1>1, <1>2

-----------------------------------------------------------------------------

\* Registry's state is what it is said to be: only methods are ephemeral nodes, and
\* their sessions live (registerService, ZkClient::Create).
THEOREM RegistryTypeCorrect == Spec => []TypeOK
<1>1. RegInv => TypeOK
  BY DEF RegInv
<1> QED
  BY <1>1, InitInv, NextKeeps, PTL DEF Spec

\* What cannot be found of a server that has registered all its services is what has
\* gone since it found or made it, and what it went past without a connection, both as
\* long as nobody has made it again (zookeeperuitl.cc:62-85); for any number of servers,
\* services, sessions and cuts.
THEOREM ServersAreFound == Spec => []ServingIsFound
<1>1. RegInv => ServingIsFound
  <2> SUFFICES ASSUME RegInv, NEW s \in Servers, pc[s] = "serving", NEW p \in Paths
               PROVE  Missing(p) <=> p \in dropped[s] \cup overlooked[s]
    BY DEF ServingIsFound
  <2>1. PICK i \in 1..2 * NumServices : p = PathAt(i)
    BY PathsAreWalked
  <2>2. at[s] = 2 * NumServices + 1 /\ NumServices \in Nat
    BY RegistryAssumption DEF RegInv, WalkInv
  <2>3. p \in Passed(s)
    BY <2>1, <2>2 DEF Passed
  <2> QED
    BY <2>3 DEF RegInv, FoundInv
<1> QED
  BY <1>1, InitInv, NextKeeps, PTL DEF Spec

-----------------------------------------------------------------------------
(* The race for the paths.                                                 *)

\* A server that is about to create what is there by now.
InPeril(s) == pc[s] = "create" /\ ~Missing(Path(s))

\* Whoever has made a path moves on from it: as long as no connection is lost, some
\* server neither has exited nor is about to.
RaceInv ==
    /\ \A s \in Servers : \A p \in dropped[s] : p.kind = "method"
    /\ cut = {} => \E s \in Servers : pc[s] # "exited" /\ ~InPeril(s)

\* A server that does nothing while no path appears stays out of peril.
LEMMA StaysSafe ==
    ASSUME RegInv, NEW t \in Servers, pc[t] # "exited", ~InPeril(t),
           pc'[t] = pc[t], at'[t] = at[t],
           \A p \in Paths : node[p] = NoNode => node'[p] = NoNode
    PROVE  pc'[t] # "exited" /\ ~InPeril(t)'
<1> SUFFICES ASSUME pc[t] = "create" PROVE node'[Path(t)] = NoNode /\ Path(t)' = Path(t)
  BY DEF InPeril, Missing
<1>1. Path(t) \in Paths
  BY PathsAreWalked, RegistryAssumption DEF Path, RegInv, TypeOK, WalkInv, Alive
<1>2. node[Path(t)] = NoNode
  BY DEF InPeril, Missing
<1> QED
  BY <1>1, <1>2 DEF Path

\* A service is never dropped, so that the parent of a method is there when its turn
\* comes.
LEMMA ParentIsThere ==
    ASSUME RegInv, RaceInv, cut = {}, NEW s \in Servers, pc[s] = "create"
    PROVE  HasParent(Path(s))
<1> SUFFICES ASSUME Path(s).kind = "method"
             PROVE  ~Missing([kind |-> "service", of |-> Path(s).of])
  BY DEF HasParent
<1>1. at[s] \in 1..2 * NumServices /\ NumServices \in Nat
  BY RegistryAssumption DEF RegInv, TypeOK, WalkInv, Alive
<1>2. Path(s) = [kind |-> IF at[s] % 2 = 1 THEN "service" ELSE "method", of |-> (at[s] + 1) \div 2]
  BY DEF Path, PathAt
<1>3. at[s] % 2 = 0
  BY <1>1, <1>2
<1>4. /\ at[s] - 1 \in 1..at[s] - 1
      /\ (at[s] - 1) % 2 = 1 /\ (at[s] - 1 + 1) \div 2 = (at[s] + 1) \div 2
  BY <1>1, <1>3
<1> DEFINE parent == PathAt(at[s] - 1)
<1>5. parent = [kind |-> "service", of |-> Path(s).of]
  BY <1>2, <1>4 DEF PathAt
<1>6. Missing(parent) => parent \in dropped[s] \cup overlooked[s]
  BY <1>4 DEF RegInv, FoundInv, Passed
<1>7. parent \notin dropped[s] /\ overlooked[s] = {}
  BY <1>5 DEF RaceInv, RegInv, FoundInv
<1> QED
  BY <1>5, <1>6, <1>7

LEMMA RaceInvInit == Init => RaceInv
<1> SUFFICES ASSUME Init PROVE RaceInv
  OBVIOUS
<1>1. PICK s \in Servers : TRUE
  BY RegistryAssumption
<1>2. pc[s] = "down" /\ \A t \in Servers : dropped[t] = {}
  BY DEF Init
<1> QED
  BY <1>1, <1>2 DEF RaceInv, InPeril

LEMMA RaceInvNext == RegInv /\ RaceInv /\ [Next]_vars => RaceInv'
<1> SUFFICES ASSUME RegInv, RaceInv, [Next]_vars PROVE RaceInv'
  OBVIOUS
<1> DEFINE Safe(s) == pc[s] # "exited" /\ ~InPeril(s)
           NoneAppears == \A p \in Paths : node[p] = NoNode => node'[p] = NoNode
           NoneDropped == \A t \in Servers : dropped'[t] \subseteq dropped[t]
<1>1. ASSUME NEW s \in Servers, pc'[s] \notin {"create", "exited"}, NoneDropped
      PROVE  RaceInv'
  BY <1>1 DEF RaceInv, InPeril
<1>2. ASSUME NEW h \in Sessions, Drop(h)
      PROVE  NoneAppears /\ \A t \in Servers : \A p \in dropped'[t] : p.kind = "method"
  BY <1>2 DEF Drop, RaceInv, RegInv, TypeOK
<1>3. ASSUME NEW s \in Servers, Start(s) PROVE RaceInv'
  BY <1>1, <1>3 DEF Start, Goto, historyVars, RegInv, TypeOK
<1>4. ASSUME NEW s \in Servers, SetContext(s) PROVE RaceInv'
  BY <1>1, <1>4 DEF SetContext, Goto, historyVars, RegInv, TypeOK
<1>5. ASSUME NEW s \in Servers, StartReturns(s) PROVE RaceInv'
  <2>1. pc'[s] = "exists" /\ NoneDropped
    BY <1>5 DEF StartReturns, Goto, RegInv, TypeOK
  <2> QED
    BY <1>1, <2>1
<1>6. ASSUME NEW s \in Servers, Advance(s) PROVE pc'[s] \notin {"create", "exited"}
  BY <1>6 DEF Advance, NextPlace, Goto, RegInv, TypeOK
<1>7. ASSUME NEW s \in Servers, Exists(s) PROVE RaceInv'
  <2>1. CASE Connected(s) /\ Missing(Path(s))
    <3>1. /\ dropped' = dropped /\ Path(s)' = Path(s) /\ node' = node
          /\ pc'[s] = "create"
      BY <1>7, <2>1 DEF Exists, Goto, Path, RegInv, TypeOK
    <3> QED
      BY <2>1, <3>1 DEF RaceInv, InPeril, Missing
  <2>2. CASE ~(Connected(s) /\ Missing(Path(s)))
    BY <1>1, <1>6, <1>7, <2>2 DEF Exists
  <2> QED
    BY <2>1, <2>2
<1>8. ASSUME NEW s \in Servers, Create(s) PROVE RaceInv'
  <2>0. pc[s] = "create" /\ cut' = cut
    BY <1>8 DEF Create
  <2>a. Make(s) => NoneDropped
    BY DEF Make, Known
  <2>1. CASE Make(s) /\ Advance(s)
    BY <1>1, <1>6, <2>1, <2>a
  <2>2. CASE /\ Connected(s) /\ ~Creatable(s)
             /\ Gone(s, "exited") /\ Abandon(s, {Handle(s)}) /\ Drop(Handle(s))
    <3>1. Handle(s) \in Sessions
      BY <2>0 DEF RegInv, SessionInv, Alive
    <3>2. NoneAppears /\ \A t \in Servers : \A p \in dropped'[t] : p.kind = "method"
      BY <1>2, <2>2, <3>1
    <3>3. ASSUME cut = {} PROVE \E t \in Servers : Safe(t)'
      <4>1. InPeril(s)
        BY <2>0, <2>2, <3>3, ParentIsThere DEF Creatable, InPeril
      <4>2. PICK t \in Servers : Safe(t)
        BY <3>3 DEF RaceInv
      <4>3. t # s
        BY <4>1, <4>2
      <4>4. pc'[t] = pc[t] /\ at'[t] = at[t]
        BY <2>2, <4>3 DEF Gone, Goto, RegInv, TypeOK
      <4> QED
        BY <3>2, <4>2, <4>4, StaysSafe
    <3> QED
      BY <2>0, <3>2, <3>3 DEF RaceInv
  <2>3. CASE ~Connected(s) /\ NoneDropped
    <3>1. cut # {}
      BY <2>0, <2>3 DEF RegInv, SessionInv, Held, Connected
    <3> QED
      BY <2>0, <2>3, <3>1 DEF RaceInv
  <2> QED
    BY <1>8, <2>1, <2>2, <2>3, <2>a DEF Create
<1>9. ASSUME NEW t \in Servers, pc' = pc, at' = at, NoneAppears, Safe(t) PROVE Safe(t)'
  BY <1>9, StaysSafe
<1>10. ASSUME NEW h \in Sessions, Connect(h) PROVE RaceInv'
  <2>1. PICK s \in Servers : Watch(h, s)
    BY <1>10 DEF Connect
  <2>2. UNCHANGED <<node, cut, dropped>>
    BY <1>10 DEF Connect, historyVars
  <2>3. CASE UNCHANGED <<pc, round, at>>
    <3>1. ASSUME cut' = {} PROVE \E t \in Servers : Safe(t)'
      BY <1>9, <2>2, <2>3, <3>1 DEF RaceInv
    <3> QED
      BY <2>2, <3>1 DEF RaceInv
  <2>4. CASE Gone(s, "crashed")
    <3>1. pc'[s] = "crashed"
      BY <2>4 DEF Gone, Goto, RegInv, TypeOK
    <3> QED
      BY <1>1, <2>2, <3>1
  <2> QED
    BY <2>1, <2>3, <2>4 DEF Watch
<1>11. ASSUME NEW h \in Sessions, LoseConnection(h) PROVE RaceInv'
  <2>1. cut' # {} /\ dropped' = dropped
    BY <1>11 DEF LoseConnection
  <2> QED
    BY <2>1 DEF RaceInv
<1>12. ASSUME NEW h \in Sessions, Expire(h) PROVE RaceInv'
  <2>1. NoneAppears /\ \A t \in Servers : \A p \in dropped'[t] : p.kind = "method"
    BY <1>2, <1>12 DEF Expire
  <2>2. cut' = cut /\ pc' = pc /\ at' = at
    BY <1>12 DEF Expire, serverVars
  <2>3. ASSUME cut' = {} PROVE \E t \in Servers : Safe(t)'
    BY <1>9, <2>1, <2>2, <2>3 DEF RaceInv
  <2> QED
    BY <2>1, <2>3 DEF RaceInv
<1>13. ASSUME NEW s \in Servers, Die(s) PROVE RaceInv'
  <2>1. pc'[s] = "down" /\ dropped' = dropped
    BY <1>13 DEF Die, Gone, Goto, historyVars, RegInv, TypeOK
  <2> QED
    BY <1>1, <2>1
<1>14. CASE UNCHANGED vars
  <2>1. pc' = pc /\ at' = at /\ node' = node /\ cut' = cut /\ dropped' = dropped
    BY <1>14 DEF vars, serverVars, historyVars
  <2>2. ASSUME cut' = {} PROVE \E t \in Servers : Safe(t)'
    BY <1>9, <2>1, <2>2 DEF RaceInv
  <2> QED
    BY <2>1, <2>2 DEF RaceInv
<1> QED
  BY <1>3, <1>4, <1>5, <1>7, <1>8, <1>10, <1>11, <1>12, <1>13, <1>14
     DEF Next, Environment, MainThread

\* zoo_exists and zoo_create are two steps (zookeeperuitl.cc:68-72), and a server that
\* loses the race between them exits; but however many servers race for however many
\* paths, and die and come back: while no connection is lost, one has not exited.
THEOREM SomeServerStays == Spec => []NotAllExit
<1>1. RaceInv => NotAllExit
  BY DEF RaceInv, NotAllExit
<1> QED
  BY <1>1, InitInv, NextKeeps, RaceInvInit, RaceInvNext, PTL DEF Spec

-----------------------------------------------------------------------------
(* Balance: least points and the walk around the ring.                     *)

\* A set of hash values has a least one.
LEMMA LeastExists ==
    ASSUME NEW S \in SUBSET Nat, S # {}
    PROVE  Least(S) \in S /\ \A q \in S : Least(S) <= q
<1>1. PICK x \in S : \A y \in S : ~ (<<y, x>> \in OpToRel(<, Nat))
  BY NatLessThanWellFounded, WFMin
<1>2. \A y \in S : x <= y
  <2> SUFFICES ASSUME NEW y \in S, ~(x <= y) PROVE FALSE
    OBVIOUS
  <2>1. y < x /\ y \in Nat /\ x \in Nat
    OBVIOUS
  <2>2. <<y, x>> \in OpToRel(<, Nat)
    BY <2>1 DEF OpToRel
  <2> QED
    BY <1>1, <2>2
<1> QED
  BY <1>2 DEF Least

\* p is where the clockwise walk from h over the points of D ends.
IsSuccessor(D, h, p) ==
    /\ p \in D
    /\ \/ p >= h /\ \A q \in D : q >= h => p <= q
       \/ \A q \in D : q < h /\ p <= q

\* lower_bound, with begin() at the end, is that walk.
LEMMA SuccessorIsFound ==
    ASSUME NEW map, DOMAIN map \subseteq Nat, DOMAIN map # {}, NEW h \in Nat
    PROVE  IsSuccessor(DOMAIN map, h, Successor(map, h))
<1> DEFINE above == {p \in DOMAIN map : p >= h}
<1>1. CASE above # {}
  <2>1. Least(above) \in above /\ \A q \in above : Least(above) <= q
    BY <1>1, LeastExists
  <2> QED
    BY <1>1, <2>1 DEF Successor, IsSuccessor
<1>2. CASE above = {}
  <2>1. Least(DOMAIN map) \in DOMAIN map /\ \A q \in DOMAIN map : Least(DOMAIN map) <= q
    BY LeastExists
  <2>2. Successor(map, h) = Least(DOMAIN map)
    BY <1>2 DEF Successor
  <2>3. \A q \in DOMAIN map : q < h
    BY <1>2
  <2> QED
    BY <2>1, <2>2, <2>3 DEF IsSuccessor
<1> QED
  BY <1>1, <1>2

\* A walk that ends at a point of a smaller ring ends there on the smaller ring too.
LEMMA SuccessorStays ==
    ASSUME NEW small, NEW large, DOMAIN large \subseteq Nat, NEW h \in Nat,
           DOMAIN small \subseteq DOMAIN large,
           Successor(large, h) \in DOMAIN small
    PROVE  Successor(small, h) = Successor(large, h)
<1>1. IsSuccessor(DOMAIN large, h, Successor(large, h))
  BY SuccessorIsFound
<1>2. IsSuccessor(DOMAIN small, h, Successor(large, h))
  BY <1>1 DEF IsSuccessor
<1>3. IsSuccessor(DOMAIN small, h, Successor(small, h))
  BY SuccessorIsFound
<1> QED
  BY <1>2, <1>3 DEF IsSuccessor

-----------------------------------------------------------------------------
(* The ring of ConsistentHash.                                             *)

\* What the ring and its members keep true together.
RingInv ==
    /\ hash \in [Nodes -> SUBSET Nat]
    /\ members \subseteq Nodes
    /\ DOMAIN ring \subseteq Nat
    /\ RingIsMembers

LEMMA InitRing == BalanceInit => RingInv
BY BalanceAssumption DEF BalanceInit, RingInv, RingIsMembers, EmptyRing

LEMMA NextRing == RingInv /\ [BalanceNext]_balanceVars => RingInv'
<1> SUFFICES ASSUME RingInv, [BalanceNext]_balanceVars PROVE RingInv'
  OBVIOUS
<1>1. ASSUME NEW n \in Nodes, AddNewNode(n) PROVE RingInv'
  <2>1. DOMAIN ring' = DOMAIN ring \cup hash[n]
    BY <1>1 DEF AddNewNode, Insert
  <2>2. \A p \in DOMAIN ring' : ring'[p] = IF p \in DOMAIN ring THEN ring[p] ELSE n
    BY <1>1 DEF AddNewNode, Insert
  <2>3. hash' = hash /\ members' = members \cup {n}
    BY <1>1 DEF AddNewNode
  <2>4. \A p \in DOMAIN ring' : ring'[p] \in members' /\ p \in hash'[ring'[p]]
    BY <2>1, <2>2, <2>3 DEF RingInv, RingIsMembers
  <2>5. \A k \in members' : \A p \in hash'[k] :
            p \in DOMAIN ring' \/ \E m \in Nodes \ {k} : p \in hash'[m]
    BY <2>1, <2>3 DEF RingInv, RingIsMembers
  <2> QED
    BY <1>1, <2>1, <2>3, <2>4, <2>5 DEF RingInv, RingIsMembers
<1>2. ASSUME NEW n \in Nodes, DeleteNode(n) PROVE RingInv'
  <2>1. DOMAIN ring' = DOMAIN ring \ hash[n]
    BY <1>2 DEF DeleteNode, Erase
  <2>2. \A p \in DOMAIN ring' : ring'[p] = ring[p]
    BY <1>2 DEF DeleteNode, Erase
  <2>3. hash' = hash /\ members' = members \ {n}
    BY <1>2 DEF DeleteNode
  <2>4. \A p \in DOMAIN ring' : ring'[p] \in members' /\ p \in hash'[ring'[p]]
    BY <2>1, <2>2, <2>3 DEF RingInv, RingIsMembers
  <2>5. \A k \in members' : \A p \in hash'[k] :
            p \in DOMAIN ring' \/ \E m \in Nodes \ {k} : p \in hash'[m]
    BY <1>2, <2>1, <2>3 DEF RingInv, RingIsMembers
  <2> QED
    BY <2>1, <2>3, <2>4, <2>5 DEF RingInv, RingIsMembers
<1>3. CASE UNCHANGED <<hash, ring, members>>
  BY <1>3 DEF RingInv, RingIsMembers
<1> QED
  BY <1>1, <1>2, <1>3
     DEF BalanceNext, Select, SelectRandom, SelectRound, SelectConsistentHash, balanceVars

\* consistent_hash.cc: whatever the hash function is and however nodes join and
\* leave, every virtual node on the ring is a member's and where it belongs, and
\* one that is missing went with a node that collides with it.
THEOREM RingBelongsToMembers == BalanceSpec => []RingIsMembers
<1>1. RingInv => RingIsMembers
  BY DEF RingInv
<1> QED
  BY <1>1, InitRing, NextRing, PTL DEF BalanceSpec

\* One step moves keys only to points that a node gets, or away from points that one
\* loses.
LEMMA StepMovesFew ==
    ASSUME RingInv, [BalanceNext]_balanceVars, DOMAIN ring # {}, DOMAIN ring' # {},
           Nodes # {}
    PROVE  \E n \in Nodes : \A h \in Keys : Lookup(ring', h) # Lookup(ring, h) =>
               \/ Lookup(ring', h) = n /\ Successor(ring', h) \in hash[n] \ DOMAIN ring
               \/ Successor(ring, h) \in hash[n] \ DOMAIN ring'
<1>h. /\ \A h \in Keys : h \in Nat
      /\ DOMAIN ring \subseteq Nat /\ DOMAIN ring' \subseteq Nat
  BY NextRing, BalanceAssumption DEF RingInv
<1>1. ASSUME NEW n \in Nodes, AddNewNode(n), NEW h \in Keys, Lookup(ring', h) # Lookup(ring, h)
      PROVE  Lookup(ring', h) = n /\ Successor(ring', h) \in hash[n] \ DOMAIN ring
  <2> DEFINE p == Successor(ring', h)
  <2>1. DOMAIN ring' = DOMAIN ring \cup hash[n]
    BY <1>1 DEF AddNewNode, Insert
  <2>2. \A q \in DOMAIN ring' : ring'[q] = IF q \in DOMAIN ring THEN ring[q] ELSE n
    BY <1>1 DEF AddNewNode, Insert
  <2>3. p \in DOMAIN ring'
    BY <1>h, SuccessorIsFound DEF IsSuccessor
  <2>4. p \notin DOMAIN ring
    <3> SUFFICES ASSUME p \in DOMAIN ring PROVE FALSE
      OBVIOUS
    <3>1. Successor(ring, h) = p
      BY <1>h, <2>1, SuccessorStays
    <3> QED
      BY <1>1, <2>2, <2>3, <3>1 DEF Lookup
  <2> QED
    BY <2>1, <2>2, <2>3, <2>4 DEF Lookup
<1>2. ASSUME NEW n \in Nodes, DeleteNode(n), NEW h \in Keys, Lookup(ring', h) # Lookup(ring, h)
      PROVE  Successor(ring, h) \in hash[n] \ DOMAIN ring'
  <2> DEFINE p == Successor(ring, h)
  <2>1. DOMAIN ring' = DOMAIN ring \ hash[n]
    BY <1>2 DEF DeleteNode, Erase
  <2>2. \A q \in DOMAIN ring' : ring'[q] = ring[q]
    BY <1>2 DEF DeleteNode, Erase
  <2>3. p \in DOMAIN ring
    BY <1>h, SuccessorIsFound DEF IsSuccessor
  <2>4. p \notin DOMAIN ring'
    <3> SUFFICES ASSUME p \in DOMAIN ring' PROVE FALSE
      OBVIOUS
    <3>1. Successor(ring', h) = p
      BY <1>h, <2>1, SuccessorStays
    <3> QED
      BY <1>2, <2>2, <3>1 DEF Lookup
  <2> QED
    BY <2>1, <2>3, <2>4
<1>3. CASE UNCHANGED ring
  BY <1>3
<1>4. \/ \E n \in Nodes : AddNewNode(n) \/ DeleteNode(n)
      \/ UNCHANGED ring
  BY DEF BalanceNext, Select, SelectRandom, SelectRound, SelectConsistentHash, balanceVars
<1>5. CASE \E n \in Nodes : AddNewNode(n)
  <2>1. PICK n \in Nodes : AddNewNode(n)
    BY <1>5
  <2> WITNESS n \in Nodes
  <2> QED
    BY <1>1, <2>1
<1>6. CASE \E n \in Nodes : DeleteNode(n)
  <2>1. PICK n \in Nodes : DeleteNode(n)
    BY <1>6
  <2> WITNESS n \in Nodes
  <2> QED
    BY <1>2, <2>1
<1> QED
  BY <1>3, <1>4, <1>5, <1>6

\* KeysMoveOnlyWhenTheyMust for any nodes and any hash function: joining and leaving
\* (AddNewNode, DeleteNode) move no key that they need not move.
THEOREM FewKeysMove == BalanceSpec => KeysMoveOnlyWhenTheyMust
<1> DEFINE Few ==
        DOMAIN ring # {} /\ DOMAIN ring' # {} =>
            \E n \in Nodes : \A h \in Keys : Lookup(ring', h) # Lookup(ring, h) =>
                \/ Lookup(ring', h) = n /\ Successor(ring', h) \in hash[n] \ DOMAIN ring
                \/ Successor(ring, h) \in hash[n] \ DOMAIN ring'
<1>1. RingInv /\ [BalanceNext]_balanceVars => [Few]_balanceVars
  <2>1. RingInv /\ DOMAIN ring # {} => Nodes # {}
    BY DEF RingInv, RingIsMembers
  <2> QED
    BY <2>1, StepMovesFew
<1> QED
  BY <1>1, InitRing, NextRing, PTL DEF BalanceSpec, KeysMoveOnlyWhenTheyMust

-----------------------------------------------------------------------------
(* The strategies.                                                         *)

\* What the strategies keep from call to call. Every selector is that of a list that
\* somebody passed, and the round robin stands behind its last choice.
StrategyInv ==
    /\ hash \in Hashes
    /\ index \in Nat
    /\ DOMAIN selectors = Methods
    /\ \A m \in Methods : \E addrs \in Lists \cup {<<>>} : selectors[m] = SelectorFor(addrs)
    /\ pick.how = "Round" =>
          /\ Len(pick.from) \in Nat /\ index \in 1..Len(pick.from)
          /\ pick.to = pick.from[index]

\* The selector of a list does not change, because the hash function does not.
LEMMA SelectorStays ==
    ASSUME hash' = hash PROVE \A addrs : SelectorFor(addrs)' = SelectorFor(addrs)
BY DEF SelectorFor, IsLastAt

LEMMA InitStrategies == BalanceInit => StrategyInv
<1> SUFFICES ASSUME BalanceInit PROVE StrategyInv
  OBVIOUS
<1>1. SelectorFor(<<>>) = EmptyRing
  <2>1. DOMAIN <<>> = {}
    OBVIOUS
  <2>2. UNION {hash[<<>>[i]] : i \in DOMAIN <<>>} = {}
    BY <2>1
  <2> QED
    BY <2>2 DEF SelectorFor, EmptyRing
<1> QED
  BY <1>1 DEF BalanceInit, StrategyInv, NoPick

\* A turn of the round robin, from behind its last choice of the same list.
LEMMA RoundGoesOn ==
    ASSUME index \in Nat, NEW addrs \in Lists, SelectRound(addrs)
    PROVE  /\ Len(addrs) \in Nat
           /\ pick' = [how |-> "Round", from |-> addrs, to |-> addrs[index']]
           /\ index' = (IF index >= Len(addrs) THEN 0 ELSE index) + 1
           /\ index' \in 1..Len(addrs)
<1>1. addrs \in Seq(Nodes) /\ addrs # <<>>
  BY BalanceAssumption
<1>2. Len(addrs) \in Nat /\ Len(addrs) >= 1
  BY <1>1
<1> QED
  BY <1>2 DEF SelectRound

LEMMA NextStrategies == StrategyInv /\ [BalanceNext]_balanceVars => StrategyInv'
<1> SUFFICES ASSUME StrategyInv, [BalanceNext]_balanceVars PROVE StrategyInv'
  OBVIOUS
<1> USE DEF StrategyInv
<1>1. CASE UNCHANGED <<hash, index, selectors, pick>>
  BY <1>1, SelectorStays
<1>2. ASSUME NEW addrs \in Lists, SelectRandom(addrs) PROVE StrategyInv'
  <2>1. UNCHANGED <<hash, index, selectors>> /\ pick'.how = "Random"
    BY <1>2 DEF SelectRandom
  <2> QED
    BY <2>1, SelectorStays
<1>3. ASSUME NEW addrs \in Lists, SelectRound(addrs) PROVE StrategyInv'
  <2>1. UNCHANGED <<hash, selectors>>
    BY <1>3 DEF SelectRound
  <2>2. /\ Len(pick'.from) \in Nat /\ index' \in 1..Len(pick'.from)
        /\ pick'.to = pick'.from[index']
    BY <1>3, RoundGoesOn
  <2> QED
    BY <2>1, <2>2, SelectorStays
<1>4. ASSUME NEW addrs \in Lists, NEW m \in Methods, NEW h \in Keys,
             SelectConsistentHash(m, h, addrs)
      PROVE  StrategyInv'
  <2>1. /\ selectors' = Selectors(m, addrs) /\ pick'.how = "ConsistentHash"
        /\ UNCHANGED <<hash, index>>
    BY <1>4 DEF SelectConsistentHash
  <2>2. /\ DOMAIN selectors' = Methods
        /\ \A k \in Methods : selectors'[k] \in {selectors[k], SelectorFor(addrs)}
    BY <2>1 DEF Selectors
  <2>3. \A k \in Methods : \E a \in Lists \cup {<<>>} : selectors'[k] = SelectorFor(a)
    BY <2>2
  <2> QED
    BY <2>1, <2>2, <2>3, SelectorStays
<1> QED
  BY <1>1, <1>2, <1>3, <1>4 DEF BalanceNext, Select, AddNewNode, DeleteNode, balanceVars

\* The round robin of load_balance.h:48-54 goes around a list that is asked again and
\* again, wherever the lists of other channels have left its index.
THEOREM RoundRobinTakesTurns == BalanceSpec => RoundTakesTurns
<1> DEFINE Turn ==
        pick.how = "Round" /\ pick'.how = "Round" /\ pick.from = pick'.from =>
            <<index, pick>>' = <<index, pick>> \/
            \E i \in DOMAIN pick.from :
                /\ pick.to = pick.from[i]
                /\ pick'.to = pick.from[IF i = Len(pick.from) THEN 1 ELSE i + 1]
<1>1. StrategyInv /\ [BalanceNext]_balanceVars => [Turn]_balanceVars
  <2> SUFFICES ASSUME StrategyInv, [BalanceNext]_balanceVars, <<index, pick>>' # <<index, pick>>,
                      pick.how = "Round", pick'.how = "Round", pick.from = pick'.from
               PROVE  \E i \in DOMAIN pick.from :
                          /\ pick.to = pick.from[i]
                          /\ pick'.to = pick.from[IF i = Len(pick.from) THEN 1 ELSE i + 1]
    OBVIOUS
  <2>1. PICK addrs \in Lists : SelectRound(addrs)
    BY DEF BalanceNext, Select, SelectRandom, SelectConsistentHash, AddNewNode, DeleteNode,
           balanceVars
  <2>2. /\ index \in 1..Len(addrs) /\ pick.to = addrs[index] /\ pick.from = addrs
        /\ Len(addrs) \in Nat
    BY <2>1, RoundGoesOn DEF StrategyInv
  <2>3. /\ pick'.to = addrs[index'] /\ index' = IF index = Len(addrs) THEN 1 ELSE index + 1
    BY <2>1, <2>2, RoundGoesOn
  <2>4. index \in DOMAIN addrs
    <3>1. addrs \in Seq(Nodes)
      BY BalanceAssumption
    <3> QED
      BY <2>2, <3>1
  <2> QED
    BY <2>2, <2>3, <2>4
<1> QED
  BY <1>1, InitStrategies, NextStrategies, PTL DEF BalanceSpec, RoundTakesTurns

\* The types of both: the ring belongs to its members, and the selector of a method is
\* that of a list that a caller has passed.
THEOREM BalanceTypeCorrect == BalanceSpec => []BalanceTypeOK
<1>1. RingInv /\ StrategyInv => BalanceTypeOK
  BY DEF RingInv, StrategyInv, BalanceTypeOK
<1> QED
  BY <1>1, InitRing, NextRing, InitStrategies, NextStrategies, PTL DEF BalanceSpec
=============================================================================
