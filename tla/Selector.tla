------------------------------- MODULE Selector ------------------------------
(***************************************************************************)
(* src/Proxy/src/Common/Selector.cc: the nodes a proxy chooses from.  One  *)
(* thread picks by smooth weighted round robin (ServerNode.h:44 gives it   *)
(* current_weight_), others by hash; nodes are added and removed, and the  *)
(* health checker turns them on and off, at any time.  A reader takes a    *)
(* pointer to the list or to the ring under mutex_ and reads without it;   *)
(* shared says that its pointer is still the selector's own.               *)
(***************************************************************************)
EXTENDS Integers, Sequences, FiniteSets, FiniteSetsExt

CONSTANTS
  Nodes, Initial,     \* ServerNodes; those listed at first, in order, if any are
  Weight,             \* weight_
  Points, Place,      \* hash values; those of each node's virtual nodes
  Keys, Hash,         \* client keys and their hash values
  Hashers,            \* threads that pick by hash
  PanicPercent,       \* 20
  MaxChanges          \* bound: nodes added and removed

None == "0.0.0.0"   \* the address that stands for no server

ASSUME SelectorAssumption ==
  /\ IsFiniteSet(Nodes) /\ None \notin Nodes
  /\ Initial \in Seq(Nodes)
  /\ Weight \in [Nodes -> Nat \ {0}]
  /\ Points \subseteq Nat
  /\ Place \in [Nodes -> SUBSET Points]
  /\ \A m, n \in Nodes : m # n => Place[m] \cap Place[n] = {}
  /\ Hash \in [Keys -> Nat]
  /\ PanicPercent \in Nat /\ MaxChanges \in Nat

VARIABLES
  group,       \* *serverGroup_
  ring,        \* *ring_
  alive,       \* is_alive_ of the nodes
  current,     \* current_weight_ of the nodes
  phase, nodes, shared, at,           \* getNextServer(): where, its list, its
  aliveCount, panic, total, best,     \* locals
  picked,      \* what it returned last
  hashing, ringOf, sharedRing,        \* getNextServer(key), per thread
  changes,     \* bound's counter
  tally        \* history: picks of each node, in windows of Sum(Weight) picks,
               \* while the nodes are as they were at first; then NoTally

groupVars == <<group, ring, changes>>
pickVars == <<phase, nodes, shared, at, aliveCount, panic, total, best, picked>>
hashVars == <<hashing, ringOf, sharedRing>>
vars == <<groupVars, alive, current, pickVars, hashVars, tally>>

Listed(s) == {s[i] : i \in DOMAIN s}

(* A ring is a function from some of the points to nodes. *)
RingOf(S) == [p \in UNION {Place[n] : n \in S} |-> CHOOSE n \in S : p \in Place[n]]

NoTally == [n \in {} |-> 0]

Init ==
  /\ group \in {<<>>, Initial} /\ ring = RingOf(Listed(group))
  /\ alive = [n \in Nodes |-> TRUE]
  /\ current = [n \in Nodes |-> 0]
  /\ phase = "idle" /\ nodes = <<>> /\ shared = FALSE /\ at = 0
  /\ aliveCount = 0 /\ panic = FALSE /\ total = 0 /\ best = None /\ picked = None
  /\ hashing = [h \in Hashers |-> FALSE]
  /\ ringOf = [h \in Hashers |-> NoTally] /\ sharedRing = [h \in Hashers |-> FALSE]
  /\ changes = 0
  /\ tally = [n \in Nodes |-> 0]

(* What a reader sees through its pointer. *)
List == IF shared THEN group ELSE nodes
Ring(h) == IF sharedRing[h] THEN ring ELSE ringOf[h]

-----------------------------------------------------------------------------
(* The writers, under mutex_.  A pointer that readers share is given up to *)
(* them, with what it points to, and the write goes to a copy.             *)

(* Mutant: the list is changed in place. *)
WriteInPlace(list, points) ==
  /\ group' = list /\ ring' = points
  /\ UNCHANGED <<nodes, shared, ringOf, sharedRing>>

Write(list, points) ==
  /\ group' = list /\ ring' = points
  /\ nodes' = List /\ shared' = FALSE
  /\ ringOf' = [h \in Hashers |-> Ring(h)]
  /\ sharedRing' = [h \in Hashers |-> FALSE]

Changed == /\ changes < MaxChanges /\ changes' = changes + 1
           /\ tally' = NoTally
           /\ UNCHANGED <<alive, current, phase, at, aliveCount, panic, total,
                          best, picked, hashing>>

addNode(n) ==
  /\ Changed
  /\ Write(Append(group, n),
           [p \in DOMAIN ring \cup Place[n] |-> IF p \in Place[n] THEN n ELSE ring[p]])

(* std::remove and erase: every n goes, the others keep their order. *)
Without(s, n) ==
  LET kept[i \in 0..Len(s)] ==
        IF i = 0 THEN <<>>
        ELSE IF s[i] = n THEN kept[i - 1] ELSE Append(kept[i - 1], s[i])
  IN  kept[Len(s)]

(* Mutant: the virtual nodes stay on the ring. *)
RemoveFromListOnly(n) ==
  /\ Changed
  /\ Write(Without(group, n), ring)

removeNode(n) ==
  /\ Changed
  /\ Write(Without(group, n),
           [p \in DOMAIN ring \ Place[n] |-> ring[p]])

(* The health checker's updateStatus, seen from here. *)
Flip(n) ==
  /\ alive' = [alive EXCEPT ![n] = ~@]
  /\ tally' = NoTally
  /\ UNCHANGED <<groupVars, current, pickVars, hashVars>>

-----------------------------------------------------------------------------
(* getNextServer(), smooth weighted round robin.                           *)

TakeList ==
  /\ phase = "idle"
  /\ phase' = "count" /\ shared' = TRUE /\ at' = 1
  /\ aliveCount' = 0 /\ total' = 0 /\ best' = None
  /\ UNCHANGED <<groupVars, alive, current, nodes, panic, picked, hashVars, tally>>

(* It returns; nodes goes out of scope. *)
Return(n) ==
  /\ picked' = n
  /\ phase' = "idle" /\ nodes' = <<>> /\ shared' = FALSE /\ at' = 0
  /\ aliveCount' = 0 /\ panic' = FALSE /\ total' = 0 /\ best' = None
  /\ UNCHANGED <<groupVars, alive, hashVars>>

PickFromNone ==
  /\ phase = "count" /\ List = <<>>
  /\ Return(None)
  /\ UNCHANGED <<current, tally>>

CountNode ==
  /\ phase = "count" /\ at <= Len(List)
  /\ aliveCount' = IF alive[List[at]] THEN aliveCount + 1 ELSE aliveCount
  /\ at' = at + 1
  /\ UNCHANGED <<groupVars, alive, current, phase, nodes, shared, panic, total,
                 best, picked, hashVars, tally>>

JudgePanic ==
  /\ phase = "count" /\ List # <<>> /\ at > Len(List)
  /\ panic' = ((aliveCount * 100) \div Len(List) < PanicPercent)
  /\ phase' = "visit" /\ at' = 1
  /\ UNCHANGED <<groupVars, alive, current, nodes, shared, aliveCount, total,
                 best, picked, hashVars, tally>>

SkipNode ==
  /\ phase = "visit" /\ at <= Len(List)
  /\ ~alive[List[at]] /\ ~panic
  /\ at' = at + 1
  /\ UNCHANGED <<groupVars, alive, current, phase, nodes, shared, aliveCount,
                 panic, total, best, picked, hashVars, tally>>

Visiting == /\ phase = "visit" /\ at <= Len(List)
            /\ alive[List[at]] \/ panic
            /\ at' = at + 1
            /\ UNCHANGED <<groupVars, alive, phase, nodes, shared, aliveCount,
                           panic, picked, hashVars, tally>>

VisitNode ==
  /\ Visiting
  /\ LET n == List[at] IN
     /\ current' = [current EXCEPT ![n] = @ + Weight[n]]
     /\ total' = total + Weight[n]
     /\ best' = IF best = None \/ current'[n] > current'[best] THEN n ELSE best

(* Counted among the picks of a window; a full one starts over. *)
Counted(n) ==
  IF tally = NoTally THEN NoTally
  ELSE LET t == [tally EXCEPT ![n] = @ + 1] IN
       IF \A m \in Listed(Initial) : t[m] = Weight[m] THEN [m \in Nodes |-> 0] ELSE t

(* Mutant: the weights do not outlive the call. *)
PickBestForgetting ==
  /\ phase = "visit" /\ at > Len(List) /\ best # None
  /\ current' = [n \in Nodes |-> 0]
  /\ tally' = Counted(best)
  /\ Return(best)

PickBest ==
  /\ phase = "visit" /\ at > Len(List) /\ best # None
  /\ current' = [current EXCEPT ![best] = @ - total]
  /\ tally' = Counted(best)
  /\ Return(best)

(* The nodes that were counted have died in between. *)
PickNobody ==
  /\ phase = "visit" /\ at > Len(List) /\ best = None
  /\ Return(None)
  /\ UNCHANGED <<current, tally>>

-----------------------------------------------------------------------------
(* getNextServer(key), consistent hashing.                                 *)

(* Mutant: the node is the one whose rank the hash gives. *)
RouteByRank(r, key) ==
  IF DOMAIN r = {} THEN None
  ELSE LET Rank(p) == Cardinality({q \in DOMAIN r : q < p}) IN
       r[CHOOSE p \in DOMAIN r : Rank(p) = Hash[key] % Cardinality(DOMAIN r)]

(* The first point at or after the key's, or the first of all. *)
Route(r, key) ==
  IF DOMAIN r = {} THEN None
  ELSE LET after == {p \in DOMAIN r : p >= Hash[key]} IN
       r[Min(IF after # {} THEN after ELSE DOMAIN r)]

TakeRing(h) ==
  /\ ~hashing[h]
  /\ hashing' = [hashing EXCEPT ![h] = TRUE]
  /\ sharedRing' = [sharedRing EXCEPT ![h] = TRUE]
  /\ UNCHANGED <<groupVars, alive, current, pickVars, ringOf, tally>>

(* Route(Ring(h), key) is returned, and the ring goes out of scope. *)
LookUp(h) ==
  /\ hashing[h]
  /\ hashing' = [hashing EXCEPT ![h] = FALSE]
  /\ sharedRing' = [sharedRing EXCEPT ![h] = FALSE]
  /\ ringOf' = [ringOf EXCEPT ![h] = NoTally]
  /\ UNCHANGED <<groupVars, alive, current, pickVars, tally>>

-----------------------------------------------------------------------------
Pick == \/ PickFromNone \/ CountNode \/ JudgePanic \/ SkipNode \/ VisitNode
        \/ PickBest \/ PickNobody

Next ==
  \/ TakeList \/ Pick
  \/ \E h \in Hashers : TakeRing(h) \/ LookUp(h)
  \/ \E n \in Nodes : addNode(n) \/ removeNode(n) \/ Flip(n)

(* getNextServer is not blocked by anything once it has begun. *)
Spec == Init /\ [][Next]_vars /\ WF_vars(Pick)

-----------------------------------------------------------------------------
(* Properties.                                                             *)

(* What a reader reads does not change under it, without a lock: the       *)
(* copy-on-write of Selector.cc:9-20 and 32-41.                            *)
SnapshotsFrozen ==
  [][/\ phase # "idle" /\ phase' # "idle" => List' = List
     /\ \A h \in Hashers : hashing[h] /\ hashing'[h] => Ring(h)' = Ring(h)]_vars

(* The list and the ring are of the same nodes (Selector.cc:16-28, 36-47). *)
RingMatchesGroup == ring = RingOf(Listed(group))

(* README.md:69: when a node comes or goes, only its own keys move.        *)
OnlyAffectedKeysMove ==
  [][\A key \in Keys :
       \/ Route(ring', key) = Route(ring, key)
       \/ Route(ring, key) \in (Nodes \ Listed(group')) \cup {None}
       \/ Route(ring', key) \in (Nodes \ Listed(group)) \cup {None}]_vars

Sum(f) == MapThenSumSet(LAMBDA n : f[n], DOMAIN f)

(* Weight is neither made nor lost, whatever nodes come, go, die or return *)
(* while a pick is under way (Selector.cc:79-87).                          *)
WeightsBalance == Sum(current) = total

(* While the nodes stay as they were, each is picked as often as its       *)
(* weight says in every window of as many picks as all weights, and is at  *)
(* no time a whole pick ahead of its share: README.md:70                   *)
(* (Selector.cc:76-89).                                                    *)
SharesFollowWeights ==
  tally # NoTally =>
    \A n \in Nodes \cap Listed(Initial) :
      LET W == Sum([m \in Listed(Initial) |-> Weight[m]]) IN
      /\ tally[n] <= Weight[n]
      /\ tally[n] * W - Sum(tally) * Weight[n] < W

(* The weighted round robin keeps its books, and so its shares.            *)
PickedByWeight == WeightsBalance /\ SharesFollowWeights

(* A node that stays listed and alive is picked again and again, however   *)
(* the others come, go, die and return (Selector.cc:82-87).                *)
NotStarved ==
  \A n \in Nodes :
    /\ <>[](alive[n] /\ n \in Listed(group))
    /\ []<>(phase # "idle")
    => []<>(picked = n)
=============================================================================
