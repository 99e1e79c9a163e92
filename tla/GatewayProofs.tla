----------------------------- MODULE GatewayProofs ---------------------------
(***************************************************************************)
(* Proofs about Gateway.tla, for any clients, backends and requests, any   *)
(* pieces in which they arrive, and any number of RemoteClients.           *)
(*                                                                         *)
(* One invariant, GatewayInv, says where each client is in its requests    *)
(* and answers, what the RemoteClient that serves it has and owes, and     *)
(* that no two RemoteClients have the same.  What a run checks of the      *)
(* gateway, that answers come whole and in order, that requests do and     *)
(* come once, and that a RemoteClient is lent or idle, follows.            *)
(***************************************************************************)
EXTENDS Gateway, SequenceTheorems, WellFoundedInduction, TLAPS

Size(c, i) == Plan[c][i].body + 1
Reply(c, i) == Plan[c][i].answer + 1

(* A unit of a stream; one of a request. *)
Unit == Clients \X Nat \X Nat
RequestUnit ==
  {u \in Unit : u[2] \in 1..Len(Plan[u[1]]) /\ u[3] < Size(u[1], u[2])}

(* n units of a message, from the one after the m-th on. *)
Part(c, i, m, n) == [k \in 1..n |-> <<c, i, m + k - 1>>]

(* How much comes before a client's i-th request, and before the answer to *)
(* it.                                                                     *)
Requests(c) == [i \in 1..Len(Plan[c]) |-> Request(c, i)]
Replies(c) == [i \in 1..Len(Plan[c]) |-> Answer(c, i)]
At(s, i) == Len(FlattenSeq(SubSeq(s, 1, i - 1)))
AskAt(c, i) == At(Requests(c), i)
AnswerAt(c, i) == At(Replies(c), i)

-----------------------------------------------------------------------------
(* The invariant.                                                          *)

Context == [state : {"kExpectHeaders", "kExpectBody", "kGotAll"}, isReq : BOOLEAN,
            length : Nat, read : Nat, chunked : BOOLEAN, client : Remotes \cup {None}]

Links == {"none", "connecting", "accepted", "refused", "failed", "up", "shut",
          "down", "orphan"}

LoopFields ==
  /\ ready \subseteq Clients \cup Remotes
  /\ closing \subseteq Clients /\ errors \subseteq Remotes
ClientFields ==
  /\ up \in [Clients -> {"up", "shut", "down", "gone"}]
  /\ asked \in [Clients -> Nat] /\ cEnd \in [Clients -> BOOLEAN]
  /\ cIn \in [Clients -> Seq(Unit)] /\ cBuf \in [Clients -> Seq(Unit)]
  /\ context \in [Clients -> Context]
  /\ cGot \in [Clients -> Seq(Unit \cup {Own})]
PeerFields == said \in [Remotes -> Nat] /\ bIn \in [Remotes -> Seq(Unit)]
RemoteFields ==
  /\ link \in [Remotes -> Links] /\ addr \in [Remotes -> Targets \cup {"none"}]
  /\ bound \in [Remotes -> Clients \cup {None}] /\ busy \in [Remotes -> BOOLEAN]
  /\ pending \in [Remotes -> Seq(RequestUnit)]
  /\ bGot \in [Remotes -> Seq(RequestUnit)] /\ bBuf \in [Remotes -> Seq(Unit)]
PoolFields == idle \in [Targets -> Seq(Remotes)] /\ stranded \subseteq Clients

FieldsOK == LoopFields /\ ClientFields /\ PeerFields /\ RemoteFields /\ PoolFields

LoopOK == \A c \in Clients : c \in ready => up[c] \in {"up", "shut"}

(* What c has sent is its requests up to a part of the i-th, of which m    *)
(* units were taken; the others wait to be read.                           *)
Facing(c, i, m) ==
  \E n \in Nat :
    /\ asked[c] = AskAt(c, i) + m + n
    /\ n > 0 => i <= Len(Plan[c]) /\ m + n <= Size(c, i)
    /\ cBuf[c] \o cIn[c] = Part(c, i, m, n)

(* What a client that is up has got is the answers up to x units of the    *)
(* i-th.                                                                   *)
Has(c, i, x) ==
  up[c] = "up" =>
    /\ Len(cGot[c]) = AnswerAt(c, i) + x
    /\ cGot[c] = SubSeq(Answers[c], 1, Len(cGot[c]))

Clean(p) == p.state = "kExpectHeaders" /\ p.length = 0 /\ p.read = 0 /\ ~p.chunked

(* A request is due, none of it taken. *)
Fresh(c, i) ==
  /\ Facing(c, i, 0) /\ Has(c, i, 0) /\ cBuf[c] = <<>>
  /\ Clean(context[c]) /\ context[c].client = None

(* It was refused, and lies in the buffer for good. *)
Refused(c, i) ==
  /\ Facing(c, i, 0) /\ cBuf[c] # <<>> /\ up[c] # "up"
  /\ context[c].client = None /\ Plan[c][i].kind # "im"
  /\ context[c].state # "kExpectBody" => Plan[c][i].body = 0

(* Where the parser is when m units of the request and x of the answer     *)
(* have passed.                                                            *)
Parsed(p, q, m, x) ==
  \/ /\ m \in 1..q.body /\ x = 0
     /\ p.state = "kExpectBody" /\ p.isReq /\ ~p.chunked
     /\ p.length = q.body /\ p.read = m - 1
  \/ m = q.body + 1 /\ x = 0 /\ Clean(p) /\ p.isReq
  \/ /\ m = q.body + 1 /\ x \in 1..q.answer
     /\ p.state = "kExpectBody" /\ ~p.isReq /\ p.chunked = q.chunked
     /\ ~p.chunked => p.length = q.answer /\ p.read = x - 1

Trying == {"connecting", "accepted", "refused", "failed"}

(* What the backend owes for m units of a request. *)
Owed(c, i, m) == IF m = Size(c, i) THEN Reply(c, i) ELSE 0

(* The RemoteClient that carries the request has these m units and no      *)
(* others put off, or its backend has them last of all, and what the       *)
(* backend has said after that is on its way or was passed on.             *)
Holding(c, r, i, m, x) ==
  /\ busy[r] /\ bound[r] = c /\ link[r] \in Trying \cup {"up", "down"}
  /\ link[r] \in Trying => x = 0 /\ pending[r] = Part(c, i, 0, m)
  /\ link[r] = "up" =>
       /\ pending[r] = <<>>
       /\ bGot[r] # <<>> /\ bGot[r][Len(bGot[r])] = <<c, i, m - 1>>
       /\ said[r] + Owed(c, i, m) = Len(Due(bGot[r])) + x + Len(bIn[r])
       /\ x + Len(bIn[r]) <= Owed(c, i, m)
       /\ bIn[r] = Part(c, i, x, Len(bIn[r]))

Carried(c, r, i, m, x) ==
  /\ i <= Len(Plan[c]) /\ Facing(c, i, m) /\ Has(c, i, x) /\ cBuf[c] = <<>>
  /\ Parsed(context[c], Plan[c][i], m, x)
  /\ context[c].client = r /\ Holding(c, r, i, m, x)

ClientAt(c, i) ==
  \/ Fresh(c, i) \/ Refused(c, i)
  \/ \E r \in Remotes, m, x \in Nat : Carried(c, r, i, m, x)

(* AnswersInOrder, of one client. *)
InOrder(c) ==
  \/ IsPrefix(cGot[c], Answers[c])
  \/ cGot[c] # <<>> /\ Last(cGot[c]) = Own /\ IsPrefix(Front(cGot[c]), Answers[c])

ClientOK(c) ==
  /\ up[c] = "shut" => cGot[c] # <<>> /\ Last(cGot[c]) = Own
  /\ InOrder(c)
  /\ IF up[c] = "gone" THEN context[c].client = None
     ELSE \E i \in 1..(Len(Plan[c]) + 1) : ClientAt(c, i)

(* RequestsWhole, of what one backend was sent. *)
Chained(s) ==
  \A j \in DOMAIN s :
    LET u == s[j] IN
    IF u[3] = 0 THEN j = 1 \/ Ends(s[j - 1])
                ELSE j > 1 /\ s[j - 1] = <<u[1], u[2], u[3] - 1>>

RemoteOK(r) ==
  /\ bBuf[r] = <<>> /\ link[r] # "shut" /\ Chained(bGot[r])
  /\ link[r] = "none" => /\ ~busy[r] /\ bound[r] = None /\ pending[r] = <<>>
  /\ link[r] # "none" => addr[r] \in Targets
  /\ link[r] \in {"none"} \cup Trying => bGot[r] = <<>> /\ said[r] = 0 /\ bIn[r] = <<>>
  /\ link[r] \in Trying => busy[r]
  /\ link[r] \notin {"none", "orphan"} /\ busy[r] =>
        bound[r] \in Clients /\ context[bound[r]].client = r

Idle(r, t) ==
  /\ addr[r] = t /\ link[r] \in {"up", "down"} /\ ~busy[r] /\ bound[r] = None
  /\ pending[r] = <<>> /\ bIn[r] = <<>>
  /\ said[r] = Len(Due(bGot[r]))
  /\ bGot[r] # <<>> => Ends(bGot[r][Len(bGot[r])])

Pooled(r, t) == \E j \in 1..Len(idle[t]) : idle[t][j] = r

PoolOK(t) ==
  /\ Len(idle[t]) <= MaxIdle
  /\ \A r \in Remotes : Pooled(r, t) => Idle(r, t)
  /\ \A j \in 1..Len(idle[t]) : \A i \in 1..(j - 1) : idle[t][i] # idle[t][j]

(* No unit that a backend has or will get waits to be read, or is given    *)
(* to another.                                                             *)
Held(r) == ToSet(bGot[r]) \cup ToSet(pending[r])
Used(c) == asked[c] - Len(cBuf[c]) - Len(cIn[c])
Place(u) == AskAt(u[1], u[2]) + u[3]

Apart ==
  /\ \A r \in Remotes : \A u \in Held(r) : Place(u) < Used(u[1])
  /\ \A r, s \in Remotes : r # s => Held(r) \cap Held(s) = {}

ClientsOK == \A c \in Clients : ClientOK(c)
RemotesOK == \A r \in Remotes : RemoteOK(r)
PoolsOK == \A t \in Targets : PoolOK(t)

GatewayInv == FieldsOK /\ LoopOK /\ ClientsOK /\ RemotesOK /\ PoolsOK /\ Apart

-----------------------------------------------------------------------------
(* Sequences.                                                              *)

(* A set of numbers that has 0 and, with each number, the next has all.    *)
LEMMA AllNumbers ==
  ASSUME NEW T, 0 \in T, \A n \in Nat : n \in T => n + 1 \in T
  PROVE  \A n \in Nat : n \in T
<1> DEFINE U == Nat \ T
<1>1. ASSUME U # {} PROVE \E x \in U : \A y \in U : ~(y < x)
  <2>1. \E x \in U : \A y \in U : <<y, x>> \notin OpToRel(<, Nat)
    BY <1>1, NatLessThanWellFounded, WFMin
  <2> QED BY <2>1 DEF OpToRel
<1>2. ASSUME NEW x \in U, \A y \in U : ~(y < x) PROVE FALSE
  <2>1. x \in Nat /\ x # 0 /\ x - 1 \in Nat /\ x - 1 < x
    BY <1>2
  <2>2. x - 1 \in T
    BY <1>2, <2>1
  <2> QED BY <2>1, <2>2
<1> QED BY <1>1, <1>2

(* Two sequences after one another. *)
LEMMA Joined ==
  ASSUME NEW S, NEW u \in Seq(S), NEW v \in Seq(S)
  PROVE  /\ u \o v \in Seq(S)
         /\ Len(u) \in Nat /\ Len(v) \in Nat /\ Len(u \o v) = Len(u) + Len(v)
         /\ \A j \in 1..Len(u) : (u \o v)[j] = u[j]
         /\ \A j \in 1..Len(v) : (u \o v)[Len(u) + j] = v[j]
<1>1. /\ u \o v \in Seq(S) /\ Len(u \o v) = Len(u) + Len(v)
      /\ \A i \in 1..Len(u) + Len(v) :
           (u \o v)[i] = IF i <= Len(u) THEN u[i] ELSE v[i - Len(u)]
  BY ConcatProperties
<1>2. Len(u) \in Nat /\ Len(v) \in Nat
  OBVIOUS
<1>3. ASSUME NEW j \in 1..Len(u) PROVE (u \o v)[j] = u[j]
  <2>1. j \in 1..Len(u) + Len(v) /\ j <= Len(u)
    BY <1>2
  <2> QED BY <1>1, <2>1
<1>4. ASSUME NEW j \in 1..Len(v) PROVE (u \o v)[Len(u) + j] = v[j]
  <2>1. /\ Len(u) + j \in 1..Len(u) + Len(v) /\ ~(Len(u) + j <= Len(u))
        /\ (Len(u) + j) - Len(u) = j
    BY <1>2
  <2> QED BY <1>1, <2>1
<1> QED BY <1>1, <1>2, <1>3, <1>4

(* Where an element of two sequences after one another comes from. *)
LEMMA JoinedFrom ==
  ASSUME NEW S, NEW u \in Seq(S), NEW v \in Seq(S), NEW j \in 1..Len(u \o v),
         j \notin 1..Len(u)
  PROVE  j - Len(u) \in 1..Len(v) /\ (u \o v)[j] = v[j - Len(u)]
<1>1. /\ Len(u) \in Nat /\ Len(v) \in Nat /\ Len(u \o v) = Len(u) + Len(v)
      /\ \A k \in 1..Len(v) : (u \o v)[Len(u) + k] = v[k]
  BY Joined
<1>2. j - Len(u) \in 1..Len(v) /\ Len(u) + (j - Len(u)) = j
  BY <1>1
<1> QED BY <1>1, <1>2

(* f is the function by which the first m of s are joined. *)
IsFlat(f, s, m) == f = [i \in 1..m |-> IF i = 1 THEN s[i] ELSE f[i - 1] \o s[i]]

(* The function that joins sequences exists, however many there are.       *)
LEMMA FlatExists == ASSUME NEW s PROVE \A m \in Nat : \E f : IsFlat(f, s, m)
<1> DEFINE T == {m \in Nat : \E f : IsFlat(f, s, m)}
<1>1. 0 \in T
  <2> DEFINE f == [i \in 1..0 |-> s[i]]
  <2>1. IsFlat(f, s, 0)
    BY DEF IsFlat
  <2> QED BY <2>1
<1>2. ASSUME NEW m \in Nat, m \in T PROVE m + 1 \in T
  <2>1. PICK f : IsFlat(f, s, m)
    BY <1>2
  <2>2. \A i \in 1..m : f[i] = IF i = 1 THEN s[i] ELSE f[i - 1] \o s[i]
    BY <2>1 DEF IsFlat
  <2> DEFINE h == [i \in 1..(m + 1) |-> IF i = 1 THEN s[i] ELSE f[i - 1] \o s[i]]
  <2>3. \A i \in 1..(m + 1) : h[i] = IF i = 1 THEN s[i] ELSE f[i - 1] \o s[i]
    OBVIOUS
  <2>4. h = [i \in 1..(m + 1) |-> h[i]]
    OBVIOUS
  <2> HIDE DEF h
  <2>5. \A i \in 1..m : h[i] = f[i]
    <3>1. ASSUME NEW i \in 1..m PROVE h[i] = f[i]
      <4>1. i \in 1..(m + 1)
        OBVIOUS
      <4> QED BY <2>2, <2>3, <4>1
    <3> QED BY <3>1
  <2>6. \A i \in 1..(m + 1) : h[i] = IF i = 1 THEN s[i] ELSE h[i - 1] \o s[i]
    <3>1. ASSUME NEW i \in 1..(m + 1), i # 1 PROVE h[i - 1] = f[i - 1]
      <4>1. i - 1 \in 1..m
        BY <3>1
      <4> QED BY <2>5, <4>1
    <3> QED BY <2>3, <3>1
  <2>7. IsFlat(h, s, m + 1)
    BY <2>4, <2>6 DEF IsFlat
  <2> QED BY <2>7
<1> HIDE DEF T
<1>3. \A m \in Nat : m \in T
  BY <1>1, <1>2, AllNumbers
<1> QED BY <1>3 DEF T

(* What of two sequences is the same is joined to the same. *)
LEMMA FlatSame ==
  ASSUME NEW f, NEW g, NEW s, NEW t, NEW m \in Nat, NEW n \in Nat, m <= n,
         IsFlat(f, s, m), IsFlat(g, t, n), \A i \in 1..m : s[i] = t[i]
  PROVE  \A i \in 1..m : f[i] = g[i]
<1>1. \A i \in 1..m : f[i] = IF i = 1 THEN s[i] ELSE f[i - 1] \o s[i]
  BY DEF IsFlat
<1>2. \A i \in 1..n : g[i] = IF i = 1 THEN t[i] ELSE g[i - 1] \o t[i]
  BY DEF IsFlat
<1> DEFINE T == {i \in Nat : i \in 1..m => f[i] = g[i]}
<1>3. 0 \in T
  OBVIOUS
<1>4. ASSUME NEW i \in Nat, i \in T PROVE i + 1 \in T
  <2> SUFFICES ASSUME i + 1 \in 1..m PROVE f[i + 1] = g[i + 1]
    OBVIOUS
  <2>1. i + 1 \in 1..n /\ (i + 1) - 1 = i /\ (i + 1 # 1 => i \in 1..m)
    OBVIOUS
  <2>2. f[i + 1] = IF i + 1 = 1 THEN s[i + 1] ELSE f[i] \o s[i + 1]
    BY <1>1, <2>1
  <2>3. g[i + 1] = IF i + 1 = 1 THEN t[i + 1] ELSE g[i] \o t[i + 1]
    BY <1>2, <2>1
  <2>4. s[i + 1] = t[i + 1]
    OBVIOUS
  <2>5. i + 1 # 1 => f[i] = g[i]
    BY <1>4, <2>1
  <2> QED BY <2>2, <2>3, <2>4, <2>5
<1> HIDE DEF T
<1>5. \A i \in Nat : i \in T
  BY <1>3, <1>4, AllNumbers
<1> QED BY <1>5 DEF T

(* FlattenSeq is the last value of that function.                          *)
LEMMA FlattenIs ==
  ASSUME NEW s, Len(s) \in Nat \ {0}
  PROVE  \E f : IsFlat(f, s, Len(s)) /\ FlattenSeq(s) = f[Len(s)]
<1> DEFINE f == CHOOSE g : IsFlat(g, s, Len(s))
<1>1. IsFlat(f, s, Len(s))
  BY FlatExists
<1>2. FlattenSeq(s) = f[Len(s)]
  BY DEF FlattenSeq, IsFlat
<1> QED BY <1>1, <1>2

(* One more sequence is joined at the end. *)
LEMMA FlattenMore ==
  ASSUME NEW S, NEW s \in Seq(Seq(S)), NEW x \in Seq(S)
  PROVE  FlattenSeq(Append(s, x)) = FlattenSeq(s) \o x
<1> DEFINE a == Append(s, x)
           n == Len(s)
<1>1. /\ a \in Seq(Seq(S)) /\ Len(a) = n + 1 /\ a[n + 1] = x /\ n \in Nat
      /\ \A i \in 1..n : a[i] = s[i]
  OBVIOUS
<1> HIDE DEF a
<1>2. PICK g : IsFlat(g, a, n + 1) /\ FlattenSeq(a) = g[n + 1]
  <2>1. Len(a) \in Nat \ {0}
    BY <1>1
  <2> QED BY <1>1, <2>1, FlattenIs
<1>3. g[n + 1] = IF n + 1 = 1 THEN a[n + 1] ELSE g[(n + 1) - 1] \o a[n + 1]
  <2>1. n + 1 \in 1..(n + 1)
    BY <1>1
  <2> QED BY <1>2, <2>1 DEF IsFlat
<1>4. CASE n = 0
  <2>1. s = <<>>
    BY <1>4
  <2>2. FlattenSeq(s) = <<>>
    BY <2>1 DEF FlattenSeq
  <2>3. <<>> \o x = x
    OBVIOUS
  <2> QED BY <1>1, <1>2, <1>3, <1>4, <2>2, <2>3 DEF a
<1>5. CASE n # 0
  <2>1. PICK f : IsFlat(f, s, n) /\ FlattenSeq(s) = f[n]
    BY <1>1, <1>5, FlattenIs
  <2>2. \A i \in 1..n : s[i] = a[i]
    BY <1>1
  <2>3. f[n] = g[n]
    <3>1. n + 1 \in Nat /\ n <= n + 1 /\ n \in 1..n
      BY <1>1, <1>5
    <3> HIDE DEF n
    <3>3. PICK z \in Nat : z = n + 1
      BY <3>1
    <3>4. n \in Nat /\ n <= z /\ IsFlat(f, s, n) /\ IsFlat(g, a, z)
      BY <1>1, <1>2, <2>1, <3>1, <3>3
    <3>2. \A i \in 1..n : f[i] = g[i]
      BY <2>2, <3>4, FlatSame
    <3> QED BY <3>1, <3>2
  <2>4. (n + 1) - 1 = n /\ n + 1 # 1
    BY <1>1, <1>5
  <2> QED BY <1>1, <1>2, <1>3, <2>1, <2>3, <2>4 DEF a
<1> QED BY <1>4, <1>5

(* Sequences after one another: how much comes before each, and where its  *)
(* elements are.                                                           *)
LEMMA FlattenFacts ==
  ASSUME NEW S, NEW s \in Seq(Seq(S))
  PROVE  /\ FlattenSeq(s) \in Seq(S)
         /\ At(s, 1) = 0 /\ At(s, Len(s) + 1) = Len(FlattenSeq(s))
         /\ \A i \in 1..Len(s) :
              /\ At(s, i) \in Nat /\ At(s, i + 1) = At(s, i) + Len(s[i])
              /\ At(s, i + 1) <= Len(FlattenSeq(s))
              /\ \A k \in 1..Len(s[i]) : FlattenSeq(s)[At(s, i) + k] = s[i][k]
<1> DEFINE F(i) == FlattenSeq(SubSeq(s, 1, i))
           N == Len(s)
<1>0. N \in Nat /\ \A i \in 1..N : s[i] \in Seq(S)
  OBVIOUS
<1>1. F(0) = <<>> /\ F(N) = FlattenSeq(s)
  <2>1. SubSeq(s, 1, 0) = <<>> /\ SubSeq(s, 1, N) = s
    OBVIOUS
  <2>2. FlattenSeq(<<>>) = <<>>
    BY DEF FlattenSeq
  <2> QED BY <2>1, <2>2
<1>2. ASSUME NEW i \in 0..(N - 1) PROVE F(i + 1) = F(i) \o s[i + 1]
  <2>1. SubSeq(s, 1, i) \in Seq(Seq(S)) /\ s[i + 1] \in Seq(S)
    BY <1>0
  <2>2. SubSeq(s, 1, i + 1) = Append(SubSeq(s, 1, i), s[i + 1])
    BY <1>0
  <2> QED BY <2>1, <2>2, FlattenMore
<1>3. \A i \in 1..(N + 1) : At(s, i) = Len(F(i - 1))
  BY DEF At
<1> HIDE DEF F, N
<1> DEFINE T == {n \in Nat : n <= N => F(n) \in Seq(S)}
<1>4. \A n \in 0..N : F(n) \in Seq(S)
  <2>1. 0 \in T
    <3>1. <<>> \in Seq(S)
      OBVIOUS
    <3> QED BY <1>1, <3>1
  <2>2. ASSUME NEW n \in Nat, n \in T PROVE n + 1 \in T
    <3> SUFFICES ASSUME n + 1 <= N PROVE F(n + 1) \in Seq(S)
      OBVIOUS
    <3>1. n \in 0..(N - 1) /\ n + 1 \in 1..N
      BY <1>0
    <3>2. F(n) \in Seq(S) /\ s[n + 1] \in Seq(S)
      BY <1>0, <2>2, <3>1
    <3> QED BY <1>2, <3>1, <3>2, Joined
  <2> HIDE DEF T
  <2>3. \A n \in Nat : n \in T
    BY <2>1, <2>2, AllNumbers
  <2> QED BY <1>0, <2>3 DEF T
<1> DEFINE U == {n \in Nat : n <= N => \A i \in 1..n :
                  /\ Len(F(i)) <= Len(F(n))
                  /\ \A k \in 1..Len(s[i]) : F(n)[Len(F(i - 1)) + k] = s[i][k]}
<1>5. ASSUME NEW i \in 1..N
      PROVE  /\ Len(F(i)) = Len(F(i - 1)) + Len(s[i]) /\ Len(F(i)) \in Nat
             /\ Len(F(i - 1)) \in Nat /\ Len(s[i]) \in Nat
             /\ \A j \in 1..Len(F(i - 1)) : F(i)[j] = F(i - 1)[j]
             /\ \A k \in 1..Len(s[i]) : F(i)[Len(F(i - 1)) + k] = s[i][k]
  <2>1. i - 1 \in 0..(N - 1) /\ i - 1 \in 0..N /\ i \in 0..N /\ (i - 1) + 1 = i
    BY <1>0
  <2>2. F(i) = F(i - 1) \o s[i]
    BY <1>2, <2>1
  <2>3. F(i - 1) \in Seq(S) /\ s[i] \in Seq(S) /\ F(i) \in Seq(S)
    BY <1>0, <1>4, <2>1
  <2>4. /\ Len(F(i - 1)) \in Nat /\ Len(s[i]) \in Nat /\ Len(F(i)) \in Nat
        /\ Len(F(i)) = Len(F(i - 1)) + Len(s[i])
    <3>1. \A u \in Seq(S) : Len(u) \in Nat
      OBVIOUS
    <3>2. \A u, v \in Seq(S) : Len(u \o v) = Len(u) + Len(v)
      OBVIOUS
    <3> QED BY <2>2, <2>3, <3>1, <3>2
  <2>5. \A j \in 1..Len(F(i - 1)) : F(i)[j] = F(i - 1)[j]
    BY <2>2, <2>3, Joined
  <2>6. \A k \in 1..Len(s[i]) : F(i)[Len(F(i - 1)) + k] = s[i][k]
    BY <2>2, <2>3, Joined
  <2> QED BY <2>4, <2>5, <2>6
<1>6. \A n \in 0..N : \A i \in 1..n :
        /\ Len(F(i)) <= Len(F(n))
        /\ \A k \in 1..Len(s[i]) : F(n)[Len(F(i - 1)) + k] = s[i][k]
  <2>1. 0 \in U
    OBVIOUS
  <2>2. ASSUME NEW n \in Nat, n \in U PROVE n + 1 \in U
    <3> SUFFICES ASSUME n + 1 <= N, NEW i \in 1..(n + 1)
                 PROVE  /\ Len(F(i)) <= Len(F(n + 1))
                        /\ \A k \in 1..Len(s[i]) : F(n + 1)[Len(F(i - 1)) + k] = s[i][k]
      OBVIOUS
    <3>1. n + 1 \in 1..N /\ (n + 1) - 1 = n /\ n <= N /\ n \in 0..N
      BY <1>0
    <3>2. /\ Len(F(n + 1)) = Len(F(n)) + Len(s[n + 1]) /\ Len(F(n)) \in Nat
          /\ Len(s[n + 1]) \in Nat
          /\ \A j \in 1..Len(F(n)) : F(n + 1)[j] = F(n)[j]
          /\ \A k \in 1..Len(s[n + 1]) : F(n + 1)[Len(F(n)) + k] = s[n + 1][k]
      BY <1>5, <3>1
    <3>3. CASE i = n + 1
      BY <3>1, <3>2, <3>3
    <3>4. CASE i # n + 1
      <4>1. i \in 1..n /\ i \in 1..N
        BY <1>0, <3>1, <3>4
      <4>2. /\ Len(F(i)) <= Len(F(n))
            /\ \A k \in 1..Len(s[i]) : F(n)[Len(F(i - 1)) + k] = s[i][k]
        BY <2>2, <3>1, <4>1
      <4>3. /\ Len(F(i)) = Len(F(i - 1)) + Len(s[i]) /\ Len(F(i)) \in Nat
            /\ Len(F(i - 1)) \in Nat /\ Len(s[i]) \in Nat
        BY <1>5, <4>1
      <4>4. \A k \in 1..Len(s[i]) : Len(F(i - 1)) + k \in 1..Len(F(n))
        <5>1. \A a, b, d, e \in Nat :
                a + b <= d => \A k \in 1..b : a + k \in 1..d
          OBVIOUS
        <5>2. Len(F(i - 1)) + Len(s[i]) <= Len(F(n))
          BY <4>2, <4>3
        <5> QED BY <3>2, <4>3, <5>1, <5>2
      <4>5. Len(F(n)) <= Len(F(n + 1))
        <5>1. \A a, b, d \in Nat : d = a + b => a <= d
          OBVIOUS
        <5>2. Len(F(n + 1)) \in Nat
          BY <1>5, <3>1
        <5> QED BY <3>2, <5>1, <5>2
      <4>6. Len(F(i)) <= Len(F(n + 1))
        <5>1. \A a, b, d \in Nat : a <= b /\ b <= d => a <= d
          OBVIOUS
        <5>2. Len(F(n + 1)) \in Nat
          BY <1>5, <3>1
        <5> QED BY <3>2, <4>2, <4>3, <4>5, <5>1, <5>2
      <4> QED BY <3>2, <4>2, <4>4, <4>6
    <3> QED BY <3>3, <3>4
  <2> HIDE DEF U
  <2>3. \A n \in Nat : n \in U
    BY <2>1, <2>2, AllNumbers
  <2> QED BY <1>0, <2>3 DEF U
<1>7. ASSUME NEW i \in 1..N
      PROVE  /\ At(s, i) \in Nat /\ At(s, i + 1) = At(s, i) + Len(s[i])
             /\ At(s, i + 1) <= Len(FlattenSeq(s))
             /\ \A k \in 1..Len(s[i]) : FlattenSeq(s)[At(s, i) + k] = s[i][k]
  <2>1. At(s, i) = Len(F(i - 1)) /\ At(s, i + 1) = Len(F(i))
    <3>1. i \in 1..(N + 1) /\ i + 1 \in 1..(N + 1) /\ (i + 1) - 1 = i
      BY <1>0
    <3> QED BY <1>3, <3>1
  <2>2. N \in 0..N
    BY <1>0
  <2> QED BY <1>1, <1>5, <1>6, <2>1, <2>2
<1>8. At(s, 1) = 0 /\ At(s, N + 1) = Len(F(N))
  <2>1. 1 \in 1..(N + 1) /\ N + 1 \in 1..(N + 1) /\ 1 - 1 = 0 /\ (N + 1) - 1 = N
    BY <1>0
  <2> QED BY <1>1, <1>3, <2>1
<1>9. FlattenSeq(s) \in Seq(S)
  BY <1>0, <1>1, <1>4
<1> QED BY <1>1, <1>7, <1>8, <1>9 DEF N

-----------------------------------------------------------------------------
(* Messages, and the streams they make.                                    *)

(* What GatewayAssumption says of a client's requests.                     *)
LEMMA PlanFacts ==
  ASSUME NEW c \in Clients
  PROVE  /\ Len(Plan[c]) \in Nat
         /\ \A i \in 1..Len(Plan[c]) :
              /\ Plan[c][i].kind \in {"im", "llm", "refused"}
              /\ Plan[c][i].body \in Nat /\ Plan[c][i].answer \in Nat
              /\ Plan[c][i].chunked \in BOOLEAN
              /\ Plan[c][i].kind = "llm" => Plan[c][i].body > 0
              /\ Plan[c][i].chunked => Plan[c][i].answer > 0
              /\ Size(c, i) \in Nat \ {0} /\ Reply(c, i) \in Nat \ {0}
<1> DEFINE Q == [kind : {"im", "llm", "refused"}, body : Nat, answer : Nat,
                 chunked : BOOLEAN]
<1>1. Plan[c] \in Seq(Q)
  BY GatewayAssumption
<1>3. \A q \in Q : /\ q.kind \in {"im", "llm", "refused"} /\ q.body \in Nat
                   /\ q.answer \in Nat /\ q.chunked \in BOOLEAN
  OBVIOUS
<1> HIDE DEF Q
<1>2. Len(Plan[c]) \in Nat /\ \A i \in 1..Len(Plan[c]) : Plan[c][i] \in Q
  BY <1>1
<1>4. ASSUME NEW i \in 1..Len(Plan[c])
      PROVE  /\ Plan[c][i].kind \in {"im", "llm", "refused"}
             /\ Plan[c][i].body \in Nat /\ Plan[c][i].answer \in Nat
             /\ Plan[c][i].chunked \in BOOLEAN
             /\ Plan[c][i].kind = "llm" => Plan[c][i].body > 0
             /\ Plan[c][i].chunked => Plan[c][i].answer > 0
             /\ Size(c, i) \in Nat \ {0} /\ Reply(c, i) \in Nat \ {0}
  <2>1. /\ Plan[c][i].kind \in {"im", "llm", "refused"}
        /\ Plan[c][i].body \in Nat /\ Plan[c][i].answer \in Nat
        /\ Plan[c][i].chunked \in BOOLEAN
    BY <1>2, <1>3
  <2>2. /\ Plan[c][i].kind = "llm" => Plan[c][i].body > 0
        /\ Plan[c][i].chunked => Plan[c][i].answer > 0
    BY GatewayAssumption
  <2>3. \A n \in Nat : n + 1 \in Nat \ {0}
    OBVIOUS
  <2> QED BY <2>1, <2>2, <2>3 DEF Size, Reply
<1> QED BY <1>2, <1>4

IsPart(s, c, i, m, n) ==
  /\ s \in Seq(Unit) /\ Len(s) = n /\ (n = 0 <=> s = <<>>)
  /\ \A k \in 1..n : s[k] = <<c, i, m + k - 1>>

(* Part(c, i, m, n) is what it is meant to be.                             *)
LEMMA PartFacts ==
  ASSUME NEW c \in Clients, NEW i \in Nat, NEW m \in Nat, NEW n \in Nat
  PROVE  IsPart(Part(c, i, m, n), c, i, m, n)
<1> DEFINE f == Part(c, i, m, n)
<1>1. \A k \in 1..n : <<c, i, m + k - 1>> \in Unit
  BY DEF Unit
<1>2. f = [k \in 1..n |-> f[k]] /\ \A k \in 1..n : f[k] = <<c, i, m + k - 1>>
  BY DEF Part
<1> HIDE DEF f
<1>3. f \in [1..n -> Unit]
  BY <1>1, <1>2
<1>4. f \in Seq(Unit) /\ Len(f) = n
  BY <1>3
<1>5. n = 0 <=> f = <<>>
  BY <1>4
<1> QED BY <1>2, <1>4, <1>5 DEF f, IsPart

(* And it is the only one.                                                 *)
LEMMA PartIs ==
  ASSUME NEW c \in Clients, NEW i \in Nat, NEW m \in Nat, NEW n \in Nat,
         NEW s, IsPart(s, c, i, m, n)
  PROVE  s = Part(c, i, m, n)
<1> DEFINE f == Part(c, i, m, n)
<1>1. IsPart(f, c, i, m, n)
  BY PartFacts
<1> HIDE DEF f
<1>2. f \in Seq(Unit) /\ Len(f) = n /\ \A k \in 1..n : f[k] = <<c, i, m + k - 1>>
  BY <1>1 DEF IsPart
<1>3. s \in Seq(Unit) /\ Len(s) = n /\ \A k \in 1..n : s[k] = f[k]
  BY <1>2 DEF IsPart
<1>4. s = f
  BY <1>2, <1>3
<1> QED BY <1>4 DEF f

(* Parts that follow one another. *)
LEMMA PartMore ==
  ASSUME NEW c \in Clients, NEW i \in Nat, NEW m \in Nat, NEW n \in Nat, NEW k \in Nat,
         NEW h \in Nat, NEW z \in Nat, h <= m + n, m + n <= h, z <= n + k, n + k <= z
  PROVE  Part(c, i, m, n) \o Part(c, i, h, k) = Part(c, i, m, z)
<1>1. h = m + n /\ z = n + k
  OBVIOUS
<1> DEFINE u == Part(c, i, m, n)
           v == Part(c, i, h, k)
<1>a. IsPart(u, c, i, m, n)
  BY PartFacts
<1>b. IsPart(v, c, i, h, k)
  BY PartFacts
<1> HIDE DEF u, v
<1>2. /\ u \in Seq(Unit) /\ Len(u) = n
      /\ \A j \in 1..n : u[j] = <<c, i, m + j - 1>>
  BY <1>a DEF IsPart
<1>3. /\ v \in Seq(Unit) /\ Len(v) = k
      /\ \A j \in 1..k : v[j] = <<c, i, h + j - 1>>
  BY <1>b DEF IsPart
<1>4. /\ u \o v \in Seq(Unit) /\ Len(u \o v) = z
      /\ \A j \in 1..Len(u) : (u \o v)[j] = u[j]
      /\ \A j \in 1..Len(v) : (u \o v)[Len(u) + j] = v[j]
  <2>1. /\ u \o v \in Seq(Unit) /\ Len(u \o v) = Len(u) + Len(v)
        /\ \A j \in 1..Len(u) : (u \o v)[j] = u[j]
        /\ \A j \in 1..Len(v) : (u \o v)[Len(u) + j] = v[j]
    <3>1. u \in Seq(Unit) /\ v \in Seq(Unit)
      BY <1>2, <1>3
    <3> QED BY <3>1, Joined
  <2> QED BY <1>1, <1>2, <1>3, <2>1
<1>5. ASSUME NEW j \in 1..z PROVE (u \o v)[j] = <<c, i, m + j - 1>>
  <2>1. CASE j <= n
    <3>1. j \in 1..n
      BY <2>1
    <3> QED BY <1>2, <1>4, <3>1
  <2>2. CASE j > n
    <3>1. j - n \in 1..k /\ n + (j - n) = j /\ h + (j - n) - 1 = m + j - 1
      BY <1>1, <2>2
    <3>2. (u \o v)[n + (j - n)] = v[j - n]
      BY <1>2, <1>3, <1>4, <3>1
    <3>3. v[j - n] = <<c, i, h + (j - n) - 1>>
      BY <1>3, <3>1
    <3> QED BY <3>1, <3>2, <3>3
  <2>3. j <= n \/ j > n
    OBVIOUS
  <2> QED BY <2>1, <2>2, <2>3
<1>6. u \o v = Part(c, i, m, z)
  <2>1. z = 0 <=> u \o v = <<>>
    BY <1>4
  <2>2. IsPart(u \o v, c, i, m, z)
    BY <1>4, <1>5, <2>1 DEF IsPart
  <2> QED BY <2>2, PartIs
<1> QED BY <1>1, <1>6 DEF u, v

(* One unit more. *)
LEMMA PartOne ==
  ASSUME NEW c \in Clients, NEW i \in Nat, NEW m \in Nat, NEW n \in Nat
  PROVE  /\ Append(Part(c, i, m, n), <<c, i, m + n>>) = Part(c, i, m, n + 1)
         /\ Part(c, i, m, 1) = <<<<c, i, m>>>>
<1>1. PICK z \in Nat : z = n + 1
  OBVIOUS
<1> DEFINE u == Part(c, i, m, n)
           v == Part(c, i, m, z)
           x == <<c, i, m + n>>
<1>2. x \in Unit
  BY DEF Unit
<1>a. IsPart(u, c, i, m, n)
  BY PartFacts
<1>b. IsPart(v, c, i, m, z)
  BY PartFacts
<1> HIDE DEF u, v
<1>3. /\ u \in Seq(Unit) /\ Len(u) = n
      /\ \A k \in 1..n : u[k] = <<c, i, m + k - 1>>
  BY <1>a DEF IsPart
<1>4. /\ v \in Seq(Unit) /\ Len(v) = z
      /\ \A k \in 1..z : v[k] = <<c, i, m + k - 1>>
  BY <1>b DEF IsPart
<1>5. Append(u, x) = v
  <2>1. /\ Append(u, x) \in Seq(Unit) /\ Len(Append(u, x)) = z
        /\ \A k \in 1..n : Append(u, x)[k] = u[k]
        /\ Append(u, x)[z] = x
    <3> HIDE DEF x
    <3> QED BY <1>1, <1>2, <1>3
  <2>2. m + z - 1 = m + n
    BY <1>1
  <2>3. \A k \in 1..z : k \in 1..n \/ k = z
    BY <1>1
  <2>4. \A k \in 1..z : Append(u, x)[k] = <<c, i, m + k - 1>>
    BY <1>3, <2>1, <2>2, <2>3
  <2> HIDE DEF x
  <2>5. Append(u, x) = Part(c, i, m, z)
    <3>1. z = 0 <=> Append(u, x) = <<>>
      BY <1>1, <2>1
    <3>2. IsPart(Append(u, x), c, i, m, z)
      BY <2>1, <2>4, <3>1 DEF IsPart
    <3> QED BY <3>2, PartIs
  <2> QED BY <2>5 DEF v
<1>6. Part(c, i, m, 1) = <<<<c, i, m>>>>
  <2>1. <<<<c, i, m>>>> \in Seq(Unit) /\ Len(<<<<c, i, m>>>>) = 1
    BY DEF Unit
  <2>2. \A k \in 1..1 : k = 1 /\ m + k - 1 = m
    OBVIOUS
  <2>3. \A k \in 1..1 : <<<<c, i, m>>>>[k] = <<c, i, m + k - 1>>
    BY <2>2
  <2>4. IsPart(<<<<c, i, m>>>>, c, i, m, 1)
    BY <2>1, <2>3 DEF IsPart
  <2> QED BY <2>4, PartIs
<1> QED BY <1>1, <1>5, <1>6 DEF u, v, x

(* One unit less, in front. *)
Follows(a, b) == b = a + 1

(* Without its first unit, a part is the part one further on.              *)
LEMMA PartTail ==
  ASSUME NEW c \in Clients, NEW i \in Nat, NEW m \in Nat, NEW n \in Nat, NEW h \in Nat,
         NEW z \in Nat, Follows(m, h), Follows(n, z)
  PROVE  /\ Tail(Part(c, i, m, z)) = Part(c, i, h, n)
         /\ <<Head(Part(c, i, m, z))>> \o Tail(Part(c, i, m, z)) = Part(c, i, m, z)
<1>1. h = m + 1 /\ z = n + 1
  BY DEF Follows
<1> DEFINE v == Part(c, i, m, z)
<1>2. IsPart(v, c, i, m, z)
  BY PartFacts
<1> HIDE DEF v
<1>3. /\ v \in Seq(Unit) /\ Len(v) = z
      /\ \A k \in 1..z : v[k] = <<c, i, m + k - 1>>
  BY <1>2 DEF IsPart
<1>4. Tail(v) = Part(c, i, h, n)
  <2>1. Tail(v) \in Seq(Unit) /\ Len(Tail(v)) = n /\ \A k \in 1..n : Tail(v)[k] = v[k + 1]
    BY <1>1, <1>3
  <2>2. \A k \in 1..n : k + 1 \in 1..z /\ m + (k + 1) - 1 = h + k - 1
    BY <1>1
  <2>3. \A k \in 1..n : Tail(v)[k] = <<c, i, h + k - 1>>
    BY <1>3, <2>1, <2>2
  <2>4. n = 0 <=> Tail(v) = <<>>
    BY <2>1
  <2>5. IsPart(Tail(v), c, i, h, n)
    BY <2>1, <2>3, <2>4 DEF IsPart
  <2> QED BY <2>5, PartIs
<1>5. <<Head(v)>> \o Tail(v) = v
  BY <1>1, <1>3
<1> QED BY <1>4, <1>5 DEF v

(* A message is a part of itself. *)
LEMMA MessageFacts ==
  ASSUME NEW c \in Clients, NEW i \in 1..Len(Plan[c])
  PROVE  /\ Request(c, i) = Part(c, i, 0, Size(c, i))
         /\ Answer(c, i) = Part(c, i, 0, Reply(c, i))
         /\ IsPart(Request(c, i), c, i, 0, Size(c, i))
         /\ IsPart(Answer(c, i), c, i, 0, Reply(c, i))
<1>1. i \in Nat /\ 0 \in Nat /\ Size(c, i) \in Nat /\ Reply(c, i) \in Nat
  BY PlanFacts
<1>2. \A k \in Nat : 0 + k - 1 = k - 1
  OBVIOUS
<1>3. Request(c, i) = Part(c, i, 0, Size(c, i))
  BY <1>2 DEF Request, Part, Size
<1>4. Answer(c, i) = Part(c, i, 0, Reply(c, i))
  BY <1>2 DEF Answer, Part, Reply
<1>5. IsPart(Part(c, i, 0, Size(c, i)), c, i, 0, Size(c, i))
  BY <1>1, PartFacts
<1>6. IsPart(Part(c, i, 0, Reply(c, i)), c, i, 0, Reply(c, i))
  BY <1>1, PartFacts
<1> QED BY <1>3, <1>4, <1>5, <1>6

(* What a client asks: its i-th request begins after AskAt(c, i) units. *)
LEMMA AskFacts ==
  ASSUME NEW c \in Clients
  PROVE  /\ Asks[c] \in Seq(Unit) /\ Len(Asks[c]) \in Nat
         /\ AskAt(c, 1) = 0 /\ AskAt(c, Len(Plan[c]) + 1) = Len(Asks[c])
         /\ \A i \in 1..Len(Plan[c]) :
              /\ AskAt(c, i) \in Nat /\ AskAt(c, i + 1) = AskAt(c, i) + Size(c, i)
              /\ \A k \in 1..Size(c, i) : Asks[c][AskAt(c, i) + k] = <<c, i, k - 1>>
<1> DEFINE s == Requests(c)
           L == Len(Plan[c])
<1>1. L \in Nat /\ s = [i \in 1..L |-> s[i]] /\ \A i \in 1..L : s[i] = Request(c, i)
  BY PlanFacts DEF Requests
<1>2. Asks[c] = FlattenSeq(s)
  BY DEF Asks, Requests
<1>3. ASSUME NEW i \in 1..L
      PROVE  s[i] \in Seq(Unit) /\ Len(s[i]) = Size(c, i)
             /\ \A k \in 1..Size(c, i) : s[i][k] = <<c, i, k - 1>>
  <2>1. Size(c, i) \in Nat /\ IsPart(Request(c, i), c, i, 0, Size(c, i))
    BY PlanFacts, MessageFacts
  <2>2. \A k \in 1..Size(c, i) : 0 + k - 1 = k - 1
    BY <2>1
  <2>3. /\ s[i] \in Seq(Unit) /\ Len(s[i]) = Size(c, i)
        /\ \A k \in 1..Size(c, i) : s[i][k] = <<c, i, 0 + k - 1>>
    BY <1>1, <2>1 DEF IsPart
  <2> QED BY <2>2, <2>3
<1> HIDE DEF s, L
<1>4. s \in [1..L -> Seq(Unit)]
  BY <1>1, <1>3
<1>5. s \in Seq(Seq(Unit)) /\ Len(s) = L
  BY <1>1, <1>4
<1>6. /\ FlattenSeq(s) \in Seq(Unit)
      /\ At(s, 1) = 0 /\ At(s, Len(s) + 1) = Len(FlattenSeq(s))
      /\ \A i \in 1..Len(s) :
           /\ At(s, i) \in Nat /\ At(s, i + 1) = At(s, i) + Len(s[i])
           /\ \A k \in 1..Len(s[i]) : FlattenSeq(s)[At(s, i) + k] = s[i][k]
  BY <1>5, FlattenFacts
<1>7. \A i : AskAt(c, i) = At(s, i)
  BY DEF AskAt, s
<1>8. Asks[c] \in Seq(Unit) /\ Len(Asks[c]) \in Nat
  BY <1>2, <1>6
<1>9. ASSUME NEW i \in 1..L
      PROVE  /\ AskAt(c, i) \in Nat /\ AskAt(c, i + 1) = AskAt(c, i) + Size(c, i)
             /\ \A k \in 1..Size(c, i) : Asks[c][AskAt(c, i) + k] = <<c, i, k - 1>>
  <2>1. /\ At(s, i) \in Nat /\ At(s, i + 1) = At(s, i) + Len(s[i])
        /\ \A k \in 1..Len(s[i]) : FlattenSeq(s)[At(s, i) + k] = s[i][k]
    BY <1>5, <1>6
  <2>2. AskAt(c, i) = At(s, i) /\ AskAt(c, i + 1) = At(s, i + 1)
    BY <1>7
  <2>3. Len(s[i]) = Size(c, i) /\ \A k \in 1..Size(c, i) : s[i][k] = <<c, i, k - 1>>
    BY <1>3
  <2> QED BY <1>2, <2>1, <2>2, <2>3
<1> QED BY <1>2, <1>5, <1>6, <1>7, <1>8, <1>9 DEF L

(* What it is answered. *)
LEMMA AnswerFacts ==
  ASSUME NEW c \in Clients
  PROVE  /\ Answers[c] \in Seq(Unit) /\ Len(Answers[c]) \in Nat
         /\ AnswerAt(c, 1) = 0
         /\ \A i \in 1..Len(Plan[c]) :
              /\ AnswerAt(c, i) \in Nat /\ AnswerAt(c, i + 1) = AnswerAt(c, i) + Reply(c, i)
              /\ AnswerAt(c, i + 1) <= Len(Answers[c])
              /\ \A k \in 1..Reply(c, i) : Answers[c][AnswerAt(c, i) + k] = <<c, i, k - 1>>
<1> DEFINE s == Replies(c)
           L == Len(Plan[c])
<1>1. L \in Nat /\ s = [i \in 1..L |-> s[i]] /\ \A i \in 1..L : s[i] = Answer(c, i)
  BY PlanFacts DEF Replies
<1>2. Answers[c] = FlattenSeq(s)
  BY DEF Answers, Replies
<1>3. ASSUME NEW i \in 1..L
      PROVE  s[i] \in Seq(Unit) /\ Len(s[i]) = Reply(c, i)
             /\ \A k \in 1..Reply(c, i) : s[i][k] = <<c, i, k - 1>>
  <2>1. Reply(c, i) \in Nat /\ IsPart(Answer(c, i), c, i, 0, Reply(c, i))
    BY PlanFacts, MessageFacts
  <2>2. \A k \in 1..Reply(c, i) : 0 + k - 1 = k - 1
    BY <2>1
  <2>3. /\ s[i] \in Seq(Unit) /\ Len(s[i]) = Reply(c, i)
        /\ \A k \in 1..Reply(c, i) : s[i][k] = <<c, i, 0 + k - 1>>
    BY <1>1, <2>1 DEF IsPart
  <2> QED BY <2>2, <2>3
<1> HIDE DEF s, L
<1>4. s \in [1..L -> Seq(Unit)]
  BY <1>1, <1>3
<1>5. s \in Seq(Seq(Unit)) /\ Len(s) = L
  BY <1>1, <1>4
<1>6. /\ FlattenSeq(s) \in Seq(Unit) /\ At(s, 1) = 0
      /\ \A i \in 1..Len(s) :
           /\ At(s, i) \in Nat /\ At(s, i + 1) = At(s, i) + Len(s[i])
           /\ At(s, i + 1) <= Len(FlattenSeq(s))
           /\ \A k \in 1..Len(s[i]) : FlattenSeq(s)[At(s, i) + k] = s[i][k]
  BY <1>5, FlattenFacts
<1>7. \A i : AnswerAt(c, i) = At(s, i)
  BY DEF AnswerAt, s
<1>8. Answers[c] \in Seq(Unit) /\ Len(Answers[c]) \in Nat
  BY <1>2, <1>6
<1>9. ASSUME NEW i \in 1..L
      PROVE  /\ AnswerAt(c, i) \in Nat /\ AnswerAt(c, i + 1) = AnswerAt(c, i) + Reply(c, i)
             /\ AnswerAt(c, i + 1) <= Len(Answers[c])
             /\ \A k \in 1..Reply(c, i) : Answers[c][AnswerAt(c, i) + k] = <<c, i, k - 1>>
  <2>1. /\ At(s, i) \in Nat /\ At(s, i + 1) = At(s, i) + Len(s[i])
        /\ At(s, i + 1) <= Len(FlattenSeq(s))
        /\ \A k \in 1..Len(s[i]) : FlattenSeq(s)[At(s, i) + k] = s[i][k]
    BY <1>5, <1>6
  <2>2. AnswerAt(c, i) = At(s, i) /\ AnswerAt(c, i + 1) = At(s, i + 1)
    BY <1>7
  <2>3. Len(s[i]) = Reply(c, i) /\ \A k \in 1..Reply(c, i) : s[i][k] = <<c, i, k - 1>>
    BY <1>3
  <2> QED BY <1>2, <2>1, <2>2, <2>3
<1> QED BY <1>6, <1>7, <1>8, <1>9 DEF L

-----------------------------------------------------------------------------
(* What backends are sent, and what they have to say.                      *)

DueOf(u) == IF Ends(u) THEN Answer(u[1], u[2]) ELSE <<>>

(* What a unit of a request is made of.                                    *)
LEMMA UnitFacts ==
  ASSUME NEW u \in RequestUnit
  PROVE  /\ u \in Unit /\ u[1] \in Clients /\ u[2] \in 1..Len(Plan[u[1]])
         /\ u[3] \in Nat /\ u[3] < Size(u[1], u[2])
         /\ DueOf(u) \in Seq(Unit)
<1>1. /\ u \in Unit /\ u[2] \in 1..Len(Plan[u[1]]) /\ u[3] < Size(u[1], u[2])
  BY DEF RequestUnit
<1>2. u[1] \in Clients /\ u[3] \in Nat
  BY <1>1 DEF Unit
<1>3. IsPart(Answer(u[1], u[2]), u[1], u[2], 0, Reply(u[1], u[2]))
  BY <1>1, <1>2, MessageFacts
<1>4. Answer(u[1], u[2]) \in Seq(Unit)
  BY <1>3 DEF IsPart
<1>5. <<>> \in Seq(Unit)
  OBVIOUS
<1> QED BY <1>1, <1>2, <1>4, <1>5 DEF DueOf

(* A part grows by the unit that comes next.                               *)
LEMMA PartAppend ==
  ASSUME NEW c \in Clients, NEW i \in Nat, NEW m \in Nat, NEW n \in Nat,
         NEW z, z = n + 1, NEW u, u = <<c, i, m + n>>
  PROVE  Part(c, i, m, z) = Append(Part(c, i, m, n), u)
BY PartOne

(* The units of a request are such. *)
LEMMA PartUnits ==
  ASSUME NEW c \in Clients, NEW i \in 1..Len(Plan[c]), NEW m \in Nat, NEW n \in Nat,
         m + n <= Size(c, i)
  PROVE  Part(c, i, m, n) \in Seq(RequestUnit)
<1> DEFINE f == Part(c, i, m, n)
<1>1. i \in Nat /\ Size(c, i) \in Nat
  BY PlanFacts
<1>2. IsPart(f, c, i, m, n)
  BY <1>1, PartFacts
<1> HIDE DEF f
<1>3. f \in Seq(Unit) /\ Len(f) = n /\ \A k \in 1..n : f[k] = <<c, i, m + k - 1>>
  BY <1>2 DEF IsPart
<1>4. ASSUME NEW k \in 1..n PROVE f[k] \in RequestUnit
  <2>1. m + k - 1 \in Nat /\ m + k - 1 < Size(c, i)
    BY <1>1
  <2>2. <<c, i, m + k - 1>> \in Unit
    BY <1>1, <2>1 DEF Unit
  <2> QED BY <1>3, <2>1, <2>2 DEF RequestUnit
<1>5. f \in [1..n -> RequestUnit]
  BY <1>3, <1>4
<1>6. f \in Seq(RequestUnit)
  BY <1>5
<1> QED BY <1>6 DEF f

(* One more unit that a backend gets makes due what that unit ends, and    *)
(* leaves the rest as it was (BackendSends).                               *)
LEMMA DueAppend ==
  ASSUME NEW s \in Seq(RequestUnit), NEW u \in RequestUnit
  PROVE  /\ Due(s) \in Seq(Unit) /\ Due(Append(s, u)) = Due(s) \o DueOf(u)
<1> DEFINE D(t) == [j \in 1..Len(t) |-> DueOf(t[j])]
           a == Append(s, u)
<1>1. \A t : Due(t) = FlattenSeq(D(t))
  BY DEF Due, DueOf
<1>2. /\ a \in Seq(RequestUnit) /\ Len(a) = Len(s) + 1 /\ a[Len(s) + 1] = u
      /\ \A j \in 1..Len(s) : a[j] = s[j]
      /\ Len(s) \in Nat /\ \A j \in 1..Len(s) : s[j] \in RequestUnit
  OBVIOUS
<1> HIDE DEF a
<1>3. D(s) \in Seq(Seq(Unit)) /\ DueOf(u) \in Seq(Unit) /\ Len(D(s)) = Len(s)
  <2>1. D(s) \in [1..Len(s) -> Seq(Unit)]
    BY <1>2, UnitFacts
  <2> QED BY <1>2, <2>1, UnitFacts
<1>4. D(a) = Append(D(s), DueOf(u))
  <2> DEFINE d == D(s)
             e == Append(d, DueOf(u))
  <2>1. /\ e \in Seq(Seq(Unit)) /\ Len(e) = Len(s) + 1 /\ e[Len(s) + 1] = DueOf(u)
        /\ \A j \in 1..Len(s) : e[j] = d[j]
    <3> HIDE DEF d
    <3> QED BY <1>2, <1>3 DEF d
  <2>2. \A j \in 1..Len(s) : d[j] = DueOf(s[j])
    OBVIOUS
  <2> HIDE DEF d, e
  <2>3. \A j \in 1..(Len(s) + 1) : e[j] = DueOf(a[j])
    <3>1. \A j \in 1..(Len(s) + 1) : j \in 1..Len(s) \/ j = Len(s) + 1
      BY <1>2
    <3> QED BY <1>2, <2>1, <2>2, <3>1
  <2>4. e = [j \in 1..(Len(s) + 1) |-> e[j]]
    BY <2>1
  <2>5. e = D(a)
    BY <1>2, <2>3, <2>4
  <2> QED BY <2>5 DEF e, d
<1> HIDE DEF D
<1>5. FlattenSeq(Append(D(s), DueOf(u))) = FlattenSeq(D(s)) \o DueOf(u)
  BY <1>3, FlattenMore
<1>6. FlattenSeq(D(s)) \in Seq(Unit)
  BY <1>3, FlattenFacts
<1> QED BY <1>1, <1>4, <1>5, <1>6 DEF a

(* A part of a request makes its answer due if it ends the request. *)
LEMMA DueMore ==
  ASSUME NEW s \in Seq(RequestUnit), NEW c \in Clients, NEW i \in 1..Len(Plan[c]),
         NEW m \in Nat
  PROVE  \A n \in Nat :
           m + n <= Size(c, i) =>
             /\ s \o Part(c, i, m, n) \in Seq(RequestUnit)
             /\ Len(Due(s \o Part(c, i, m, n)))
                = Len(Due(s)) + IF n > 0 /\ m + n = Size(c, i) THEN Reply(c, i) ELSE 0
<1> DEFINE G(n) == IF n > 0 /\ m + n = Size(c, i) THEN Reply(c, i) ELSE 0
           P(n) == Part(c, i, m, n)
           T == {n \in Nat : m + n <= Size(c, i) =>
                               Len(Due(s \o P(n))) = Len(Due(s)) + G(n)}
<1>1. /\ i \in Nat /\ Size(c, i) \in Nat \ {0} /\ Reply(c, i) \in Nat
      /\ Plan[c][i].body \in Nat
  BY PlanFacts
<1>2. ASSUME NEW n \in Nat, m + n <= Size(c, i)
      PROVE  P(n) \in Seq(RequestUnit) /\ s \o P(n) \in Seq(RequestUnit)
  <2>1. P(n) \in Seq(RequestUnit)
    BY <1>2, PartUnits
  <2> HIDE DEF P
  <2> QED BY <2>1
<1>3. \A t \in Seq(RequestUnit) : Due(t) \in Seq(Unit) /\ Len(Due(t)) \in Nat
  <2>1. \E u : u \in RequestUnit \/ RequestUnit = {}
    OBVIOUS
  <2>2. <<c, i, 0>> \in RequestUnit
    <3>1. <<c, i, 0>> \in Unit
      BY <1>1 DEF Unit
    <3> QED BY <1>1, <3>1 DEF RequestUnit
  <2>3. \A t \in Seq(RequestUnit) : Due(t) \in Seq(Unit)
    BY <2>2, DueAppend
  <2> QED BY <2>3
<1>4. 0 \in T
  <2>1. IsPart(P(0), c, i, m, 0)
    BY <1>1, PartFacts
  <2>2. P(0) = <<>>
    BY <2>1 DEF IsPart
  <2>3. s \o <<>> = s
    OBVIOUS
  <2>4. G(0) = 0 /\ Len(Due(s)) + 0 = Len(Due(s))
    BY <1>3
  <2> HIDE DEF P, G
  <2> QED BY <2>2, <2>3, <2>4
<1>5. ASSUME NEW n \in Nat, n \in T PROVE n + 1 \in T
  <2> SUFFICES ASSUME m + (n + 1) <= Size(c, i)
               PROVE  Len(Due(s \o P(n + 1))) = Len(Due(s)) + G(n + 1)
    OBVIOUS
  <2>1. n + 1 \in Nat /\ m + n <= Size(c, i) /\ m + n < Size(c, i)
    BY <1>1
  <2> DEFINE u == <<c, i, m + n>>
  <2>2. u \in RequestUnit
    <3>1. u \in Unit
      BY <1>1 DEF Unit
    <3> QED BY <2>1, <3>1 DEF RequestUnit
  <2>3. P(n + 1) = Append(P(n), u)
    <3>1. PICK z \in Nat : z = n + 1
      OBVIOUS
    <3>2. u = <<c, i, m + n>> /\ i \in Nat
      BY <1>1
    <3> HIDE DEF u
    <3>3. Part(c, i, m, z) = Append(Part(c, i, m, n), u)
      BY <3>1, <3>2, PartAppend
    <3> QED BY <3>1, <3>3
  <2>4. P(n) \in Seq(RequestUnit) /\ s \o P(n) \in Seq(RequestUnit)
    BY <1>2, <2>1
  <2>5. Len(Due(s \o P(n))) = Len(Due(s))
    <3>1. Len(Due(s \o P(n))) = Len(Due(s)) + G(n)
      BY <1>5, <2>1
    <3>2. G(n) = 0
      BY <2>1
    <3>3. Len(Due(s)) \in Nat
      BY <1>3
    <3> HIDE DEF G, P
    <3> QED BY <3>1, <3>2, <3>3
  <2>6. s \o P(n + 1) = Append(s \o P(n), u)
    <3>1. \A p \in Seq(RequestUnit), x \in RequestUnit : s \o Append(p, x) = Append(s \o p, x)
      OBVIOUS
    <3> HIDE DEF P, u
    <3> QED BY <2>2, <2>3, <2>4, <3>1
  <2>7. Due(s \o P(n)) \in Seq(Unit) /\ Due(s \o P(n + 1)) = Due(s \o P(n)) \o DueOf(u)
    <3> HIDE DEF P, u
    <3> QED BY <2>2, <2>4, <2>6, DueAppend
  <2>8. DueOf(u) \in Seq(Unit) /\ Len(DueOf(u)) = G(n + 1)
    <3>1. Ends(u) <=> m + (n + 1) = Size(c, i)
      BY <1>1, SMTT(60) DEF Ends, Size
    <3>2. IsPart(Answer(c, i), c, i, 0, Reply(c, i))
      BY MessageFacts
    <3>3. Answer(c, i) \in Seq(Unit) /\ Len(Answer(c, i)) = Reply(c, i)
      BY <3>2 DEF IsPart
    <3>4. u[1] = c /\ u[2] = i /\ n + 1 > 0
      OBVIOUS
    <3>5. <<>> \in Seq(Unit) /\ Len(<<>>) = 0
      OBVIOUS
    <3>6. DueOf(u) = IF Ends(u) THEN Answer(c, i) ELSE <<>>
      BY <3>4 DEF DueOf
    <3> HIDE DEF u
    <3> QED BY <3>1, <3>3, <3>4, <3>5, <3>6
  <2> HIDE DEF P, G, u
  <2> QED BY <2>5, <2>7, <2>8
<1>6. \A n \in Nat : n \in T
  <2> HIDE DEF T
  <2> QED BY <1>4, <1>5, AllNumbers
<1>7. \A n \in Nat : m + n <= Size(c, i) => /\ s \o P(n) \in Seq(RequestUnit)
                                            /\ Len(Due(s \o P(n))) = Len(Due(s)) + G(n)
  <2> HIDE DEF P, G
  <2> QED BY <1>2, <1>6
<1> QED BY <1>7

(* What is due is units of answers.                                        *)
LEMMA DueType ==
  ASSUME NEW s \in Seq(RequestUnit)
  PROVE  Due(s) \in Seq(Unit) /\ Len(Due(s)) \in Nat
<1> DEFINE d == [j \in 1..Len(s) |-> DueOf(s[j])]
<1>1. Len(s) \in Nat /\ \A j \in 1..Len(s) : s[j] \in RequestUnit
  OBVIOUS
<1>2. d \in [1..Len(s) -> Seq(Unit)]
  BY <1>1, UnitFacts
<1>3. d \in Seq(Seq(Unit))
  BY <1>1, <1>2
<1>4. Due(s) = FlattenSeq(d)
  BY DEF Due, DueOf
<1> HIDE DEF d
<1>5. Due(s) \in Seq(Unit)
  BY <1>3, <1>4, FlattenFacts
<1> QED BY <1>5

(* A backend that has got nothing owes nothing.                            *)
LEMMA DueNothing == Due(<<>>) = <<>>
<1>1. [j \in 1..Len(<<>>) |-> DueOf(<<>>[j])] = <<>>
  OBVIOUS
<1> QED BY <1>1 DEF Due, DueOf, FlattenSeq

(* After the end of a request, its answer is due last. *)
LEMMA DueLast ==
  ASSUME NEW s \in Seq(RequestUnit), NEW c \in Clients, NEW i \in 1..Len(Plan[c]),
         NEW m \in Nat, m = Size(c, i), s # <<>>, s[Len(s)] = <<c, i, m - 1>>
  PROVE  /\ Len(Due(s)) >= Reply(c, i)
         /\ \A k \in 1..Reply(c, i) : Due(s)[(Len(Due(s)) - Reply(c, i)) + k] = <<c, i, k - 1>>
<1> DEFINE u == s[Len(s)]
           f == SubSeq(s, 1, Len(s) - 1)
           d == Due(f)
           R == Reply(c, i)
<1>1. f \in Seq(RequestUnit) /\ u \in RequestUnit /\ s = Append(f, u)
  OBVIOUS
<1>2. R \in Nat /\ Plan[c][i].body \in Nat /\ i \in Nat
  BY PlanFacts
<1>3. DueOf(u) = Answer(c, i)
  <2>1. u[1] = c /\ u[2] = i /\ u[3] = m - 1
    OBVIOUS
  <2>2. m - 1 = Plan[c][i].body
    BY <1>2, SMTT(60) DEF Size
  <2> HIDE DEF u
  <2> QED BY <2>1, <2>2 DEF DueOf, Ends
<1>4. IsPart(Answer(c, i), c, i, 0, R)
  BY MessageFacts
<1> DEFINE a == Answer(c, i)
<1>5. a \in Seq(Unit) /\ Len(a) = R /\ \A k \in 1..R : a[k] = <<c, i, 0 + k - 1>>
  BY <1>4 DEF IsPart
<1>6. \A k \in 1..R : 0 + k - 1 = k - 1
  BY <1>2
<1>7. d \in Seq(Unit) /\ Due(s) = d \o a
  <2> HIDE DEF f, u
  <2> QED BY <1>1, <1>3, DueAppend
<1> HIDE DEF d, a, R, f, u
<1>8. /\ Len(d) \in Nat /\ Len(d \o a) = Len(d) + Len(a)
      /\ \A j \in 1..Len(a) : (d \o a)[Len(d) + j] = a[j]
  <2>1. d \in Seq(Unit) /\ a \in Seq(Unit)
    BY <1>5, <1>7
  <2> QED BY <2>1, Joined
<1>9. Len(Due(s)) = Len(d) + R /\ Len(Due(s)) >= R /\ Len(Due(s)) - R = Len(d)
  BY <1>2, <1>5, <1>7, <1>8
<1>10. \A k \in 1..R : Due(s)[Len(d) + k] = <<c, i, k - 1>>
  BY <1>5, <1>6, <1>7, <1>8
<1> QED BY <1>9, <1>10 DEF R

(* A part of a request goes on with what was sent. *)
LEMMA ChainMore ==
  ASSUME NEW s \in Seq(RequestUnit), NEW c \in Clients, NEW i \in 1..Len(Plan[c]),
         NEW m \in Nat, NEW n \in Nat, m + n <= Size(c, i), Chained(s),
         m = 0 => s = <<>> \/ Ends(s[Len(s)]),
         m > 0 => s # <<>> /\ s[Len(s)] = <<c, i, m - 1>>
  PROVE  /\ Chained(s \o Part(c, i, m, n))
         /\ n > 0 => /\ s \o Part(c, i, m, n) # <<>>
                     /\ (s \o Part(c, i, m, n))[Len(s \o Part(c, i, m, n))]
                        = <<c, i, m + n - 1>>
<1> DEFINE p == Part(c, i, m, n)
           w == s \o p
<1>1. i \in Nat
  OBVIOUS
<1>2. IsPart(p, c, i, m, n)
  BY <1>1, PartFacts
<1>3. p \in Seq(RequestUnit)
  BY PartUnits
<1> HIDE DEF p
<1>4. Len(p) = n /\ \A k \in 1..n : p[k] = <<c, i, m + k - 1>>
  BY <1>2 DEF IsPart
<1>5. /\ w \in Seq(RequestUnit) /\ Len(w) = Len(s) + Len(p) /\ Len(s) \in Nat
      /\ \A j \in 1..Len(s) : w[j] = s[j]
      /\ \A j \in 1..Len(p) : w[Len(s) + j] = p[j]
  BY <1>3, Joined
<1> HIDE DEF w
<1>6. \A j \in 1..n : w[Len(s) + j] = <<c, i, m + j - 1>>
  BY <1>4, <1>5
<1>7. ASSUME NEW j \in 1..Len(w)
      PROVE  IF w[j][3] = 0 THEN j = 1 \/ Ends(w[j - 1])
                            ELSE j > 1 /\ w[j - 1] = <<w[j][1], w[j][2], w[j][3] - 1>>
  <2>1. CASE j <= Len(s)
    <3>1. j \in 1..Len(s) /\ w[j] = s[j] /\ (j > 1 => w[j - 1] = s[j - 1])
      <4>1. j \in 1..Len(s) /\ (j > 1 => j - 1 \in 1..Len(s))
        BY <1>5, <2>1
      <4> QED BY <1>5, <4>1
    <3>2. IF s[j][3] = 0 THEN j = 1 \/ Ends(s[j - 1])
                         ELSE j > 1 /\ s[j - 1] = <<s[j][1], s[j][2], s[j][3] - 1>>
      BY <3>1, SMTT(60) DEF Chained
    <3>3. j = 1 \/ j > 1
      BY <3>1
    <3> QED BY <3>1, <3>2, <3>3
  <2>2. CASE j = Len(s) + 1
    <3>1. w[j] = <<c, i, m>> /\ (s # <<>> => w[j - 1] = s[Len(s)] /\ j > 1)
      <4>1. 1 \in 1..n /\ m + 1 - 1 = m
        BY <1>4, <1>5, <2>2
      <4>2. s # <<>> => Len(s) \in 1..Len(s) /\ j - 1 = Len(s) /\ j > 1
        BY <1>5, <2>2
      <4>3. w[j] = <<c, i, m + 1 - 1>>
        BY <1>6, <2>2, <4>1
      <4> QED BY <1>5, <4>1, <4>2, <4>3
    <3>2. CASE m = 0
      <4>1. w[j][3] = 0
        BY <3>1, <3>2
      <4>2. s = <<>> => j = 1
        BY <2>2
      <4> QED BY <3>1, <3>2, <4>1, <4>2
    <3>3. CASE m > 0
      <4>1. w[j][1] = c /\ w[j][2] = i /\ w[j][3] = m /\ m # 0
        BY <3>1, <3>3
      <4> QED BY <3>1, <3>3, <4>1
    <3> QED BY <3>2, <3>3
  <2>3. CASE j > Len(s) + 1
    <3>1. PICK k \in 2..n : j = Len(s) + k
      <4>1. j - Len(s) \in 2..n /\ j = Len(s) + (j - Len(s))
        BY <1>4, <1>5, <2>3
      <4> QED BY <4>1
    <3>2. k \in 1..n /\ k - 1 \in 1..n /\ j - 1 = Len(s) + (k - 1)
      BY <1>5, <3>1
    <3>3. w[j] = <<c, i, m + k - 1>>
      BY <1>6, <3>1, <3>2
    <3>4. w[j - 1] = <<c, i, m + (k - 1) - 1>>
      BY <1>6, <3>2
    <3>5. m + (k - 1) - 1 = (m + k - 1) - 1 /\ m + k - 1 # 0 /\ j > 1
      BY <1>5, <3>1
    <3>6. w[j][1] = c /\ w[j][2] = i /\ w[j][3] = m + k - 1
      BY <3>3
    <3> QED BY <3>4, <3>5, <3>6
  <2>4. j <= Len(s) \/ j = Len(s) + 1 \/ j > Len(s) + 1
    BY <1>5
  <2> QED BY <2>1, <2>2, <2>3, <2>4
<1>8. DOMAIN w = 1..Len(w)
  BY <1>5
<1>9. Chained(w)
  BY <1>7, <1>8 DEF Chained
<1>10. n > 0 => w # <<>> /\ w[Len(w)] = <<c, i, m + n - 1>>
  BY <1>4, <1>5, <1>6, SMTT(60)
<1> QED BY <1>9, <1>10 DEF w, p

-----------------------------------------------------------------------------
(* The parser.                                                             *)

(* What taking n more units of a body does to the parser (ConsumeBody).    *)
LEMMA ConsumeFacts ==
  ASSUME NEW p \in Context, NEW n \in Nat
  PROVE  /\ ConsumeBody(p, n) \in Context
         /\ ConsumeBody(p, n).state = IF p.read + n >= p.length THEN "kGotAll" ELSE p.state
         /\ ConsumeBody(p, n).read = p.read + n
         /\ ConsumeBody(p, n).isReq = p.isReq /\ ConsumeBody(p, n).length = p.length
         /\ ConsumeBody(p, n).chunked = p.chunked /\ ConsumeBody(p, n).client = p.client
<1>1. p.read \in Nat
  BY DEF Context
<1>2. p.read + n \in Nat
  BY <1>1
<1> QED BY <1>2 DEF ConsumeBody, Context

(* What the headers of a request do to it, and client_ with them           *)
(* (ParseRequest).                                                         *)
LEMMA RequestFacts ==
  ASSUME NEW p \in Context, NEW b \in Nat, NEW r \in Remotes \cup {None}
  PROVE  /\ [ParseRequest(p, b) EXCEPT !.client = r] \in Context
         /\ ParseRequest(p, b) \in Context /\ ParseRequest(p, b).client = p.client
         /\ ParseRequest(p, b).state = IF b > 0 THEN "kExpectBody" ELSE "kGotAll"
         /\ [ParseRequest(p, b) EXCEPT !.client = r].state
            = IF b > 0 THEN "kExpectBody" ELSE "kGotAll"
         /\ [ParseRequest(p, b) EXCEPT !.client = r].isReq
         /\ [ParseRequest(p, b) EXCEPT !.client = r].length
            = IF b > 0 THEN b ELSE p.length
         /\ [ParseRequest(p, b) EXCEPT !.client = r].read = p.read
         /\ [ParseRequest(p, b) EXCEPT !.client = r].chunked = p.chunked
         /\ [ParseRequest(p, b) EXCEPT !.client = r].client = r
<1> DEFINE x == ParseRequest(p, b)
<1>1. /\ x \in Context /\ x.client = p.client
      /\ x.state = IF b > 0 THEN "kExpectBody" ELSE "kGotAll"
      /\ x.isReq /\ x.length = IF b > 0 THEN b ELSE p.length
      /\ x.read = p.read /\ x.chunked = p.chunked
  BY DEF ParseRequest, Context
<1> HIDE DEF x
<1> DEFINE y == [x EXCEPT !.client = r]
<1>2. /\ y \in Context /\ y.client = r
      /\ y.state = x.state /\ y.isReq = x.isReq /\ y.length = x.length
      /\ y.read = x.read /\ y.chunked = x.chunked
  BY <1>1 DEF Context
<1> QED BY <1>1, <1>2 DEF x

(* What the headers of an answer do to it (ParseResponse).                 *)
LEMMA ResponseFacts ==
  ASSUME NEW p \in Context, NEW q, q.answer \in Nat, q.chunked \in BOOLEAN,
         NEW z, z = ParseResponse(p, q.answer, q.chunked)
  PROVE  /\ z \in Context
         /\ z.state = IF q.chunked \/ q.answer > 0 THEN "kExpectBody" ELSE "kGotAll"
         /\ ~z.isReq
         /\ z.length = IF q.chunked THEN 0 ELSE q.answer
         /\ z.read = p.read /\ z.chunked = q.chunked /\ z.client = p.client
BY DEF ParseResponse, Context

(* A reset parser expects headers; client_ goes with an answer only        *)
(* (Reset).                                                                *)
LEMMA ResetFacts ==
  ASSUME NEW p \in Context
  PROVE  /\ Reset(p) \in Context /\ Clean(Reset(p)) /\ Reset(p).isReq = p.isReq
         /\ Reset(p).client = IF p.isReq THEN p.client ELSE None
<1>1. NewContext \in Context /\ p.isReq \in BOOLEAN /\ p.client \in Remotes \cup {None}
  BY DEF NewContext, Context
<1>2. /\ NewContext.state = "kExpectHeaders" /\ NewContext.length = 0
      /\ NewContext.read = 0 /\ ~NewContext.chunked
  BY DEF NewContext
<1> DEFINE n == NewContext
           x == [n EXCEPT !.isReq = p.isReq, !.client = IF p.isReq THEN p.client ELSE None]
<1> HIDE DEF n
<1>3. /\ x \in Context /\ x.isReq = p.isReq
      /\ x.client = IF p.isReq THEN p.client ELSE None
      /\ x.state = n.state /\ x.length = n.length /\ x.read = n.read
      /\ x.chunked = n.chunked
  BY <1>1 DEF Context, n
<1> QED BY <1>2, <1>3 DEF Reset, Clean, n

(* More of a request's body: the parser counts it. *)
LEMMA BodyTaken ==
  ASSUME NEW p \in Context, NEW q, q.body \in Nat, NEW m \in Nat, NEW x \in Nat,
         NEW n \in Nat, n > 0, Parsed(p, q, m, x), ExpectingBody(p), m + n <= q.body + 1,
         NEW p2, p2 = IF GotAll(ConsumeBody(p, n)) THEN Reset(ConsumeBody(p, n))
                                                   ELSE ConsumeBody(p, n)
  PROVE  /\ x = 0 /\ m > 0 /\ BytesRemaining(p) = (q.body + 1) - m
         /\ p2 \in Context /\ p2.client = p.client /\ Parsed(p2, q, m + n, 0)
<1> DEFINE z == ConsumeBody(p, n)
<1>1. /\ m \in 1..q.body /\ x = 0 /\ p.state = "kExpectBody" /\ p.isReq /\ ~p.chunked
      /\ p.length = q.body /\ p.read = m - 1
  <2>1. m # q.body + 1
    OBVIOUS
  <2>2. p.state # "kExpectHeaders"
    BY DEF ExpectingBody
  <2> QED BY <2>1, <2>2 DEF Parsed, Clean
<1>2. BytesRemaining(p) = (q.body + 1) - m
  BY <1>1 DEF BytesRemaining
<1>3. /\ z \in Context
      /\ z.state = IF p.read + n >= p.length THEN "kGotAll" ELSE p.state
      /\ z.read = p.read + n /\ z.isReq = p.isReq /\ z.length = p.length
      /\ z.chunked = p.chunked /\ z.client = p.client
  BY ConsumeFacts
<1> HIDE DEF z
<1>4. CASE m + n = q.body + 1
  <2>1. p.read + n >= p.length
    BY <1>1, <1>4
  <2>2. p2 = Reset(z)
    BY <1>3, <2>1 DEF GotAll, z
  <2>3. /\ Reset(z) \in Context /\ Clean(Reset(z)) /\ Reset(z).isReq = z.isReq
        /\ Reset(z).client = IF z.isReq THEN z.client ELSE None
    BY <1>3, ResetFacts
  <2>4. p2 \in Context /\ p2.client = p.client /\ Clean(p2) /\ p2.isReq
    BY <1>1, <1>3, <2>2, <2>3
  <2>5. Parsed(p2, q, m + n, 0)
    BY <1>4, <2>4 DEF Parsed
  <2> QED BY <1>1, <1>2, <2>4, <2>5
<1>5. CASE m + n # q.body + 1
  <2>1. ~(p.read + n >= p.length) /\ m + n \in 1..q.body /\ p.read + n = (m + n) - 1
    BY <1>1, <1>5
  <2>2. p2 = z
    BY <1>1, <1>3, <2>1 DEF GotAll, z
  <2>3. z.state = "kExpectBody" /\ z.isReq /\ ~z.chunked
    BY <1>1, <1>3, <2>1
  <2>4. z.length = q.body /\ z.read = (m + n) - 1
    BY <1>1, <1>3, <2>1
  <2>5. Parsed(z, q, m + n, 0)
    BY <2>1, <2>3, <2>4 DEF Parsed
  <2> QED BY <1>1, <1>2, <1>3, <2>2, <2>5
<1> QED BY <1>4, <1>5

(* A request's head, with n units of its body. *)
LEMMA HeadTaken ==
  ASSUME NEW p \in Context, Clean(p), NEW q, q.body \in Nat, NEW r \in Remotes,
         NEW n \in Nat, n <= q.body,
         NEW p1, p1 = [ParseRequest(p, q.body) EXCEPT !.client = r],
         NEW p2, p2 = IF n > 0 THEN ConsumeBody(p1, n) ELSE p1,
         NEW p3, p3 = IF GotAll(p2) THEN Reset(p2) ELSE p2
  PROVE  /\ BytesRemaining(p1) = q.body
         /\ p3 \in Context /\ p3.client = r /\ Parsed(p3, q, n + 1, 0)
<1>0. p.length = 0 /\ p.read = 0 /\ ~p.chunked
  BY DEF Clean
<1>1. /\ p1 \in Context
      /\ p1.state = IF q.body > 0 THEN "kExpectBody" ELSE "kGotAll"
      /\ p1.isReq /\ p1.length = IF q.body > 0 THEN q.body ELSE p.length
      /\ p1.read = p.read /\ p1.chunked = p.chunked /\ p1.client = r
  BY RequestFacts
<1>2. p1.read = 0 /\ p1.length = q.body
  BY <1>0, <1>1
<1>3. BytesRemaining(p1) = q.body
  BY <1>2 DEF BytesRemaining
<1>4. /\ p2 \in Context /\ p2.isReq = p1.isReq /\ p2.chunked = p1.chunked /\ p2.client = r
      /\ p2.read = n /\ p2.length = q.body
      /\ p2.state = IF n = q.body THEN "kGotAll" ELSE "kExpectBody"
  <2>1. CASE n = 0
    <3>1. p2 = p1
      BY <2>1
    <3> QED BY <1>1, <1>2, <2>1, <3>1
  <2>2. CASE n > 0
    <3> DEFINE z == ConsumeBody(p1, n)
    <3>1. p2 = z
      BY <2>2
    <3>2. /\ z \in Context
          /\ z.state = IF p1.read + n >= p1.length THEN "kGotAll" ELSE p1.state
          /\ z.read = p1.read + n /\ z.isReq = p1.isReq /\ z.length = p1.length
          /\ z.chunked = p1.chunked /\ z.client = p1.client
      BY <1>1, ConsumeFacts, ZenonT(80)
    <3> HIDE DEF z
    <3>3. p1.read + n = n /\ (p1.read + n >= p1.length <=> n = q.body) /\ q.body > 0
      BY <1>2, <2>2
    <3> QED BY <1>1, <1>2, <3>1, <3>2, <3>3
  <2> QED BY <2>1, <2>2
<1>5. CASE n = q.body
  <2>1. p3 = Reset(p2)
    BY <1>4, <1>5 DEF GotAll
  <2>2. /\ p3 \in Context /\ Clean(p3) /\ p3.isReq = p2.isReq
        /\ p3.client = IF p2.isReq THEN p2.client ELSE None
    BY <1>4, <2>1, ResetFacts, ZenonT(80)
  <2>3. p3.isReq /\ p3.client = r
    BY <1>1, <1>4, <2>2
  <2>4. Parsed(p3, q, n + 1, 0)
    BY <1>5, <2>2, <2>3 DEF Parsed
  <2> QED BY <1>3, <2>2, <2>3, <2>4
<1>6. CASE n # q.body
  <2>1. p3 = p2 /\ p2.state = "kExpectBody" /\ n + 1 \in 1..q.body /\ (n + 1) - 1 = n
    BY <1>4, <1>6 DEF GotAll
  <2>2. p2.isReq /\ ~p2.chunked
    BY <1>0, <1>1, <1>4
  <2>3. Parsed(p3, q, n + 1, 0)
    BY <1>4, <2>1, <2>2 DEF Parsed
  <2> QED BY <1>3, <1>4, <2>1, <2>3
<1> QED BY <1>5, <1>6

(* L units of an answer of which x were passed on before: n of them are of *)
(* the body.                                                               *)
OfBody(p, L, n) == n = IF ExpectingBody(p) THEN L ELSE L - 1

(* The parser takes L more units of an answer, the first of them its       *)
(* headers if none came before: it is where it should be after them, and   *)
(* it has got all of an answer with a length exactly at its end            *)
(* (L7/RemoteClient.cc:55-98).                                             *)
LEMMA AnswerTaken ==
  ASSUME NEW p \in Context, NEW q, q.body \in Nat, q.answer \in Nat, q.chunked \in BOOLEAN,
         q.chunked => q.answer > 0,
         NEW x \in Nat, NEW m \in Nat, m <= q.body + 1, q.body + 1 <= m,
         Parsed(p, q, m, x), NEW L \in Nat, L > 0, x + L <= q.answer + 1,
         NEW p1, p1 = IF ExpectingBody(p) THEN p
                      ELSE ParseResponse(p, q.answer, q.chunked),
         NEW n, OfBody(p, L, n), NEW y \in Nat, y <= x + L, x + L <= y,
         NEW p2, p2 = IF p1.chunked \/ n = 0 THEN p1 ELSE ConsumeBody(p1, n)
  PROVE  /\ ExpectingBody(p) <=> x > 0
         /\ p1 \in Context /\ p1.chunked = q.chunked /\ n \in Nat
         /\ ~p1.chunked => BytesRemaining(p1) \in Nat /\ n <= BytesRemaining(p1)
         /\ p2 \in Context /\ ~p2.isReq /\ p2.chunked = q.chunked /\ p2.client = p.client
         /\ ~q.chunked => (GotAll(p2) <=> y = q.answer + 1)
         /\ y # q.answer + 1 => Parsed(p2, q, m, y)
<1>0. n = IF ExpectingBody(p) THEN L ELSE L - 1
  BY DEF OfBody
<1>9. y = x + L /\ m = q.body + 1
  OBVIOUS
<1>1. \/ x = 0 /\ Clean(p) /\ p.isReq
      \/ /\ x \in 1..q.answer /\ p.state = "kExpectBody" /\ ~p.isReq
         /\ p.chunked = q.chunked
         /\ ~p.chunked => p.length = q.answer /\ p.read = x - 1
  <2>1. m \notin 1..q.body
    BY <1>9
  <2> QED BY <2>1 DEF Parsed
<1>2. ExpectingBody(p) <=> x > 0
  BY <1>1 DEF ExpectingBody, Clean
<1>3. /\ p1 \in Context /\ ~p1.isReq /\ p1.chunked = q.chunked /\ p1.client = p.client
      /\ p1.state = IF x > 0 \/ q.chunked \/ q.answer > 0 THEN "kExpectBody" ELSE "kGotAll"
      /\ ~q.chunked => p1.length = q.answer /\ p1.read = IF x > 0 THEN x - 1 ELSE 0
  <2>1. CASE x > 0
    <3>1. p1 = p
      BY <1>2, <2>1
    <3> QED BY <1>1, <2>1, <3>1
  <2>2. CASE x = 0
    <3>1. p1 = ParseResponse(p, q.answer, q.chunked) /\ Clean(p)
      BY <1>1, <1>2, <2>2
    <3>2. /\ p1 \in Context
          /\ p1.state = IF q.chunked \/ q.answer > 0 THEN "kExpectBody" ELSE "kGotAll"
          /\ ~p1.isReq
          /\ p1.length = IF q.chunked THEN 0 ELSE q.answer
          /\ p1.read = p.read /\ p1.chunked = q.chunked /\ p1.client = p.client
      BY <3>1, ResponseFacts
    <3>3. ~(x > 0) /\ p.read = 0
      BY <2>2, <3>1 DEF Clean
    <3> QED BY <3>2, <3>3
  <2> QED BY <2>1, <2>2
<1>4. n \in Nat /\ n = IF x > 0 THEN L ELSE L - 1
  BY <1>2, <1>0
<1>5. ~q.chunked => /\ BytesRemaining(p1) \in Nat /\ n <= BytesRemaining(p1)
                    /\ p1.read \in Nat /\ p1.length \in Nat
                    /\ p1.read + n >= p1.length <=> x + L = q.answer + 1
                    /\ p1.read + n = (x + L) - 1
  BY <1>3, <1>4 DEF BytesRemaining
<1>6. ~p1.chunked <=> ~q.chunked
  BY <1>3
<1>7. CASE q.chunked
  <2>1. p2 = p1 /\ p1.state = "kExpectBody"
    BY <1>3, <1>7
  <2>2. x + L # q.answer + 1 => x + L \in 1..q.answer
    OBVIOUS
  <2>3. x + L # q.answer + 1 => Parsed(p2, q, m, x + L)
    BY <1>3, <1>7, <1>9, <2>1, <2>2 DEF Parsed
  <2> QED BY <1>2, <1>3, <1>4, <1>7, <1>9, <2>1, <2>3
<1>8. CASE ~q.chunked
  <2>1. p1.length = q.answer /\ p1.read + n = (x + L) - 1
    BY <1>3, <1>5, <1>8
  <2>2. /\ p2 \in Context /\ ~p2.isReq /\ p2.chunked = q.chunked /\ p2.client = p.client
        /\ p2.length = p1.length /\ p2.read = p1.read + n
        /\ p2.state = IF p1.read + n >= p1.length THEN "kGotAll" ELSE "kExpectBody"
    <3>1. CASE n = 0
      <4>1. p2 = p1 /\ x = 0 /\ L = 1
        BY <1>4, <3>1
      <4>2. p1.read = 0 /\ p1.read + n = p1.read /\ ~(x > 0)
        BY <1>3, <1>8, <3>1, <4>1
      <4>3. q.answer > 0 <=> ~(p1.read + n >= p1.length)
        <5>1. p1.read + n = 0 /\ p1.length = q.answer
          BY <2>1, <4>2
        <5> QED BY <5>1
      <4> QED BY <1>3, <1>8, <4>1, <4>2, <4>3
    <3>2. CASE n # 0
      <4> DEFINE z == ConsumeBody(p1, n)
      <4>1. p2 = z
        BY <1>6, <1>8, <3>2
      <4>2. /\ z \in Context
            /\ z.state = IF p1.read + n >= p1.length THEN "kGotAll" ELSE p1.state
            /\ z.read = p1.read + n /\ z.isReq = p1.isReq /\ z.length = p1.length
            /\ z.chunked = p1.chunked /\ z.client = p1.client
        <5>1. p1 \in Context /\ n \in Nat
          BY <1>3, <1>4
        <5> HIDE DEF z
        <5> QED BY <5>1, ConsumeFacts DEF z
      <4> HIDE DEF z
      <4>3. x > 0 \/ q.answer > 0
        BY <1>4, <3>2
      <4> QED BY <1>3, <4>1, <4>2, <4>3
    <3> QED BY <3>1, <3>2
  <2>3. GotAll(p2) <=> x + L = q.answer + 1
    BY <1>5, <1>8, <2>2 DEF GotAll
  <2>4. ASSUME x + L # q.answer + 1 PROVE Parsed(p2, q, m, x + L)
    <3>1. x + L \in 1..q.answer /\ p2.state = "kExpectBody"
      BY <1>5, <1>8, <2>2, <2>4
    <3> QED BY <1>8, <2>1, <2>2, <3>1 DEF Parsed
  <2> QED BY <1>2, <1>3, <1>4, <1>5, <1>8, <1>9, <2>2, <2>3, <2>4
<1> QED BY <1>7, <1>8

-----------------------------------------------------------------------------
(* What a step leaves alone.                                               *)

(* The fields imply the type invariant.                                    *)
LEMMA FieldsTyped == FieldsOK => TypeOK
<1> SUFFICES ASSUME FieldsOK PROVE TypeOK
  OBVIOUS
<1>1. \A c \in Clients : context[c].client \in Remotes \cup {None}
  BY DEF FieldsOK, ClientFields, Context
<1>2. ASSUME NEW t \in Targets PROVE ToSet(idle[t]) \subseteq Remotes
  <2>1. idle[t] \in Seq(Remotes)
    BY DEF FieldsOK, PoolFields
  <2> QED BY <2>1 DEF ToSet
<1> QED BY <1>1, <1>2 DEF FieldsOK, LoopFields, ClientFields, PeerFields, RemoteFields,
                          PoolFields, TypeOK, Links

(* What a step leaves alone keeps its type.                                *)
LEMMA FieldsKept ==
  /\ LoopFields /\ UNCHANGED loopVars => LoopFields'
  /\ ClientFields /\ UNCHANGED clientVars => ClientFields'
  /\ PeerFields /\ UNCHANGED peerVars => PeerFields'
  /\ RemoteFields /\ UNCHANGED remoteVars => RemoteFields'
  /\ PoolFields /\ UNCHANGED <<idle, stranded>> => PoolFields'
<1>1. LoopFields /\ UNCHANGED loopVars => LoopFields'
  BY DEF LoopFields, loopVars
<1>2. ClientFields /\ UNCHANGED clientVars => ClientFields'
  BY DEF ClientFields, clientVars
<1>3. PeerFields /\ UNCHANGED peerVars => PeerFields'
  BY DEF PeerFields, peerVars
<1>4. RemoteFields /\ UNCHANGED remoteVars => RemoteFields'
  BY DEF RemoteFields, remoteVars
<1>5. PoolFields /\ UNCHANGED <<idle, stranded>> => PoolFields'
  BY DEF PoolFields
<1> QED BY <1>1, <1>2, <1>3, <1>4, <1>5

(* The RemoteClient that carries a request is as it was, or its connection *)
(* has come to an end or is tried on.                                      *)
SameLink(r) == link'[r] = link[r] \/ (link[r] \in Trying /\ link'[r] \in Trying)
SameLoad(r) ==
  /\ pending'[r] = pending[r] /\ bGot'[r] = bGot[r] /\ said'[r] = said[r]
  /\ bIn'[r] = bIn[r]
Carrying(r) ==
  /\ busy'[r] = busy[r] /\ bound'[r] = bound[r]
  /\ (SameLink(r) /\ SameLoad(r)) \/ link'[r] = "down"

SameInput(c) ==
  asked'[c] = asked[c] /\ cBuf'[c] = cBuf[c] /\ cIn'[c] = cIn[c] /\ context'[c] = context[c]
SameOutput(c) == up'[c] = "up" => up[c] = "up" /\ cGot'[c] = cGot[c]

(* What a client has sent stands as it did if none is sent or taken.       *)
LEMMA FacingKept ==
  ASSUME NEW c, NEW i, NEW m, Facing(c, i, m), asked'[c] = asked[c],
         cBuf'[c] \o cIn'[c] = cBuf[c] \o cIn[c]
  PROVE  Facing(c, i, m)'
BY DEF Facing

(* So does what it has got.                                                *)
LEMMA HasKept ==
  ASSUME NEW c, NEW i, NEW x, Has(c, i, x), SameOutput(c)
  PROVE  Has(c, i, x)'
BY DEF Has, SameOutput

(* And so does what a RemoteClient carries if nothing is done to it.       *)
LEMMA HoldingKept ==
  ASSUME NEW c, NEW r, NEW i, NEW m, NEW x, Holding(c, r, i, m, x), Carrying(r)
  PROVE  Holding(c, r, i, m, x)'
<1>1. busy'[r] /\ bound'[r] = c /\ link[r] \in Trying \cup {"up", "down"}
  BY DEF Holding, Carrying
<1>2. CASE link'[r] = "down"
  BY <1>1, <1>2 DEF Holding, Trying
<1>3. CASE SameLink(r) /\ SameLoad(r)
  <2>1. link'[r] \in Trying \cup {"up", "down"}
    BY <1>1, <1>3 DEF SameLink
  <2>2. /\ link'[r] \in Trying => link[r] \in Trying
        /\ link'[r] = "up" => link[r] = "up"
    BY <1>1, <1>3 DEF SameLink, Trying
  <2>3. link'[r] \in Trying => x = 0 /\ pending'[r] = Part(c, i, 0, m)
    BY <1>3, <2>2 DEF Holding, SameLoad
  <2>4. link'[r] = "up" =>
          /\ pending'[r] = <<>>
          /\ bGot'[r] # <<>> /\ bGot'[r][Len(bGot'[r])] = <<c, i, m - 1>>
          /\ said'[r] + Owed(c, i, m) = Len(Due(bGot'[r])) + x + Len(bIn'[r])
          /\ x + Len(bIn'[r]) <= Owed(c, i, m)
          /\ bIn'[r] = Part(c, i, x, Len(bIn'[r]))
    BY <1>3, <2>2 DEF Holding, SameLoad
  <2> QED BY <1>1, <2>1, <2>3, <2>4 DEF Holding
<1> QED BY <1>2, <1>3 DEF Carrying

(* A client stays where it was. *)
LEMMA ClientStays ==
  ASSUME NEW c \in Clients, NEW i, ClientAt(c, i), SameInput(c), SameOutput(c),
         \A r \in Remotes : context[c].client = r => Carrying(r)
  PROVE  ClientAt(c, i)'
<1>1. CASE Fresh(c, i)
  <2>1. Facing(c, i, 0)'
    BY <1>1, FacingKept DEF Fresh, SameInput
  <2>2. Has(c, i, 0)'
    BY <1>1, HasKept DEF Fresh
  <2>3. cBuf'[c] = <<>> /\ Clean(context'[c]) /\ context'[c].client = None
    BY <1>1 DEF Fresh, SameInput
  <2>4. Fresh(c, i)'
    BY <2>1, <2>2, <2>3 DEF Fresh
  <2> QED BY <2>4 DEF ClientAt
<1>2. CASE Refused(c, i)
  <2>1. Facing(c, i, 0)'
    BY <1>2, FacingKept DEF Refused, SameInput
  <2>2. /\ cBuf'[c] # <<>> /\ up'[c] # "up"
        /\ context'[c].client = None /\ Plan[c][i].kind # "im"
        /\ context'[c].state # "kExpectBody" => Plan[c][i].body = 0
    BY <1>2 DEF Refused, SameInput, SameOutput
  <2>3. Refused(c, i)'
    BY <2>1, <2>2 DEF Refused
  <2> QED BY <2>3 DEF ClientAt
<1>3. ASSUME NEW r \in Remotes, NEW m \in Nat, NEW x \in Nat, Carried(c, r, i, m, x)
      PROVE  ClientAt(c, i)'
  <2>1. Facing(c, i, m)'
    BY <1>3, FacingKept DEF Carried, SameInput
  <2>2. Has(c, i, x)'
    BY <1>3, HasKept DEF Carried
  <2>3. context[c].client = r /\ Holding(c, r, i, m, x)
    BY <1>3 DEF Carried
  <2>4. Holding(c, r, i, m, x)'
    BY <2>3, HoldingKept
  <2>5. /\ i <= Len(Plan[c]) /\ cBuf'[c] = <<>> /\ Parsed(context'[c], Plan[c][i], m, x)
        /\ context'[c].client = r
    BY <1>3 DEF Carried, SameInput
  <2>6. Carried(c, r, i, m, x)'
    BY <2>1, <2>2, <2>4, <2>5 DEF Carried
  <2> QED BY <2>6 DEF ClientAt
<1> QED BY <1>1, <1>2, <1>3 DEF ClientAt

(* So is a client that hears nothing, or of its end. *)
LEMMA ClientKept ==
  ASSUME NEW c \in Clients, ClientOK(c), SameInput(c), up'[c] = up[c], cGot'[c] = cGot[c],
         \A r \in Remotes : context[c].client = r => Carrying(r)
  PROVE  ClientOK(c)'
<1>1. SameOutput(c)
  BY DEF SameOutput
<1>2. \A i : ClientAt(c, i) => ClientAt(c, i)'
  BY <1>1, ClientStays
<1>3. InOrder(c) => InOrder(c)'
  BY DEF InOrder
<1>4. up'[c] = "shut" => cGot'[c] # <<>> /\ Last(cGot'[c]) = Own
  BY DEF ClientOK
<1>5. up'[c] = "gone" => context'[c].client = None
  BY DEF ClientOK, SameInput
<1>6. up'[c] # "gone" => \E i \in 1..(Len(Plan[c]) + 1) : ClientAt(c, i)'
  BY <1>2 DEF ClientOK
<1>7. InOrder(c)'
  BY <1>3 DEF ClientOK
<1> QED BY <1>4, <1>5, <1>6, <1>7 DEF ClientOK

(* A RemoteClient that nothing is done to stays well.                      *)
LEMMA RemoteKept ==
  ASSUME NEW r \in Remotes, RemoteOK(r), link'[r] = link[r], addr'[r] = addr[r],
         bound'[r] = bound[r], busy'[r] = busy[r], SameLoad(r), bBuf'[r] = bBuf[r],
         link[r] \notin {"none", "orphan"} /\ busy[r] =>
           context'[bound[r]].client = context[bound[r]].client
  PROVE  RemoteOK(r)'
BY DEF RemoteOK, SameLoad

(* Nothing happens to what lies in a pool, but that a connection may end.  *)
Resting(r) ==
  /\ addr'[r] = addr[r] /\ bound'[r] = bound[r] /\ busy'[r] = busy[r]
  /\ link'[r] = link[r] \/ link'[r] = "down"
  /\ SameLoad(r)

(* One that waits in the pool goes on waiting if nothing is done to it.    *)
LEMMA IdleKept ==
  ASSUME NEW r, NEW t, Idle(r, t), Resting(r)
  PROVE  Idle(r, t)'
BY DEF Idle, Resting, SameLoad

(* And so does the whole pool.                                             *)
LEMMA PoolKept ==
  ASSUME NEW t \in Targets, PoolOK(t), idle'[t] = idle[t],
         \A r \in Remotes : Pooled(r, t) => Resting(r)
  PROVE  PoolOK(t)'
<1>1. ASSUME NEW r \in Remotes, Pooled(r, t)' PROVE Idle(r, t)'
  <2>1. Pooled(r, t)
    BY <1>1 DEF Pooled
  <2>2. Idle(r, t)
    BY <2>1 DEF PoolOK
  <2> QED BY <2>1, <2>2, IdleKept
<1> QED BY <1>1 DEF PoolOK

(* Backends hold units of requests.                                        *)
LEMMA HeldTyped ==
  ASSUME FieldsOK
  PROVE  /\ \A r \in Remotes : \A u \in Held(r) : u \in RequestUnit
         /\ \A c \in Clients : Used(c) \in Int
<1>1. ASSUME NEW r \in Remotes, NEW u \in Held(r) PROVE u \in RequestUnit
  <2>1. bGot[r] \in Seq(RequestUnit) /\ pending[r] \in Seq(RequestUnit)
    BY DEF FieldsOK, RemoteFields
  <2> QED BY <2>1 DEF Held, ToSet
<1>2. ASSUME NEW c \in Clients PROVE Used(c) \in Int
  <2>1. asked[c] \in Nat /\ Len(cBuf[c]) \in Nat /\ Len(cIn[c]) \in Nat
    BY DEF FieldsOK, ClientFields
  <2> QED BY <2>1 DEF Used
<1> QED BY <1>1, <1>2

(* They do so after a step as well.                                        *)
LEMMA HeldTypedNext ==
  ASSUME FieldsOK'
  PROVE  /\ \A r \in Remotes : \A u \in Held(r)' : u \in RequestUnit
         /\ \A c \in Clients : Used(c)' \in Int
<1>1. ASSUME NEW r \in Remotes, NEW u \in Held(r)' PROVE u \in RequestUnit
  <2>1. bGot'[r] \in Seq(RequestUnit) /\ pending'[r] \in Seq(RequestUnit)
    BY DEF FieldsOK, RemoteFields
  <2> QED BY <2>1 DEF Held, ToSet
<1>2. ASSUME NEW c \in Clients PROVE Used(c)' \in Int
  <2>1. asked'[c] \in Nat /\ Len(cBuf'[c]) \in Nat /\ Len(cIn'[c]) \in Nat
    BY DEF FieldsOK, ClientFields
  <2> QED BY <2>1 DEF Used
<1> QED BY <1>1, <1>2

(* The place of a unit in the stream of its client is a number.            *)
LEMMA PlaceTyped == \A u \in RequestUnit : Place(u) \in Nat /\ u[1] \in Clients
<1> SUFFICES ASSUME NEW u \in RequestUnit PROVE Place(u) \in Nat /\ u[1] \in Clients
  OBVIOUS
<1>1. u[1] \in Clients /\ u[2] \in 1..Len(Plan[u[1]]) /\ u[3] \in Nat
  BY UnitFacts
<1>2. AskAt(u[1], u[2]) \in Nat
  BY <1>1, AskFacts
<1> QED BY <1>1, <1>2 DEF Place

(* A backend is given units of one client that waited to be read. *)
LEMMA ApartStep ==
  ASSUME FieldsOK, FieldsOK', Apart, NEW c \in Clients, NEW a,
         \A d \in Clients : Used(d)' >= Used(d),
         \A r \in Remotes : \A u \in Held(r)' :
           u \in Held(r) \/ (r = a /\ u[1] = c /\ Used(c) <= Place(u) /\ Place(u) < Used(c)')
  PROVE  Apart'
<1>1. \A d \in Clients : Used(d) \in Int /\ Used(d)' \in Int
  BY HeldTyped, HeldTypedNext
<1>2. \A r \in Remotes : \A u \in Held(r)' : u \in RequestUnit
  BY HeldTypedNext
<1>3. ASSUME NEW r \in Remotes, NEW u \in Held(r)' PROVE Place(u) < Used(u[1])'
  <2>1. Place(u) \in Nat /\ u[1] \in Clients
    BY <1>2, PlaceTyped
  <2>2. CASE u \in Held(r)
    <3>1. Place(u) < Used(u[1])
      BY <2>2 DEF Apart
    <3>2. Used(u[1]) \in Int /\ Used(u[1])' \in Int /\ Used(u[1])' >= Used(u[1])
      BY <1>1, <2>1
    <3> QED BY <2>1, <3>1, <3>2
  <2> QED BY <2>2
<1>4. ASSUME NEW r \in Remotes, NEW s \in Remotes, r # s, NEW u \in Held(r)', u \in Held(s)'
      PROVE  FALSE
  <2>1. Place(u) \in Nat /\ u[1] \in Clients
    BY <1>2, PlaceTyped
  <2>2. ~(u \in Held(r) /\ u \in Held(s))
    BY <1>4 DEF Apart
  <2>3. u \in Held(r) => Place(u) < Used(u[1])
    BY DEF Apart
  <2>4. u \in Held(s) => Place(u) < Used(u[1])
    BY DEF Apart
  <2>5. /\ u \in Held(r) \/ (r = a /\ u[1] = c /\ Used(c) <= Place(u))
        /\ u \in Held(s) \/ (s = a /\ u[1] = c /\ Used(c) <= Place(u))
    BY <1>4
  <2>6. Used(u[1]) \in Int
    BY <1>1, <2>1
  <2>7. u[1] = c /\ Used(c) <= Place(u) => ~(Place(u) < Used(u[1]))
    BY <2>1, <2>6
  <2> QED BY <1>4, <2>2, <2>3, <2>4, <2>5, <2>7
<1> QED BY <1>3, <1>4 DEF Apart

(* Backends stay apart if none of them gets a unit and clients get no      *)
(* unit back.                                                              *)
LEMMA ApartKept ==
  ASSUME FieldsOK, FieldsOK', Apart,
         \A d \in Clients : Used(d)' >= Used(d),
         \A r \in Remotes : Held(r)' \subseteq Held(r)
  PROVE  Apart'
<1>1. \A d \in Clients : Used(d) \in Int /\ Used(d)' \in Int
  BY HeldTyped, HeldTypedNext
<1>2. ASSUME NEW r \in Remotes, NEW u \in Held(r)' PROVE Place(u) < Used(u[1])'
  <2>1. u \in RequestUnit
    BY HeldTypedNext
  <2>2. Place(u) \in Nat /\ u[1] \in Clients
    BY <2>1, PlaceTyped
  <2>3. Place(u) < Used(u[1])
    BY DEF Apart
  <2>4. Used(u[1]) \in Int /\ Used(u[1])' \in Int /\ Used(u[1])' >= Used(u[1])
    BY <1>1, <2>2
  <2> QED BY <2>2, <2>3, <2>4
<1>3. \A r, s \in Remotes : r # s => Held(r)' \cap Held(s)' = {}
  BY DEF Apart
<1> QED BY <1>2, <1>3 DEF Apart

-----------------------------------------------------------------------------
(* Who holds whom.                                                         *)

(* None is no thread of control, and clients are no RemoteClients.         *)
LEMMA NoneIsNobody == None \notin Remotes /\ None \notin Clients /\ Clients \cap Remotes = {}
BY GatewayAssumption DEF None, Remotes

(* The RemoteClient that a client points to points back and carries its    *)
(* request.                                                                *)
LEMMA HolderFacts ==
  ASSUME FieldsOK, ClientsOK, NEW c \in Clients, NEW r \in Remotes, context[c].client = r
  PROVE  /\ up[c] # "gone" /\ busy[r] /\ bound[r] = c
         /\ link[r] \in Trying \cup {"up", "down"}
         /\ \A i : ~Fresh(c, i) /\ ~Refused(c, i)
         /\ \E i \in 1..Len(Plan[c]), m, x \in Nat : Carried(c, r, i, m, x)
<1>1. r # None
  BY NoneIsNobody
<1>2. up[c] # "gone" /\ \E i \in 1..(Len(Plan[c]) + 1) : ClientAt(c, i)
  BY <1>1 DEF ClientsOK, ClientOK
<1>3. PICK i \in 1..(Len(Plan[c]) + 1) : ClientAt(c, i)
  BY <1>2
<1>4. \A j : ~Fresh(c, j) /\ ~Refused(c, j)
  BY <1>1 DEF Fresh, Refused
<1>5. PICK s \in Remotes, m \in Nat, x \in Nat : Carried(c, s, i, m, x)
  BY <1>3, <1>4 DEF ClientAt
<1>6. s = r /\ i <= Len(Plan[c]) /\ Holding(c, r, i, m, x)
  BY <1>5 DEF Carried
<1>7. i \in 1..Len(Plan[c])
  BY <1>6, PlanFacts
<1>8. busy[r] /\ bound[r] = c /\ link[r] \in Trying \cup {"up", "down"}
  BY <1>6 DEF Holding
<1> QED BY <1>2, <1>4, <1>5, <1>6, <1>7, <1>8

(* What lies in a pool is nobody's. *)
LEMMA PooledFacts ==
  ASSUME FieldsOK, ClientsOK, PoolsOK, NEW t \in Targets, NEW r \in Remotes, Pooled(r, t)
  PROVE  Idle(r, t) /\ \A c \in Clients : context[c].client # r
<1>1. Idle(r, t)
  BY DEF PoolsOK, PoolOK
<1>2. ~busy[r]
  BY <1>1 DEF Idle
<1> QED BY <1>1, <1>2, HolderFacts

(* Steps that touch nothing of this. *)
LEMMA InertStep ==
  ASSUME GatewayInv, FieldsOK',
         UNCHANGED <<up, asked, cIn, cBuf, context, cGot, said, bIn, remoteVars, idle>>
  PROVE  ClientsOK' /\ RemotesOK' /\ PoolsOK' /\ Apart'
<1>1. /\ up' = up /\ asked' = asked /\ cIn' = cIn /\ cBuf' = cBuf /\ context' = context
      /\ cGot' = cGot /\ said' = said /\ bIn' = bIn /\ link' = link /\ addr' = addr
      /\ bound' = bound /\ busy' = busy /\ pending' = pending /\ bGot' = bGot
      /\ bBuf' = bBuf /\ idle' = idle
  BY DEF remoteVars
<1>2. ClientsOK'
  <2>1. ASSUME NEW c \in Clients PROVE ClientOK(c)'
    <3>1. ClientOK(c)
      BY DEF GatewayInv, ClientsOK
    <3>2. SameInput(c) /\ up'[c] = up[c] /\ cGot'[c] = cGot[c]
      BY <1>1 DEF SameInput
    <3>3. \A r \in Remotes : Carrying(r)
      BY <1>1 DEF Carrying, SameLink, SameLoad
    <3> QED BY <3>1, <3>2, <3>3, ClientKept
  <2> QED BY <2>1 DEF ClientsOK
<1>3. RemotesOK'
  BY <1>1 DEF GatewayInv, RemotesOK, RemoteOK
<1>4. PoolsOK'
  BY <1>1 DEF GatewayInv, PoolsOK, PoolOK, Pooled, Idle
<1>5. Apart'
  BY <1>1 DEF GatewayInv, Apart, Held, Used
<1> QED BY <1>2, <1>3, <1>4, <1>5

(* Only living clients stay ready.                                         *)
LEMMA LoopKept ==
  ASSUME LoopOK, ready' \subseteq ready,
         \A c \in Clients : c \in ready' /\ up[c] \in {"up", "shut"}
                            => up'[c] \in {"up", "shut"}
  PROVE  LoopOK'
BY DEF LoopOK

-----------------------------------------------------------------------------
(* One lemma for each step.                                                *)

(* Poll: epoll reports who has something to read or has ended.             *)
LEMMA PollStep == ASSUME GatewayInv, Poll PROVE GatewayInv'
<1>1. /\ ready' = Pollable /\ UNCHANGED <<closing, errors>>
      /\ UNCHANGED clientVars /\ UNCHANGED peerVars /\ UNCHANGED remoteVars
      /\ UNCHANGED <<idle, stranded>>
  BY DEF Poll
<1>2. FieldsOK'
  <2>1. Pollable \subseteq Clients \cup Remotes
    BY DEF Pollable
  <2>2. LoopFields'
    BY <1>1, <2>1 DEF GatewayInv, FieldsOK, LoopFields
  <2> QED BY <1>1, <2>2, FieldsKept DEF GatewayInv, FieldsOK
<1>3. LoopOK'
  <2>1. \A c \in Clients : c \in Pollable => up[c] \in {"up", "shut"}
    BY NoneIsNobody DEF Pollable
  <2>2. up' = up
    BY <1>1 DEF clientVars
  <2> QED BY <1>1, <2>1, <2>2 DEF LoopOK
<1>4. ClientsOK' /\ RemotesOK' /\ PoolsOK' /\ Apart'
  <2>1. UNCHANGED <<up, asked, cIn, cBuf, context, cGot, said, bIn, remoteVars, idle>>
    BY <1>1 DEF clientVars, peerVars
  <2> QED BY <1>2, <2>1, InertStep
<1> QED BY <1>2, <1>3, <1>4 DEF GatewayInv

(* ClientEnds: a client hangs up.                                          *)
LEMMA ClientEndsStep ==
  ASSUME GatewayInv, NEW c \in Clients, ClientEnds(c) PROVE GatewayInv'
<1>1. /\ cEnd' = [cEnd EXCEPT ![c] = TRUE] /\ UNCHANGED loopVars
      /\ UNCHANGED <<up, asked, cIn, cBuf, context, cGot>>
      /\ UNCHANGED peerVars /\ UNCHANGED remoteVars /\ UNCHANGED <<idle, stranded>>
  BY DEF ClientEnds
<1>2. FieldsOK'
  <2>1. ClientFields'
    BY <1>1 DEF GatewayInv, FieldsOK, ClientFields
  <2> QED BY <1>1, <2>1, FieldsKept DEF GatewayInv, FieldsOK
<1>3. LoopOK'
  BY <1>1 DEF GatewayInv, LoopOK, loopVars
<1>4. ClientsOK' /\ RemotesOK' /\ PoolsOK' /\ Apart'
  <2>1. UNCHANGED <<up, asked, cIn, cBuf, context, cGot, said, bIn, remoteVars, idle>>
    BY <1>1 DEF peerVars
  <2> QED BY <1>2, <2>1, InertStep
<1> QED BY <1>2, <1>3, <1>4 DEF GatewayInv

(* BackendEnds: a backend closes an idle or a busy connection.             *)
LEMMA BackendEndsStep ==
  ASSUME GatewayInv, NEW r \in Remotes, BackendEnds(r) PROVE GatewayInv'
<1>1. /\ UNCHANGED loopVars /\ UNCHANGED clientVars /\ UNCHANGED <<said, bIn>>
      /\ UNCHANGED remoteVars /\ UNCHANGED <<idle, stranded>>
  BY DEF BackendEnds
<1>2. FieldsOK'
  <2>1. PeerFields'
    BY <1>1 DEF GatewayInv, FieldsOK, PeerFields
  <2> QED BY <1>1, <2>1, FieldsKept DEF GatewayInv, FieldsOK
<1>3. LoopOK'
  BY <1>1 DEF GatewayInv, LoopOK, loopVars, clientVars
<1>4. ClientsOK' /\ RemotesOK' /\ PoolsOK' /\ Apart'
  <2>1. UNCHANGED <<up, asked, cIn, cBuf, context, cGot, said, bIn, remoteVars, idle>>
    BY <1>1 DEF clientVars
  <2> QED BY <1>2, <2>1, InertStep
<1> QED BY <1>2, <1>3, <1>4 DEF GatewayInv

(* An attempt to connect goes on or fails. *)
LEMMA TryingStep ==
  ASSUME GatewayInv, FieldsOK', NEW r \in Remotes, link[r] \in Trying,
         NEW l \in Trying, link' = [link EXCEPT ![r] = l],
         UNCHANGED <<clientVars, peerVars, addr, bound, busy, pending, bGot, bBuf, idle>>
  PROVE  ClientsOK' /\ RemotesOK' /\ PoolsOK' /\ Apart'
<1>1. /\ up' = up /\ asked' = asked /\ cIn' = cIn /\ cBuf' = cBuf /\ context' = context
      /\ cGot' = cGot /\ said' = said /\ bIn' = bIn /\ addr' = addr
      /\ bound' = bound /\ busy' = busy /\ pending' = pending /\ bGot' = bGot
      /\ bBuf' = bBuf /\ idle' = idle
  BY DEF clientVars, peerVars
<1>2. link'[r] = l /\ \A s \in Remotes : s # r => link'[s] = link[s]
  BY DEF GatewayInv, FieldsOK, RemoteFields
<1>3. ClientsOK'
  <2>1. ASSUME NEW c \in Clients PROVE ClientOK(c)'
    <3>1. ClientOK(c)
      BY DEF GatewayInv, ClientsOK
    <3>2. SameInput(c) /\ up'[c] = up[c] /\ cGot'[c] = cGot[c]
      BY <1>1 DEF SameInput
    <3>3. \A s \in Remotes : Carrying(s)
      BY <1>1, <1>2 DEF Carrying, SameLink, SameLoad
    <3> QED BY <3>1, <3>2, <3>3, ClientKept
  <2> QED BY <2>1 DEF ClientsOK
<1>4. RemotesOK'
  <2>1. ASSUME NEW s \in Remotes, s # r PROVE RemoteOK(s)'
    <3>1. RemoteOK(s)
      BY DEF GatewayInv, RemotesOK
    <3> QED BY <1>1, <1>2, <2>1, <3>1, RemoteKept DEF SameLoad
  <2>2. RemoteOK(r)'
    <3>1. RemoteOK(r)
      BY DEF GatewayInv, RemotesOK
    <3> QED BY <1>1, <1>2, <3>1 DEF RemoteOK, Trying
  <2> QED BY <2>1, <2>2 DEF RemotesOK
<1>5. PoolsOK'
  <2>1. ASSUME NEW t \in Targets PROVE PoolOK(t)'
    <3>1. PoolOK(t)
      BY DEF GatewayInv, PoolsOK
    <3>2. ~Pooled(r, t)
      BY <3>1 DEF PoolOK, Idle, Trying
    <3>3. \A s \in Remotes : Pooled(s, t) => Resting(s)
      BY <1>1, <1>2, <3>2 DEF Resting, SameLoad
    <3> QED BY <1>1, <3>1, <3>3, PoolKept
  <2> QED BY <2>1 DEF PoolsOK
<1>6. Apart'
  BY <1>1 DEF GatewayInv, Apart, Held, Used
<1> QED BY <1>3, <1>4, <1>5, <1>6

(* BackendDecides: a backend takes a connection or refuses it.             *)
LEMMA BackendDecidesStep ==
  ASSUME GatewayInv, NEW r \in Remotes, BackendDecides(r) PROVE GatewayInv'
<1>1. PICK l \in {"accepted", "refused"} : link' = [link EXCEPT ![r] = l]
  BY DEF BackendDecides
<1>2. /\ link[r] = "connecting" /\ UNCHANGED loopVars /\ UNCHANGED clientVars
      /\ UNCHANGED peerVars /\ UNCHANGED <<addr, bound, busy, pending, bGot, bBuf>>
      /\ UNCHANGED <<idle, stranded>>
  BY DEF BackendDecides
<1>3. link[r] \in Trying /\ l \in Trying /\ l \in Links
  BY <1>2 DEF Trying, Links
<1>4. FieldsOK'
  <2>1. RemoteFields'
    BY <1>1, <1>2, <1>3 DEF GatewayInv, FieldsOK, RemoteFields
  <2> QED BY <1>2, <2>1, FieldsKept DEF GatewayInv, FieldsOK
<1>5. LoopOK'
  BY <1>2 DEF GatewayInv, LoopOK, loopVars, clientVars
<1>6. ClientsOK' /\ RemotesOK' /\ PoolsOK' /\ Apart'
  BY <1>1, <1>2, <1>3, <1>4, TryingStep
<1> QED BY <1>4, <1>5, <1>6 DEF GatewayInv

(* RemoteRefused: a connection that failed marks its RemoteClient.         *)
LEMMA RemoteRefusedStep ==
  ASSUME GatewayInv, NEW r \in Remotes, RemoteRefused(r) PROVE GatewayInv'
<1>1. /\ link[r] = "refused" /\ link' = [link EXCEPT ![r] = "failed"]
      /\ stranded' = stranded \cup {bound[r]} /\ ready' = ready \ {r}
      /\ UNCHANGED <<closing, errors>> /\ UNCHANGED clientVars
      /\ UNCHANGED peerVars /\ UNCHANGED <<addr, bound, busy, pending, bGot, bBuf>>
      /\ UNCHANGED idle
  BY DEF RemoteRefused, Handling
<1>2. link[r] \in Trying /\ "failed" \in Trying /\ "failed" \in Links
  BY <1>1 DEF Trying, Links
<1>3. bound[r] \in Clients
  <2>1. RemoteOK(r)
    BY DEF GatewayInv, RemotesOK
  <2> QED BY <1>1, <1>2, <2>1 DEF RemoteOK
<1>4. FieldsOK'
  <2>1. RemoteFields'
    BY <1>1, <1>2 DEF GatewayInv, FieldsOK, RemoteFields
  <2>2. PoolFields'
    BY <1>1, <1>3 DEF GatewayInv, FieldsOK, PoolFields
  <2>3. LoopFields'
    BY <1>1 DEF GatewayInv, FieldsOK, LoopFields
  <2> QED BY <1>1, <2>1, <2>2, <2>3, FieldsKept DEF GatewayInv, FieldsOK
<1>5. LoopOK'
  BY <1>1 DEF GatewayInv, LoopOK, clientVars
<1>6. ClientsOK' /\ RemotesOK' /\ PoolsOK' /\ Apart'
  BY <1>1, <1>2, <1>4, TryingStep
<1> QED BY <1>4, <1>5, <1>6 DEF GatewayInv

-----------------------------------------------------------------------------
(* Steps of one client and of the RemoteClient that carries its request.   *)

(* The parser is somewhere in the request or in the answer.                *)
LEMMA ParsedFacts ==
  ASSUME NEW p, NEW q, q.body \in Nat, q.answer \in Nat, NEW m \in Nat, NEW x \in Nat,
         Parsed(p, q, m, x)
  PROVE  m \in 1..(q.body + 1) /\ x <= q.answer /\ (x > 0 => m = q.body + 1)
BY DEF Parsed

(* A client whose output did not change is well wherever it is now.        *)
LEMMA ClientMoves ==
  ASSUME NEW c \in Clients, ClientOK(c), up'[c] = up[c], up[c] # "gone",
         cGot'[c] = cGot[c], NEW i \in 1..(Len(Plan[c]) + 1), ClientAt(c, i)'
  PROVE  ClientOK(c)'
<1>1. InOrder(c) => InOrder(c)'
  BY DEF InOrder
<1>2. InOrder(c)'
  BY <1>1 DEF ClientOK
<1>3. up'[c] = "shut" => cGot'[c] # <<>> /\ Last(cGot'[c]) = Own
  BY DEF ClientOK
<1>4. up'[c] # "gone" /\ \E j \in 1..(Len(Plan[c]) + 1) : ClientAt(c, j)'
  OBVIOUS
<1> QED BY <1>2, <1>3, <1>4 DEF ClientOK

(* Nothing happens to other clients than c and other RemoteClients than r. *)
Elsewhere(c, r) ==
  /\ \A d \in Clients : d # c => SameInput(d) /\ up'[d] = up[d] /\ cGot'[d] = cGot[d]
  /\ \A s \in Remotes : s # r =>
       /\ link'[s] = link[s] /\ addr'[s] = addr[s] /\ bound'[s] = bound[s]
       /\ busy'[s] = busy[s] /\ SameLoad(s) /\ bBuf'[s] = bBuf[s]

(* A step on client c and RemoteClient r leaves the other clients and      *)
(* RemoteClients well, and the pools that r is not in.                     *)
LEMMA OthersKept ==
  ASSUME GatewayInv, NEW c, NEW r, Elsewhere(c, r),
         \A d \in Clients : r \in Remotes /\ d # c => context[d].client # r,
         c \in Clients => context'[c].client = context[c].client
                          \/ context[c].client \in {r, None}
  PROVE  /\ \A d \in Clients : d # c => ClientOK(d)'
         /\ \A s \in Remotes : s # r => RemoteOK(s)'
         /\ \A t \in Targets :
              idle'[t] = idle[t] /\ (r \in Remotes => ~Pooled(r, t)) => PoolOK(t)'
<1>1. ASSUME NEW d \in Clients, d # c PROVE ClientOK(d)'
  <2>1. ClientOK(d) /\ SameInput(d) /\ up'[d] = up[d] /\ cGot'[d] = cGot[d]
    BY <1>1 DEF GatewayInv, ClientsOK, Elsewhere
  <2>2. ASSUME NEW s \in Remotes, context[d].client = s PROVE Carrying(s)
    <3>1. s # r
      BY <1>1, <2>2
    <3> QED BY <3>1 DEF Elsewhere, Carrying, SameLink
  <2> QED BY <2>1, <2>2, ClientKept
<1>2. ASSUME NEW s \in Remotes, s # r PROVE RemoteOK(s)'
  <2>1. /\ RemoteOK(s) /\ link'[s] = link[s] /\ addr'[s] = addr[s] /\ bound'[s] = bound[s]
        /\ busy'[s] = busy[s] /\ SameLoad(s) /\ bBuf'[s] = bBuf[s]
    BY <1>2 DEF GatewayInv, RemotesOK, Elsewhere
  <2>2. ASSUME link[s] \notin {"none", "orphan"}, busy[s]
        PROVE  context'[bound[s]].client = context[bound[s]].client
    <3>1. bound[s] \in Clients /\ context[bound[s]].client = s
      BY <2>1, <2>2 DEF RemoteOK
    <3>2. CASE bound[s] = c
      <4>1. context[c].client \notin {r, None}
        BY <1>2, <3>1, <3>2, NoneIsNobody
      <4> QED BY <3>1, <3>2, <4>1
    <3>3. CASE bound[s] # c
      BY <3>1, <3>3 DEF Elsewhere, SameInput
    <3> QED BY <3>2, <3>3
  <2> QED BY <2>1, <2>2, RemoteKept
<1>3. ASSUME NEW t \in Targets, idle'[t] = idle[t], r \in Remotes => ~Pooled(r, t)
      PROVE  PoolOK(t)'
  <2>1. PoolOK(t)
    BY DEF GatewayInv, PoolsOK
  <2>2. \A s \in Remotes : Pooled(s, t) => s # r
    BY <1>3
  <2>3. \A s \in Remotes : s # r => Resting(s)
    BY DEF Elsewhere, Resting
  <2> QED BY <1>3, <2>1, <2>2, <2>3, PoolKept
<1> QED BY <1>1, <1>2, <1>3

(* What a backend has ends with the first m units of a request, and has    *)
(* made d units of earlier answers due.                                    *)
Sent(w, c, i, m, d) ==
  /\ w \in Seq(RequestUnit) /\ Chained(w) /\ w # <<>>
  /\ w[Len(w)] = <<c, i, m - 1>> /\ Len(Due(w)) = d + Owed(c, i, m)

(* More of a request is sent. *)
LEMMA SentMore ==
  ASSUME NEW s \in Seq(RequestUnit), NEW c \in Clients, NEW i \in 1..Len(Plan[c]),
         NEW m \in Nat, NEW n \in Nat, n > 0, m + n <= Size(c, i), Chained(s),
         m = 0 => s = <<>> \/ Ends(s[Len(s)]),
         m > 0 => s # <<>> /\ s[Len(s)] = <<c, i, m - 1>>,
         NEW w, w = s \o Part(c, i, m, n)
  PROVE  Sent(w, c, i, m + n, Len(Due(s)))
<1>1. /\ w \in Seq(RequestUnit)
      /\ Len(Due(w)) = Len(Due(s)) + IF n > 0 /\ m + n = Size(c, i) THEN Reply(c, i) ELSE 0
  BY DueMore
<1>2. Chained(w) /\ w # <<>> /\ w[Len(w)] = <<c, i, m + n - 1>>
  BY ChainMore
<1> QED BY <1>1, <1>2 DEF Owed, Sent

(* The first of it is sent. *)
LEMMA SentFirst ==
  ASSUME NEW c \in Clients, NEW i \in 1..Len(Plan[c]), NEW m \in Nat, m > 0,
         m <= Size(c, i)
  PROVE  Sent(Part(c, i, 0, m), c, i, m, 0)
<1>1. Size(c, i) \in Nat /\ i \in Nat
  BY PlanFacts
<1>2. PICK e : e = <<>>
  OBVIOUS
<1>3. PICK z \in Nat : z = 0
  OBVIOUS
<1>4. e \in Seq(RequestUnit) /\ Chained(e)
  BY <1>2 DEF Chained
<1>5. PICK w : w = e \o Part(c, i, z, m)
  OBVIOUS
<1>6. Sent(w, c, i, z + m, Len(Due(e)))
  <2>1. z + m <= Size(c, i)
    BY <1>1, <1>3
  <2>2. z = 0 => e = <<>> \/ Ends(e[Len(e)])
    BY <1>2
  <2>3. z > 0 => e # <<>> /\ e[Len(e)] = <<c, i, z - 1>>
    BY <1>3
  <2> QED BY <1>4, <1>5, <2>1, <2>2, <2>3, SentMore
<1>7. w = Part(c, i, 0, m)
  <2>1. IsPart(Part(c, i, z, m), c, i, z, m)
    BY <1>1, PartFacts
  <2>2. Part(c, i, z, m) \in Seq(Unit)
    BY <2>1 DEF IsPart
  <2>3. \A v \in Seq(Unit) : <<>> \o v = v
    OBVIOUS
  <2>4. w = Part(c, i, z, m)
    BY <1>2, <1>5, <2>2, <2>3
  <2> QED BY <1>3, <2>4
<1>8. Len(Due(e)) = 0 /\ z + m = m
  BY <1>2, <1>3, DueNothing
<1> QED BY <1>6, <1>7, <1>8

(* Nobody else holds what c holds, and it is in no pool. *)
LEMMA OnlyHolder ==
  ASSUME GatewayInv, NEW c \in Clients, NEW r \in Remotes, context[c].client = r
  PROVE  /\ \A d \in Clients : d # c => context[d].client # r
         /\ \A t \in Targets : ~Pooled(r, t)
<1>1. FieldsOK /\ ClientsOK /\ PoolsOK
  BY DEF GatewayInv
<1>2. \A d \in Clients : context[d].client = r => bound[r] = d /\ busy[r]
  BY <1>1, HolderFacts
<1>3. \A t \in Targets : Pooled(r, t) => Idle(r, t)
  BY <1>1 DEF PoolsOK, PoolOK
<1>4. \A t \in Targets : Idle(r, t) => ~busy[r]
  BY DEF Idle
<1> QED BY <1>2, <1>3, <1>4

(* A carried request has been begun, and its answer has not ended.         *)
LEMMA CarriedFacts ==
  ASSUME NEW c \in Clients, NEW r, NEW i \in 1..Len(Plan[c]), NEW m \in Nat, NEW x \in Nat,
         Carried(c, r, i, m, x)
  PROVE  /\ m > 0 /\ m <= Size(c, i) /\ x < Reply(c, i) /\ (x > 0 => m = Size(c, i))
         /\ Size(c, i) \in Nat /\ Reply(c, i) \in Nat /\ Owed(c, i, m) \in Nat
<1>1. Parsed(context[c], Plan[c][i], m, x)
  BY DEF Carried
<1>2. Plan[c][i].body \in Nat /\ Plan[c][i].answer \in Nat
  BY PlanFacts
<1>3. /\ m \in 1..(Plan[c][i].body + 1) /\ x <= Plan[c][i].answer
      /\ x > 0 => m = Plan[c][i].body + 1
  BY <1>1, <1>2, ParsedFacts
<1> QED BY <1>2, <1>3, SMTT(60) DEF Size, Reply, Owed

(* RemoteUp: the connection is there and what was put off is sent.         *)
LEMMA RemoteUpStep ==
  ASSUME GatewayInv, NEW r \in Remotes, RemoteUp(r) PROVE GatewayInv'
<1>1. /\ link[r] = "accepted" /\ link' = [link EXCEPT ![r] = "up"]
      /\ bGot' = [bGot EXCEPT ![r] = pending[r]] /\ pending' = [pending EXCEPT ![r] = <<>>]
      /\ ready' = ready \ {r} /\ UNCHANGED <<closing, errors>> /\ UNCHANGED clientVars
      /\ UNCHANGED peerVars /\ UNCHANGED <<addr, bound, busy, bBuf>>
      /\ UNCHANGED <<idle, stranded>>
  BY DEF RemoteUp, Handling
<1>2. /\ up' = up /\ asked' = asked /\ cIn' = cIn /\ cBuf' = cBuf /\ context' = context
      /\ cGot' = cGot /\ said' = said /\ bIn' = bIn /\ addr' = addr
      /\ bound' = bound /\ busy' = busy /\ bBuf' = bBuf /\ idle' = idle
  BY <1>1 DEF clientVars, peerVars
<1>3. /\ RemoteOK(r) /\ busy[r] /\ bound[r] \in Clients /\ context[bound[r]].client = r
      /\ said[r] = 0 /\ bIn[r] = <<>>
  <2>1. RemoteOK(r)
    BY DEF GatewayInv, RemotesOK
  <2> QED BY <1>1, <2>1 DEF RemoteOK, Trying
<1>4. PICK c \in Clients : c = bound[r] /\ context[c].client = r
  BY <1>3
<1>5. PICK i \in 1..Len(Plan[c]), m \in Nat, x \in Nat : Carried(c, r, i, m, x)
  BY <1>4, HolderFacts DEF GatewayInv
<1>6. /\ m > 0 /\ m <= Size(c, i) /\ Owed(c, i, m) \in Nat
  BY <1>5, CarriedFacts
<1>7. x = 0 /\ pending[r] = Part(c, i, 0, m)
  BY <1>1, <1>5 DEF Carried, Holding, Trying
<1>8. Sent(pending[r], c, i, m, 0)
  BY <1>6, <1>7, SentFirst
<1>9. FieldsOK'
  <2>1. pending[r] \in Seq(RequestUnit) /\ <<>> \in Seq(RequestUnit) /\ "up" \in Links
    BY <1>8 DEF Sent, Links
  <2>2. RemoteFields'
    BY <1>1, <2>1 DEF GatewayInv, FieldsOK, RemoteFields
  <2>3. LoopFields'
    BY <1>1 DEF GatewayInv, FieldsOK, LoopFields
  <2> QED BY <1>1, <2>2, <2>3, FieldsKept DEF GatewayInv, FieldsOK
<1>10. LoopOK'
  BY <1>1, <1>2 DEF GatewayInv, LoopOK
<1>11. /\ link'[r] = "up" /\ bGot'[r] = pending[r] /\ pending'[r] = <<>>
       /\ \A s \in Remotes : s # r => /\ link'[s] = link[s] /\ bGot'[s] = bGot[s]
                                      /\ pending'[s] = pending[s]
  BY <1>1 DEF GatewayInv, FieldsOK, RemoteFields
<1>12. ClientOK(c)'
  <2>1. /\ busy'[r] /\ bound'[r] = c /\ link'[r] = "up" /\ pending'[r] = <<>>
        /\ bIn'[r] = <<>> /\ said'[r] = 0
    BY <1>2, <1>3, <1>4, <1>11
  <2>2. bGot'[r] # <<>> /\ bGot'[r][Len(bGot'[r])] = <<c, i, m - 1>>
    BY <1>8, <1>11 DEF Sent
  <2>3. Len(Due(bGot'[r])) = 0 + Owed(c, i, m)
    BY <1>8, <1>11 DEF Sent
  <2>4. /\ said'[r] + Owed(c, i, m) = Len(Due(bGot'[r])) + x + Len(bIn'[r])
        /\ x + Len(bIn'[r]) <= Owed(c, i, m) /\ Len(bIn'[r]) = 0
    BY <1>6, <1>7, <2>1, <2>3
  <2>5. bIn'[r] = Part(c, i, x, Len(bIn'[r]))
    BY <2>1, <2>4 DEF Part
  <2>6. Holding(c, r, i, m, x)'
    BY <2>1, <2>2, <2>4, <2>5 DEF Holding, Trying
  <2>7. Facing(c, i, m)' /\ Has(c, i, x)'
    BY <1>2, <1>5 DEF Carried, Facing, Has
  <2>8. Carried(c, r, i, m, x)'
    BY <1>2, <1>5, <2>6, <2>7 DEF Carried
  <2>9. ClientAt(c, i)'
    BY <2>8 DEF ClientAt
  <2>10. i \in 1..(Len(Plan[c]) + 1)
    BY PlanFacts
  <2>11. up[c] # "gone"
    BY <1>4, HolderFacts DEF GatewayInv
  <2> QED BY <1>2, <2>9, <2>10, <2>11, ClientMoves DEF GatewayInv, ClientsOK
<1>13. RemoteOK(r)'
  <2>1. Chained(bGot'[r])
    BY <1>8, <1>11 DEF Sent
  <2> QED BY <1>1, <1>2, <1>3, <1>11, <2>1 DEF RemoteOK, Trying
<1>14. Elsewhere(c, r)
  BY <1>2, <1>11 DEF Elsewhere, SameInput, SameLoad
<1>15. ClientsOK' /\ RemotesOK' /\ PoolsOK'
  <2>1. /\ \A d \in Clients : d # c => context[d].client # r
        /\ \A t \in Targets : ~Pooled(r, t)
    BY <1>4, OnlyHolder
  <2>2. context'[c].client = context[c].client
    BY <1>2
  <2>3. /\ \A d \in Clients : d # c => ClientOK(d)'
        /\ \A s \in Remotes : s # r => RemoteOK(s)'
        /\ \A t \in Targets :
             idle'[t] = idle[t] /\ (r \in Remotes => ~Pooled(r, t)) => PoolOK(t)'
    BY <1>14, <2>1, <2>2, OthersKept
  <2> QED BY <1>2, <1>12, <1>13, <2>1, <2>3 DEF ClientsOK, RemotesOK, PoolsOK
<1>16. Apart'
  <2>1. \A d \in Clients : Used(d)' = Used(d) /\ Used(d) \in Int
    BY <1>2, HeldTyped DEF Used, GatewayInv
  <2>2. \A s \in Remotes : Held(s)' \subseteq Held(s)
    BY <1>11 DEF Held, ToSet
  <2>3. \A d \in Clients : Used(d)' >= Used(d)
    BY <2>1
  <2> QED BY <1>9, <2>2, <2>3, ApartKept DEF GatewayInv
<1> QED BY <1>9, <1>10, <1>15, <1>16 DEF GatewayInv

(* What the backend says next is the next unit of the answer c waits for.  *)
LEMMA NextSaid ==
  ASSUME FieldsOK, NEW c \in Clients, NEW r \in Remotes, NEW i \in 1..Len(Plan[c]),
         NEW m \in Nat, NEW x \in Nat, Carried(c, r, i, m, x), link[r] = "up",
         said[r] < Len(Due(bGot[r])),
         said'[r] = said[r] + 1, bIn'[r] = Append(bIn[r], Due(bGot[r])[said[r] + 1])
  PROVE  /\ said'[r] + Owed(c, i, m) = Len(Due(bGot[r])) + x + Len(bIn'[r])
         /\ x + Len(bIn'[r]) <= Owed(c, i, m)
         /\ bIn'[r] = Part(c, i, x, Len(bIn'[r]))
<1> DEFINE s == bGot[r]
           D == Len(Due(s))
           n == Len(bIn[r])
<1>1. s \in Seq(RequestUnit) /\ said[r] \in Nat /\ bIn[r] \in Seq(Unit) /\ n \in Nat
  BY DEF FieldsOK, RemoteFields, PeerFields
<1>2. D \in Nat
  BY <1>1, DueType
<1>3. /\ s # <<>> /\ s[Len(s)] = <<c, i, m - 1>> /\ said[r] + Owed(c, i, m) = D + x + n
      /\ x + n <= Owed(c, i, m) /\ bIn[r] = Part(c, i, x, n)
  BY DEF Carried, Holding
<1>4. Size(c, i) \in Nat /\ Reply(c, i) \in Nat /\ Owed(c, i, m) \in Nat /\ i \in Nat
  BY CarriedFacts
<1>5. said[r] < D
  OBVIOUS
<1> HIDE DEF D, n
<1>6. m = Size(c, i) /\ Owed(c, i, m) = Reply(c, i)
  <2>1. Owed(c, i, m) # 0
    BY <1>1, <1>2, <1>3, <1>4, <1>5, SMTT(60)
  <2> QED BY <2>1 DEF Owed
<1>7. PICK k \in 1..Reply(c, i) : k = x + n + 1
  <2>1. said[r] + Reply(c, i) = D + x + n
    BY <1>3, <1>6
  <2>2. \A a, d, y, j, R \in Nat : a + R = d + y + j /\ a < d => y + j + 1 \in 1..R
    OBVIOUS
  <2> QED BY <1>1, <1>2, <1>4, <1>5, <2>1, <2>2
<1>8. said[r] + 1 = (D - Reply(c, i)) + k /\ k - 1 = x + n
  <2>1. said[r] + Reply(c, i) = D + x + n
    BY <1>3, <1>6
  <2>2. \A a, R, d, y, j, h \in Nat :
          a + R = d + y + j /\ h = y + j + 1 => a + 1 = (d - R) + h /\ h - 1 = y + j
    OBVIOUS
  <2>3. k \in Nat
    BY <1>4
  <2> QED BY <1>1, <1>2, <1>4, <1>7, <2>1, <2>2, <2>3, SMTT(60)
<1>9. Due(s)[said[r] + 1] = <<c, i, x + n>>
  <2>1. Due(s)[(D - Reply(c, i)) + k] = <<c, i, k - 1>>
    <3> HIDE DEF s
    <3> QED BY <1>1, <1>3, <1>6, DueLast DEF D
  <2> QED BY <1>8, <2>1
<1>10. Len(bIn'[r]) = n + 1
  BY <1>1 DEF n
<1>11. bIn'[r] = Part(c, i, x, Len(bIn'[r]))
  <2>1. PICK j \in Nat : j = n
    BY <1>1
  <2>2. PICK z, u : z = j + 1 /\ u = <<c, i, x + j>>
    OBVIOUS
  <2>3. i \in Nat
    BY <1>4
  <2>4. Part(c, i, x, z) = Append(Part(c, i, x, j), u)
    BY <2>2, <2>3, PartAppend, SMTT(60)
  <2> QED BY <1>3, <1>9, <1>10, <2>1, <2>2, <2>4
<1>12. /\ said'[r] + Owed(c, i, m) = D + x + Len(bIn'[r])
       /\ x + Len(bIn'[r]) <= Owed(c, i, m)
  <2>1. PICK a, o, d, j \in Nat : a = said[r] /\ o = Owed(c, i, m) /\ d = D /\ j = n
    BY <1>1, <1>2, <1>4
  <2>2. a + o = d + x + j /\ x + j + 1 <= o
    BY <1>3, <1>4, <1>6, <1>7, <2>1
  <2>3. (a + 1) + o = d + x + (j + 1) /\ x + (j + 1) <= o
    BY <2>2
  <2> QED BY <1>10, <2>1, <2>3
<1> QED BY <1>11, <1>12 DEF D

(* BackendSends: a backend says the next unit of what it owes.             *)
LEMMA BackendSendsStep ==
  ASSUME GatewayInv, NEW r \in Remotes, BackendSends(r) PROVE GatewayInv'
<1>1. /\ link[r] \in {"up", "shut"} /\ said[r] < Len(Due(bGot[r]))
      /\ said' = [said EXCEPT ![r] = @ + 1]
      /\ bIn' = [bIn EXCEPT ![r] = Append(@, Due(bGot[r])[said[r] + 1])]
      /\ UNCHANGED loopVars /\ UNCHANGED clientVars
      /\ UNCHANGED remoteVars /\ UNCHANGED <<idle, stranded>>
  BY DEF BackendSends
<1>2. /\ up' = up /\ asked' = asked /\ cIn' = cIn /\ cBuf' = cBuf /\ context' = context
      /\ cGot' = cGot /\ link' = link /\ addr' = addr /\ bGot' = bGot /\ pending' = pending
      /\ bound' = bound /\ busy' = busy /\ bBuf' = bBuf /\ idle' = idle /\ ready' = ready
  BY <1>1 DEF clientVars, remoteVars, loopVars
<1>3. RemoteOK(r) /\ link[r] = "up"
  <2>1. RemoteOK(r)
    BY DEF GatewayInv, RemotesOK
  <2> QED BY <1>1, <2>1 DEF RemoteOK
<1>4. said[r] \in Nat /\ bIn[r] \in Seq(Unit) /\ bGot[r] \in Seq(RequestUnit)
  BY DEF GatewayInv, FieldsOK, PeerFields, RemoteFields
<1>5. Len(Due(bGot[r])) \in Nat /\ Due(bGot[r]) \in Seq(Unit)
  BY <1>4, DueType
<1>6. /\ said'[r] = said[r] + 1 /\ bIn'[r] = Append(bIn[r], Due(bGot[r])[said[r] + 1])
      /\ \A s \in Remotes : s # r => said'[s] = said[s] /\ bIn'[s] = bIn[s]
  BY <1>1 DEF GatewayInv, FieldsOK, PeerFields
<1>7. FieldsOK'
  <2>1. Due(bGot[r])[said[r] + 1] \in Unit
    <3>1. said[r] + 1 \in 1..Len(Due(bGot[r]))
      BY <1>1, <1>4, <1>5
    <3> QED BY <1>5, <3>1
  <2>2. Append(bIn[r], Due(bGot[r])[said[r] + 1]) \in Seq(Unit) /\ said[r] + 1 \in Nat
    BY <1>4, <2>1
  <2>3. PeerFields'
    BY <1>1, <2>2 DEF GatewayInv, FieldsOK, PeerFields
  <2> QED BY <1>1, <2>3, FieldsKept DEF GatewayInv, FieldsOK
<1>8. LoopOK'
  BY <1>2 DEF GatewayInv, LoopOK
<1>9. \A t \in Targets : ~Pooled(r, t)
  <2>1. \A t \in Targets : Pooled(r, t) => Idle(r, t)
    BY DEF GatewayInv, PoolsOK, PoolOK
  <2>2. \A t \in Targets : ~Idle(r, t)
    BY <1>1, <1>4, <1>5 DEF Idle
  <2> QED BY <2>1, <2>2
<1>10. RemoteOK(r)'
  BY <1>2, <1>3 DEF RemoteOK, Trying
<1>11. ASSUME NEW c \in Clients, context[c].client = r PROVE ClientOK(c)'
  <2>1. PICK i \in 1..Len(Plan[c]), m \in Nat, x \in Nat : Carried(c, r, i, m, x)
    BY <1>11, HolderFacts DEF GatewayInv
  <2>2. /\ said'[r] + Owed(c, i, m) = Len(Due(bGot[r])) + x + Len(bIn'[r])
        /\ x + Len(bIn'[r]) <= Owed(c, i, m)
        /\ bIn'[r] = Part(c, i, x, Len(bIn'[r]))
    <3>1. FieldsOK /\ link[r] = "up" /\ said[r] < Len(Due(bGot[r]))
      BY <1>1, <1>3 DEF GatewayInv
    <3>2. said'[r] = said[r] + 1 /\ bIn'[r] = Append(bIn[r], Due(bGot[r])[said[r] + 1])
      BY <1>6
    <3> QED BY <2>1, <3>1, <3>2, NextSaid
  <2>3. /\ busy'[r] /\ bound'[r] = c /\ link'[r] = "up" /\ pending'[r] = <<>>
        /\ bGot'[r] # <<>> /\ bGot'[r][Len(bGot'[r])] = <<c, i, m - 1>>
    BY <1>2, <1>3, <2>1 DEF Carried, Holding
  <2>4. Holding(c, r, i, m, x)'
    BY <1>2, <2>2, <2>3 DEF Holding, Trying
  <2>5. Facing(c, i, m)' /\ Has(c, i, x)'
    BY <1>2, <2>1 DEF Carried, Facing, Has
  <2>6. Carried(c, r, i, m, x)'
    BY <1>2, <2>1, <2>4, <2>5 DEF Carried
  <2>7. ClientAt(c, i)'
    BY <2>6 DEF ClientAt
  <2>8. i \in 1..(Len(Plan[c]) + 1)
    BY PlanFacts
  <2>9. up[c] # "gone"
    BY <1>11, HolderFacts DEF GatewayInv
  <2> QED BY <1>2, <2>7, <2>8, <2>9, ClientMoves DEF GatewayInv, ClientsOK
<1>12. ASSUME NEW c \in Clients, context[c].client # r PROVE ClientOK(c)'
  <2>1. ClientOK(c) /\ SameInput(c) /\ up'[c] = up[c] /\ cGot'[c] = cGot[c]
    BY <1>2 DEF GatewayInv, ClientsOK, SameInput
  <2>2. \A s \in Remotes : s # r => Carrying(s)
    BY <1>2, <1>6 DEF Carrying, SameLink, SameLoad
  <2>3. \A s \in Remotes : context[c].client = s => Carrying(s)
    BY <1>12, <2>2
  <2> QED BY <2>1, <2>3, ClientKept
<1>13. ClientsOK'
  BY <1>11, <1>12 DEF ClientsOK
<1>14. RemotesOK' /\ PoolsOK'
  <2>1. ASSUME NEW s \in Remotes, s # r PROVE RemoteOK(s)'
    <3>1. RemoteOK(s) /\ SameLoad(s)
      BY <1>2, <1>6, <2>1 DEF GatewayInv, RemotesOK, SameLoad
    <3> QED BY <1>2, <3>1, RemoteKept
  <2>2. ASSUME NEW t \in Targets PROVE PoolOK(t)'
    <3>1. PoolOK(t) /\ idle'[t] = idle[t]
      BY <1>2 DEF GatewayInv, PoolsOK
    <3>2. \A s \in Remotes : s # r => Resting(s)
      BY <1>2, <1>6 DEF Resting, SameLoad
    <3>3. \A s \in Remotes : Pooled(s, t) => Resting(s)
      BY <1>9, <3>2
    <3> QED BY <3>1, <3>3, PoolKept
  <2> QED BY <1>10, <2>1, <2>2 DEF RemotesOK, PoolsOK
<1>15. Apart'
  BY <1>2 DEF GatewayInv, Apart, Held, Used
<1> QED BY <1>7, <1>8, <1>13, <1>14, <1>15 DEF GatewayInv

(* A client that is up has only heard of backends. *)
LEMMA UpInOrder ==
  ASSUME FieldsOK, NEW c \in Clients, ClientOK(c), up[c] = "up"
  PROVE  IsPrefix(cGot[c], Answers[c])
<1> DEFINE g == cGot[c]
           A == Answers[c]
           L == Len(Plan[c])
<1>1. g \in Seq(Unit \cup {Own}) /\ Len(g) \in Nat /\ A \in Seq(Unit) /\ Len(A) \in Nat
      /\ L \in Nat
  BY AnswerFacts, PlanFacts DEF FieldsOK, ClientFields
<1>2. PICK i \in 1..(L + 1) : ClientAt(c, i)
  BY DEF ClientOK
<1>3. ~Refused(c, i)
  BY DEF Refused
<1>4. AnswerAt(c, i) \in Nat /\ AnswerAt(c, i) <= Len(A)
  <2>1. CASE i = 1
    <3>1. AnswerAt(c, i) = 0
      BY <2>1, AnswerFacts
    <3> QED BY <1>1, <3>1
  <2>2. CASE i # 1
    <3>1. PICK j \in 1..L : i = j + 1
      <4>1. i - 1 \in 1..L /\ i = (i - 1) + 1
        BY <1>1, <2>2
      <4> QED BY <4>1
    <3>2. /\ AnswerAt(c, j) \in Nat /\ AnswerAt(c, j + 1) = AnswerAt(c, j) + Reply(c, j)
          /\ AnswerAt(c, j + 1) <= Len(A)
      BY AnswerFacts
    <3>3. Reply(c, j) \in Nat
      BY PlanFacts
    <3> QED BY <3>1, <3>2, <3>3
  <2> QED BY <2>1, <2>2
<1>5. Len(g) <= Len(A) /\ g = SubSeq(A, 1, Len(g))
  <2>1. CASE Fresh(c, i)
    <3>1. Len(g) = AnswerAt(c, i) + 0 /\ g = SubSeq(A, 1, Len(g))
      BY <2>1 DEF Fresh, Has
    <3> QED BY <1>4, <3>1
  <2>2. ASSUME NEW r \in Remotes, NEW m \in Nat, NEW x \in Nat, Carried(c, r, i, m, x)
        PROVE  Len(g) <= Len(A) /\ g = SubSeq(A, 1, Len(g))
    <3>1. i \in 1..L
      BY <1>1, <2>2 DEF Carried
    <3>2. x < Reply(c, i) /\ Reply(c, i) \in Nat
      BY <2>2, <3>1, CarriedFacts
    <3>3. Len(g) = AnswerAt(c, i) + x /\ g = SubSeq(A, 1, Len(g))
      BY <2>2 DEF Carried, Has
    <3>4. AnswerAt(c, i + 1) = AnswerAt(c, i) + Reply(c, i) /\ AnswerAt(c, i + 1) <= Len(A)
      BY <3>1, AnswerFacts
    <3>5. \A a, y, R, l \in Nat : a + R <= l /\ y < R => a + y <= l
      OBVIOUS
    <3> QED BY <1>1, <1>4, <3>2, <3>3, <3>4, <3>5
  <2> QED BY <1>2, <1>3, <2>1, <2>2 DEF ClientAt
<1>6. SubSeq(g, 1, Len(g)) = g
  BY <1>1
<1> QED BY <1>5, <1>6 DEF IsPrefix

(* The gateway answers c itself and shuts the connection. *)
LEMMA OwnAnswer ==
  ASSUME FieldsOK, NEW c \in Clients, ClientOK(c), up[c] # "gone",
         cGot' = ToClient(c, <<Own>>), up' = Shut(up, c)
  PROVE  /\ up' \in [Clients -> {"up", "shut", "down", "gone"}]
         /\ cGot' \in [Clients -> Seq(Unit \cup {Own})]
         /\ InOrder(c)' /\ up'[c] \notin {"up", "gone"}
         /\ up'[c] = "shut" => cGot'[c] # <<>> /\ Last(cGot'[c]) = Own
         /\ up[c] \in {"up", "shut"} => up'[c] \in {"up", "shut"}
         /\ \A d \in Clients : d # c => up'[d] = up[d] /\ cGot'[d] = cGot[d]
<1> DEFINE g == cGot[c]
<1>1. /\ up \in [Clients -> {"up", "shut", "down", "gone"}]
      /\ cGot \in [Clients -> Seq(Unit \cup {Own})] /\ g \in Seq(Unit \cup {Own})
  BY DEF FieldsOK, ClientFields
<1>2. CASE up[c] = "up"
  <2>1. /\ cGot' = [cGot EXCEPT ![c] = @ \o <<Own>>] /\ up' = [up EXCEPT ![c] = "shut"]
    BY <1>2 DEF ToClient, Shut
  <2>2. g \o <<Own>> \in Seq(Unit \cup {Own})
    BY <1>1
  <2>3. cGot'[c] = g \o <<Own>> /\ up'[c] = "shut"
    BY <1>1, <2>1
  <2>4. /\ g \o <<Own>> # <<>> /\ Last(g \o <<Own>>) = Own /\ Front(g \o <<Own>>) = g
    BY <1>1 DEF Last, Front
  <2>5. IsPrefix(g, Answers[c])
    BY <1>2, UpInOrder
  <2>6. InOrder(c)'
    BY <2>3, <2>4, <2>5 DEF InOrder
  <2>7. /\ up' \in [Clients -> {"up", "shut", "down", "gone"}]
        /\ cGot' \in [Clients -> Seq(Unit \cup {Own})]
    BY <1>1, <2>1, <2>2
  <2>8. \A d \in Clients : d # c => up'[d] = up[d] /\ cGot'[d] = cGot[d]
    BY <1>1, <2>1
  <2> QED BY <2>3, <2>4, <2>6, <2>7, <2>8
<1>3. CASE up[c] # "up"
  <2>1. cGot' = cGot /\ up' = up
    BY <1>3 DEF ToClient, Shut
  <2>2. InOrder(c)'
    BY <2>1 DEF ClientOK, InOrder
  <2> QED BY <1>1, <1>3, <2>1, <2>2 DEF ClientOK
<1> QED BY <1>2, <1>3

(* ClientDown: a client's connection is torn down, its RemoteClient with   *)
(* it.                                                                     *)
LEMMA ClientDownStep ==
  ASSUME GatewayInv, NEW c \in Clients, ClientDown(c) PROVE GatewayInv'
<1>1. /\ c \in ready /\ ready' = ready \ {c} /\ up' = [up EXCEPT ![c] = "down"]
      /\ closing' = closing \cup {c} /\ UNCHANGED errors
      /\ UNCHANGED <<asked, cEnd, cIn, cBuf, context, cGot>> /\ UNCHANGED peerVars
      /\ UNCHANGED remoteVars /\ UNCHANGED <<idle, stranded>>
  BY DEF ClientDown, Handling
<1>2. /\ asked' = asked /\ cIn' = cIn /\ cBuf' = cBuf /\ context' = context /\ cGot' = cGot
      /\ said' = said /\ bIn' = bIn /\ link' = link /\ addr' = addr /\ bGot' = bGot
      /\ pending' = pending /\ bound' = bound /\ busy' = busy /\ bBuf' = bBuf
      /\ idle' = idle
  BY <1>1 DEF peerVars, remoteVars
<1>3. up'[c] = "down" /\ \A d \in Clients : d # c => up'[d] = up[d]
  BY <1>1 DEF GatewayInv, FieldsOK, ClientFields
<1>4. FieldsOK'
  <2>1. ClientFields'
    BY <1>1 DEF GatewayInv, FieldsOK, ClientFields
  <2>2. LoopFields'
    BY <1>1 DEF GatewayInv, FieldsOK, LoopFields
  <2> QED BY <1>1, <2>1, <2>2, FieldsKept DEF GatewayInv, FieldsOK
<1>5. LoopOK'
  BY <1>1, <1>3 DEF GatewayInv, LoopOK
<1>6. \A s \in Remotes : Carrying(s)
  BY <1>2 DEF Carrying, SameLink, SameLoad
<1>7. ClientOK(c)'
  <2>1. ClientOK(c) /\ up[c] # "gone"
    BY <1>1 DEF GatewayInv, ClientsOK, LoopOK
  <2>2. PICK i \in 1..(Len(Plan[c]) + 1) : ClientAt(c, i)
    BY <2>1 DEF ClientOK
  <2>3. SameInput(c) /\ SameOutput(c)
    BY <1>2, <1>3 DEF SameInput, SameOutput
  <2>4. ClientAt(c, i)'
    BY <1>6, <2>2, <2>3, ClientStays
  <2>5. InOrder(c)'
    BY <1>2, <2>1 DEF ClientOK, InOrder
  <2> QED BY <1>3, <2>4, <2>5 DEF ClientOK
<1>8. ASSUME NEW d \in Clients, d # c PROVE ClientOK(d)'
  <2>1. ClientOK(d) /\ SameInput(d) /\ up'[d] = up[d] /\ cGot'[d] = cGot[d]
    BY <1>2, <1>3, <1>8 DEF GatewayInv, ClientsOK, SameInput
  <2> QED BY <1>6, <2>1, ClientKept
<1>9. ClientsOK'
  BY <1>7, <1>8 DEF ClientsOK
<1>10. RemotesOK'
  BY <1>2 DEF GatewayInv, RemotesOK, RemoteOK
<1>11. PoolsOK'
  BY <1>2 DEF GatewayInv, PoolsOK, PoolOK, Pooled, Idle
<1>12. Apart'
  BY <1>2 DEF GatewayInv, Apart, Held, Used
<1> QED BY <1>4, <1>5, <1>9, <1>10, <1>11, <1>12 DEF GatewayInv

(* RemoteDown: a backend's connection is torn down; its client gets an     *)
(* answer of the gateway's own.                                            *)
LEMMA RemoteDownStep ==
  ASSUME GatewayInv, NEW r \in Remotes, RemoteDown(r) PROVE GatewayInv'
<1>1. /\ link[r] \in {"up", "shut"} /\ link' = [link EXCEPT ![r] = "down"]
      /\ errors' = errors \cup {r} /\ ready' = ready \ {r} /\ UNCHANGED closing
      /\ IF busy[r] /\ up[bound[r]] # "gone"
           THEN cGot' = ToClient(bound[r], <<Own>>) /\ up' = Shut(up, bound[r])
           ELSE UNCHANGED <<cGot, up>>
      /\ UNCHANGED <<asked, cEnd, cIn, cBuf, context>> /\ UNCHANGED peerVars
      /\ UNCHANGED <<addr, bound, busy, pending, bGot, bBuf>> /\ UNCHANGED <<idle, stranded>>
  BY DEF RemoteDown, Handling
<1>2. /\ asked' = asked /\ cIn' = cIn /\ cBuf' = cBuf /\ context' = context
      /\ said' = said /\ bIn' = bIn /\ addr' = addr /\ bGot' = bGot
      /\ pending' = pending /\ bound' = bound /\ busy' = busy /\ bBuf' = bBuf
      /\ idle' = idle
  BY <1>1 DEF peerVars
<1>3. link'[r] = "down" /\ \A s \in Remotes : s # r => link'[s] = link[s]
  BY <1>1 DEF GatewayInv, FieldsOK, RemoteFields
<1>4. RemoteOK(r) /\ link[r] = "up"
  <2>1. RemoteOK(r)
    BY DEF GatewayInv, RemotesOK
  <2> QED BY <1>1, <2>1 DEF RemoteOK
<1>5. \A s \in Remotes : Carrying(s) /\ Resting(s)
  BY <1>2, <1>3 DEF Carrying, Resting, SameLink, SameLoad
<1>6. \A d \in Clients : SameInput(d) /\ ClientOK(d)
  BY <1>2 DEF GatewayInv, ClientsOK, SameInput
<1>7. /\ up' \in [Clients -> {"up", "shut", "down", "gone"}]
      /\ cGot' \in [Clients -> Seq(Unit \cup {Own})]
      /\ \A d \in Clients : up[d] \in {"up", "shut"} => up'[d] \in {"up", "shut"}
      /\ ClientsOK'
  <2>1. CASE busy[r]
    <3>1. bound[r] \in Clients /\ context[bound[r]].client = r
      BY <1>4, <2>1 DEF RemoteOK
    <3>2. PICK c \in Clients : c = bound[r] /\ context[c].client = r
      BY <3>1
    <3>3. up[c] # "gone"
      BY <3>2, HolderFacts DEF GatewayInv
    <3>4. cGot' = ToClient(c, <<Own>>) /\ up' = Shut(up, c)
      BY <1>1, <2>1, <3>2, <3>3
    <3>5. /\ up' \in [Clients -> {"up", "shut", "down", "gone"}]
          /\ cGot' \in [Clients -> Seq(Unit \cup {Own})]
          /\ InOrder(c)' /\ up'[c] \notin {"up", "gone"}
          /\ up'[c] = "shut" => cGot'[c] # <<>> /\ Last(cGot'[c]) = Own
          /\ up[c] \in {"up", "shut"} => up'[c] \in {"up", "shut"}
          /\ \A d \in Clients : d # c => up'[d] = up[d] /\ cGot'[d] = cGot[d]
      <4>1. FieldsOK /\ ClientOK(c)
        BY <1>6 DEF GatewayInv
      <4> QED BY <3>3, <3>4, <4>1, OwnAnswer
    <3>6. ClientOK(c)'
      <4>1. PICK i \in 1..(Len(Plan[c]) + 1) : ClientAt(c, i)
        BY <1>6, <3>3 DEF ClientOK
      <4>2. SameInput(c) /\ SameOutput(c)
        BY <1>6, <3>5 DEF SameOutput
      <4>3. ClientAt(c, i)'
        BY <1>5, <4>1, <4>2, ClientStays
      <4> QED BY <3>5, <4>3 DEF ClientOK
    <3>7. ASSUME NEW d \in Clients, d # c PROVE ClientOK(d)'
      BY <1>5, <1>6, <3>5, <3>7, ClientKept
    <3>8. ClientsOK'
      BY <3>6, <3>7 DEF ClientsOK
    <3>9. \A d \in Clients : up[d] \in {"up", "shut"} => up'[d] \in {"up", "shut"}
      BY <3>5
    <3> QED BY <3>5, <3>8, <3>9
  <2>2. CASE ~busy[r]
    <3>1. up' = up /\ cGot' = cGot
      BY <1>1, <2>2
    <3>2. ASSUME NEW d \in Clients PROVE ClientOK(d)'
      BY <1>5, <1>6, <3>1, ClientKept
    <3>3. ClientsOK'
      BY <3>2 DEF ClientsOK
    <3> QED BY <3>1, <3>3 DEF GatewayInv, FieldsOK, ClientFields
  <2> QED BY <2>1, <2>2
<1>8. FieldsOK'
  <2>1. ClientFields'
    BY <1>1, <1>7 DEF GatewayInv, FieldsOK, ClientFields
  <2>2. LoopFields'
    BY <1>1 DEF GatewayInv, FieldsOK, LoopFields
  <2>3. RemoteFields'
    BY <1>1 DEF GatewayInv, FieldsOK, RemoteFields, Links
  <2> QED BY <1>1, <2>1, <2>2, <2>3, FieldsKept DEF GatewayInv, FieldsOK
<1>9. LoopOK'
  BY <1>1, <1>7 DEF GatewayInv, LoopOK
<1>10. RemotesOK'
  <2>1. RemoteOK(r)'
    BY <1>2, <1>3, <1>4 DEF RemoteOK, Trying
  <2>2. ASSUME NEW s \in Remotes, s # r PROVE RemoteOK(s)'
    <3>1. RemoteOK(s) /\ SameLoad(s)
      BY <1>2 DEF GatewayInv, RemotesOK, SameLoad
    <3> QED BY <1>2, <1>3, <2>2, <3>1, RemoteKept
  <2> QED BY <2>1, <2>2 DEF RemotesOK
<1>11. PoolsOK'
  <2>1. ASSUME NEW t \in Targets PROVE PoolOK(t)'
    <3>1. PoolOK(t)
      BY DEF GatewayInv, PoolsOK
    <3> QED BY <1>2, <1>5, <3>1, PoolKept
  <2> QED BY <2>1 DEF PoolsOK
<1>12. Apart'
  BY <1>2 DEF GatewayInv, Apart, Held, Used
<1> QED BY <1>7, <1>8, <1>9, <1>10, <1>11, <1>12 DEF GatewayInv

-----------------------------------------------------------------------------
(* What a client sends.                                                    *)

(* The next unit is of the request it is at. *)
LEMMA FacingMore ==
  ASSUME FieldsOK, NEW c \in Clients, NEW i \in 1..Len(Plan[c]), NEW m \in Nat,
         Facing(c, i, m), asked[c] < AskAt(c, i) + Size(c, i),
         asked'[c] = asked[c] + 1, cBuf'[c] = cBuf[c],
         cIn'[c] = Append(cIn[c], Asks[c][asked[c] + 1])
  PROVE  Facing(c, i, m)'
<1>1. PICK n \in Nat : /\ asked[c] = AskAt(c, i) + m + n
                       /\ n > 0 => i <= Len(Plan[c]) /\ m + n <= Size(c, i)
                       /\ cBuf[c] \o cIn[c] = Part(c, i, m, n)
  BY DEF Facing
<1>2. /\ AskAt(c, i) \in Nat
      /\ \A k \in 1..Size(c, i) : Asks[c][AskAt(c, i) + k] = <<c, i, k - 1>>
  BY AskFacts
<1>3. Size(c, i) \in Nat /\ i \in Nat
  BY PlanFacts
<1>4. asked[c] \in Nat /\ cBuf[c] \in Seq(Unit) /\ cIn[c] \in Seq(Unit)
  BY DEF FieldsOK, ClientFields
<1>5. PICK k \in 1..Size(c, i) : k = m + n + 1
  <2>1. m + n + 1 \in 1..Size(c, i)
    BY <1>1, <1>2, <1>3
  <2> QED BY <2>1
<1>6. Asks[c][asked[c] + 1] = <<c, i, m + n>>
  <2>1. asked[c] + 1 = AskAt(c, i) + k /\ k - 1 = m + n
    BY <1>1, <1>2, <1>5
  <2> QED BY <1>2, <2>1
<1>7. PICK z, u : z = n + 1 /\ u = <<c, i, m + n>>
  OBVIOUS
<1>8. Part(c, i, m, z) = Append(Part(c, i, m, n), u)
  BY <1>3, <1>7, PartAppend, SMTT(60)
<1>9. cBuf'[c] \o cIn'[c] = Append(cBuf[c] \o cIn[c], u)
  <2>1. \A a, b \in Seq(Unit) : \A e \in Unit : a \o Append(b, e) = Append(a \o b, e)
    OBVIOUS
  <2>2. u \in Unit
    BY <1>3, <1>7, SMTT(60) DEF Unit
  <2>3. cIn'[c] = Append(cIn[c], u) /\ cBuf'[c] = cBuf[c]
    BY <1>6, <1>7
  <2>4. cBuf[c] \o Append(cIn[c], u) = Append(cBuf[c] \o cIn[c], u)
    BY <1>4, <2>1, <2>2
  <2> QED BY <2>3, <2>4
<1>10. cBuf'[c] \o cIn'[c] = Part(c, i, m, z)
  BY <1>1, <1>8, <1>9
<1>11. z \in Nat /\ asked'[c] = AskAt(c, i) + m + z /\ m + z <= Size(c, i)
  BY <1>1, <1>2, <1>3, <1>5, <1>7
<1>12. i <= Len(Plan[c])
  BY PlanFacts
<1> QED BY <1>10, <1>11, <1>12 DEF Facing

(* A client has sent no more than the request that is under way.           *)
LEMMA FacingBound ==
  ASSUME NEW c \in Clients, NEW i \in 1..Len(Plan[c]), NEW m \in Nat,
         Facing(c, i, m), m <= Size(c, i)
  PROVE  asked[c] <= AskAt(c, i) + Size(c, i)
<1>1. PICK n \in Nat : /\ asked[c] = AskAt(c, i) + m + n
                       /\ n > 0 => m + n <= Size(c, i)
  BY DEF Facing
<1>2. AskAt(c, i) \in Nat /\ Size(c, i) \in Nat
  BY AskFacts, PlanFacts
<1> QED BY <1>1, <1>2

(* The last unit it has got does not end the answer to that request. *)
LEMMA LastGot ==
  ASSUME FieldsOK, NEW c \in Clients, NEW i \in 1..Len(Plan[c]), NEW x \in Nat,
         Has(c, i, x), up[c] = "up", x < Reply(c, i), cGot[c] # <<>>, IsLast(Last(cGot[c]))
  PROVE  Last(cGot[c])[2] # i
<1> DEFINE g == cGot[c]
<1>1. /\ Len(g) = AnswerAt(c, i) + x /\ g = SubSeq(Answers[c], 1, Len(g))
      /\ g \in Seq(Unit \cup {Own})
  BY DEF Has, FieldsOK, ClientFields
<1>2. /\ Answers[c] \in Seq(Unit) /\ Len(Answers[c]) \in Nat /\ AnswerAt(c, 1) = 0
      /\ \A j \in 1..Len(Plan[c]) :
              /\ AnswerAt(c, j) \in Nat /\ AnswerAt(c, j + 1) = AnswerAt(c, j) + Reply(c, j)
              /\ AnswerAt(c, j + 1) <= Len(Answers[c])
              /\ \A k \in 1..Reply(c, j) : Answers[c][AnswerAt(c, j) + k] = <<c, j, k - 1>>
  BY AnswerFacts
<1>3. Reply(c, i) \in Nat /\ Len(g) \in Nat /\ Len(g) > 0 /\ Len(Plan[c]) \in Nat
  BY <1>1, PlanFacts
<1>4. Len(g) <= Len(Answers[c])
  BY <1>1, <1>2, <1>3
<1>5. Last(g) = Answers[c][AnswerAt(c, i) + x]
  <2>1. Len(g) \in 1..Len(g)
    BY <1>3
  <2>2. SubSeq(Answers[c], 1, Len(g))[Len(g)] = Answers[c][Len(g)]
    BY <1>2, <1>3, <1>4, <2>1
  <2> QED BY <1>1, <2>2 DEF Last
<1> HIDE DEF g
<1>6. CASE x > 0
  <2>1. x \in 1..Reply(c, i)
    BY <1>3, <1>6
  <2>2. Last(g) = <<c, i, x - 1>>
    BY <1>2, <1>5, <2>1
  <2>3. Last(g)[1] = c /\ Last(g)[2] = i /\ Last(g)[3] = x - 1
    BY <2>2
  <2>4. x - 1 = Plan[c][i].answer
    BY <2>3 DEF IsLast, g
  <2>5. x = Reply(c, i)
    BY <2>4, PlanFacts DEF Reply
  <2> QED BY <1>3, <2>5
<1>7. CASE x = 0
  <2>1. AnswerAt(c, i) > 0 /\ i # 1
    BY <1>1, <1>2, <1>3, <1>7
  <2>2. PICK j \in 1..Len(Plan[c]) : i = j + 1
    <3>1. i - 1 \in 1..Len(Plan[c]) /\ i = (i - 1) + 1
      BY <1>3, <2>1
    <3> QED BY <3>1
  <2>3. Reply(c, j) \in Nat \ {0}
    BY PlanFacts
  <2>4. Reply(c, j) \in 1..Reply(c, j)
    BY <2>3
  <2>5. AnswerAt(c, j) \in Nat /\ AnswerAt(c, i) = AnswerAt(c, j) + Reply(c, j)
    BY <1>2, <2>2
  <2>6. Answers[c][AnswerAt(c, j) + Reply(c, j)] = <<c, j, Reply(c, j) - 1>>
    BY <1>2, <2>4
  <2>7. AnswerAt(c, i) + x = AnswerAt(c, j) + Reply(c, j)
    BY <1>2, <1>7, <2>5
  <2>8. Last(g) = <<c, j, Reply(c, j) - 1>>
    BY <1>5, <2>6, <2>7
  <2>9. Last(g)[2] = j
    BY <2>8
  <2> QED BY <2>2, <2>9 DEF g
<1> QED BY <1>6, <1>7

(* While it is at a request it sends no more than that. *)
LEMMA NoneBeyond ==
  ASSUME FieldsOK, NEW c \in Clients, ClientOK(c), up[c] \in {"up", "shut"},
         NEW i \in 1..(Len(Plan[c]) + 1), ClientAt(c, i), ClientSends(c)
  PROVE  i \in 1..Len(Plan[c]) /\ asked[c] < AskAt(c, i) + Size(c, i)
<1> DEFINE L == Len(Plan[c])
           g == cGot[c]
<1>1. L \in Nat /\ asked[c] \in Nat /\ asked[c] < Len(Asks[c])
  BY PlanFacts DEF FieldsOK, ClientFields, ClientSends
<1>2. /\ AskAt(c, L + 1) = Len(Asks[c])
      /\ \A j \in 1..L :
           /\ AskAt(c, j) \in Nat /\ AskAt(c, j + 1) = AskAt(c, j) + Size(c, j)
           /\ \A k \in 1..Size(c, j) : Asks[c][AskAt(c, j) + k] = <<c, j, k - 1>>
  BY AskFacts
<1>3. i \in 1..L
  <2>1. ASSUME i = L + 1 PROVE FALSE
    <3>1. \A r, m, x : ~Carried(c, r, i, m, x)
      BY <1>1, <2>1 DEF Carried
    <3>2. Facing(c, i, 0)
      BY <3>1 DEF ClientAt, Fresh, Refused
    <3>3. PICK n \in Nat : asked[c] = AskAt(c, i) + 0 + n /\ ~(n > 0)
      BY <1>1, <2>1, <3>2 DEF Facing
    <3>4. asked[c] = AskAt(c, i) + 0 + 0
      BY <3>3
    <3>5. Len(Asks[c]) \in Nat
      BY AskFacts
    <3> QED BY <1>1, <1>2, <2>1, <3>4, <3>5
  <2> QED BY <1>1, <2>1
<1>4. ASSUME ~(asked[c] < AskAt(c, i) + Size(c, i)) PROVE FALSE
  <2>1. Size(c, i) \in Nat \ {0} /\ Reply(c, i) \in Nat \ {0} /\ AskAt(c, i) \in Nat
    BY <1>2, <1>3, PlanFacts
  <2>2. /\ \E m \in Nat : Facing(c, i, m) /\ m <= Size(c, i)
        /\ up[c] = "up" => \E x \in Nat : Has(c, i, x) /\ x < Reply(c, i)
    <3>1. CASE Fresh(c, i)
      BY <2>1, <3>1 DEF Fresh
    <3>2. CASE Refused(c, i)
      BY <2>1, <3>2 DEF Refused
    <3>3. ASSUME NEW r \in Remotes, NEW m \in Nat, NEW x \in Nat, Carried(c, r, i, m, x)
          PROVE  /\ \E k \in Nat : Facing(c, i, k) /\ k <= Size(c, i)
                 /\ up[c] = "up" => \E y \in Nat : Has(c, i, y) /\ y < Reply(c, i)
      <4>1. m <= Size(c, i) /\ x < Reply(c, i)
        BY <1>3, <3>3, CarriedFacts
      <4>2. Facing(c, i, m) /\ Has(c, i, x)
        BY <3>3 DEF Carried
      <4> QED BY <4>1, <4>2
    <3> QED BY <3>1, <3>2, <3>3 DEF ClientAt
  <2>3. asked[c] = AskAt(c, i) + Size(c, i)
    <3>1. asked[c] <= AskAt(c, i) + Size(c, i)
      BY <1>3, <2>2, FacingBound
    <3> QED BY <1>1, <1>4, <2>1, <3>1
  <2>4. asked[c] = AskAt(c, i + 1) /\ i + 1 \in 1..L
    <3>1. asked[c] = AskAt(c, i + 1)
      BY <1>2, <1>3, <2>3
    <3>2. i # L
      BY <1>1, <1>2, <3>1
    <3> QED BY <1>1, <1>3, <3>1, <3>2
  <2>5. PICK j \in 1..L : j = i + 1
    BY <2>4
  <2>6. Asks[c][asked[c] + 1] = <<c, j, 0>>
    <3>1. 1 \in 1..Size(c, j) /\ 1 - 1 = 0
      BY PlanFacts
    <3>2. Asks[c][AskAt(c, j) + 1] = <<c, j, 1 - 1>>
      BY <1>2, <3>1
    <3> QED BY <2>4, <2>5, <3>1, <3>2
  <2>7. PICK u : u = Asks[c][asked[c] + 1]
    OBVIOUS
  <2>8. u[3] = 0 /\ u[2] = j /\ j > 1 /\ j - 1 = i
    BY <1>3, <2>5, <2>6, <2>7
  <2>9. g # <<>> /\ IsLast(Last(g)) /\ Last(g)[2] = i
    <3>1. u[3] = 0 /\ u[2] > 1 => g # <<>> /\ IsLast(Last(g)) /\ Last(g)[2] = u[2] - 1
      BY <2>7 DEF ClientSends
    <3> QED BY <2>8, <3>1
  <2>10. CASE up[c] = "shut"
    <3>1. Last(g) = Own
      BY <2>10 DEF ClientOK
    <3> QED BY <2>9, <3>1 DEF IsLast
  <2>11. CASE up[c] = "up"
    <3>1. PICK x \in Nat : Has(c, i, x) /\ x < Reply(c, i)
      BY <2>2, <2>11
    <3> QED BY <1>3, <2>9, <2>11, <3>1, LastGot
  <2> QED BY <2>10, <2>11
<1> QED BY <1>3, <1>4

(* ClientSends: a client sends the next unit of a request, if the answer   *)
(* to the one before has come.                                             *)
LEMMA ClientSendsStep ==
  ASSUME GatewayInv, NEW c \in Clients, ClientSends(c) PROVE GatewayInv'
<1>1. /\ up[c] \in {"up", "shut"} /\ asked[c] < Len(Asks[c])
      /\ cIn' = [cIn EXCEPT ![c] = Append(@, Asks[c][asked[c] + 1])]
      /\ asked' = [asked EXCEPT ![c] = @ + 1] /\ UNCHANGED loopVars
      /\ UNCHANGED <<up, cEnd, cBuf, context, cGot>> /\ UNCHANGED peerVars
      /\ UNCHANGED remoteVars /\ UNCHANGED <<idle, stranded>>
  BY DEF ClientSends
<1>2. /\ up' = up /\ cBuf' = cBuf /\ context' = context /\ cGot' = cGot /\ ready' = ready
      /\ said' = said /\ bIn' = bIn /\ link' = link /\ addr' = addr /\ bGot' = bGot
      /\ pending' = pending /\ bound' = bound /\ busy' = busy /\ bBuf' = bBuf
      /\ idle' = idle
  BY <1>1 DEF peerVars, remoteVars, loopVars
<1>3. FieldsOK /\ ClientOK(c) /\ asked[c] \in Nat /\ cIn[c] \in Seq(Unit)
      /\ cBuf[c] \in Seq(Unit)
  BY DEF GatewayInv, FieldsOK, ClientFields, ClientsOK
<1>4. Asks[c][asked[c] + 1] \in Unit
  <2>1. Asks[c] \in Seq(Unit) /\ Len(Asks[c]) \in Nat
    BY AskFacts
  <2>2. asked[c] + 1 \in 1..Len(Asks[c])
    BY <1>1, <1>3, <2>1
  <2> QED BY <2>1, <2>2
<1>5. /\ asked'[c] = asked[c] + 1 /\ cIn'[c] = Append(cIn[c], Asks[c][asked[c] + 1])
      /\ cBuf'[c] = cBuf[c]
      /\ \A d \in Clients : d # c => asked'[d] = asked[d] /\ cIn'[d] = cIn[d]
  BY <1>1 DEF GatewayInv, FieldsOK, ClientFields
<1>6. FieldsOK'
  <2>1. Append(cIn[c], Asks[c][asked[c] + 1]) \in Seq(Unit) /\ asked[c] + 1 \in Nat
    BY <1>3, <1>4
  <2>2. ClientFields'
    BY <1>1, <2>1 DEF GatewayInv, FieldsOK, ClientFields
  <2> QED BY <1>1, <2>2, FieldsKept DEF GatewayInv, FieldsOK
<1>7. LoopOK'
  BY <1>2 DEF GatewayInv, LoopOK
<1>8. ClientOK(c)'
  <2>1. PICK i \in 1..(Len(Plan[c]) + 1) : ClientAt(c, i)
    BY <1>1, <1>3 DEF ClientOK
  <2>2. i \in 1..Len(Plan[c]) /\ asked[c] < AskAt(c, i) + Size(c, i)
    BY <1>1, <1>3, <2>1, NoneBeyond
  <2>3. \A m \in Nat : Facing(c, i, m) => Facing(c, i, m)'
    BY <1>3, <1>5, <2>2, FacingMore
  <2>4. \A x : Has(c, i, x) => Has(c, i, x)'
    BY <1>2 DEF Has
  <2>5. CASE Fresh(c, i)
    <3>1. Facing(c, i, 0)' /\ Has(c, i, 0)'
      BY <2>3, <2>4, <2>5 DEF Fresh
    <3>2. Fresh(c, i)'
      BY <1>2, <2>5, <3>1 DEF Fresh
    <3> QED BY <1>1, <1>2, <1>3, <2>1, <3>2, ClientMoves DEF ClientAt
  <2>6. CASE Refused(c, i)
    <3>1. Facing(c, i, 0)'
      BY <2>3, <2>6 DEF Refused
    <3>2. Refused(c, i)'
      BY <1>2, <2>6, <3>1 DEF Refused
    <3> QED BY <1>1, <1>2, <1>3, <2>1, <3>2, ClientMoves DEF ClientAt
  <2>7. ASSUME NEW r \in Remotes, NEW m \in Nat, NEW x \in Nat, Carried(c, r, i, m, x)
        PROVE  ClientOK(c)'
    <3>1. Facing(c, i, m)' /\ Has(c, i, x)'
      BY <2>3, <2>4, <2>7 DEF Carried
    <3>2. Holding(c, r, i, m, x)'
      BY <1>2, <2>7 DEF Carried, Holding
    <3>3. Carried(c, r, i, m, x)'
      BY <1>2, <2>7, <3>1, <3>2 DEF Carried
    <3>4. ClientAt(c, i)'
      BY <3>3 DEF ClientAt
    <3> QED BY <1>1, <1>2, <1>3, <2>1, <3>4, ClientMoves
  <2> QED BY <2>1, <2>5, <2>6, <2>7 DEF ClientAt
<1>9. ClientsOK' /\ RemotesOK' /\ PoolsOK'
  <2>1. Elsewhere(c, None)
    BY <1>2, <1>5 DEF Elsewhere, SameInput, SameLoad
  <2>2. ASSUME NEW d \in Clients, d # c PROVE ClientOK(d)'
    <3>1. ClientOK(d) /\ SameInput(d) /\ up'[d] = up[d] /\ cGot'[d] = cGot[d]
      BY <2>1, <2>2 DEF GatewayInv, ClientsOK, Elsewhere
    <3>2. \A s \in Remotes : Carrying(s)
      BY <1>2 DEF Carrying, SameLink, SameLoad
    <3> QED BY <3>1, <3>2, ClientKept
  <2>3. RemotesOK'
    BY <1>2 DEF GatewayInv, RemotesOK, RemoteOK
  <2>4. PoolsOK'
    BY <1>2 DEF GatewayInv, PoolsOK, PoolOK, Pooled, Idle
  <2> QED BY <1>8, <2>2, <2>3, <2>4 DEF ClientsOK
<1>10. Apart'
  <2>1. Used(c)' >= Used(c)
    <3>1. Len(cIn'[c]) = Len(cIn[c]) + 1 /\ Len(cIn[c]) \in Nat /\ Len(cBuf[c]) \in Nat
      BY <1>3, <1>4, <1>5
    <3> QED BY <1>3, <1>5, <3>1 DEF Used
  <2>2. ASSUME NEW d \in Clients, d # c PROVE Used(d)' >= Used(d)
    <3>1. Used(d)' = Used(d) /\ Used(d) \in Int
      BY <1>2, <1>3, <1>5, <2>2, HeldTyped DEF Used
    <3> QED BY <3>1
  <2>3. \A s \in Remotes : Held(s)' \subseteq Held(s)
    BY <1>2 DEF Held
  <2> QED BY <1>3, <1>6, <2>1, <2>2, <2>3, ApartKept DEF GatewayInv
<1> QED BY <1>6, <1>7, <1>9, <1>10 DEF GatewayInv

-----------------------------------------------------------------------------
(* What is read from a client.                                             *)

(* A request is there from its head on. *)
LEMMA HeadRead ==
  ASSUME FieldsOK, NEW c \in Clients, NEW i \in 1..(Len(Plan[c]) + 1), Facing(c, i, 0),
         cBuf[c] \o cIn[c] # <<>>
  PROVE  /\ i \in 1..Len(Plan[c]) /\ (cBuf[c] \o cIn[c])[1] = <<c, i, 0>>
         /\ \E n \in Nat : /\ n > 0 /\ n <= Size(c, i) /\ asked[c] = AskAt(c, i) + n
                           /\ cBuf[c] \o cIn[c] = Part(c, i, 0, n)
<1>1. PICK n \in Nat : /\ asked[c] = AskAt(c, i) + 0 + n
                       /\ n > 0 => i <= Len(Plan[c]) /\ 0 + n <= Size(c, i)
                       /\ cBuf[c] \o cIn[c] = Part(c, i, 0, n)
  BY DEF Facing
<1>2. i \in Nat /\ Len(Plan[c]) \in Nat
  BY PlanFacts
<1>3. IsPart(Part(c, i, 0, n), c, i, 0, n)
  BY <1>2, PartFacts
<1>4. n > 0
  BY <1>1, <1>3 DEF IsPart
<1>5. i \in 1..Len(Plan[c])
  BY <1>1, <1>2, <1>4
<1>6. Part(c, i, 0, n)[1] = <<c, i, 0 + 1 - 1>>
  BY <1>3, <1>4 DEF IsPart
<1>7. AskAt(c, i) \in Nat
  BY <1>5, AskFacts
<1>8. asked[c] = AskAt(c, i) + n /\ n <= Size(c, i)
  BY <1>1, <1>4, <1>7
<1>9. (cBuf[c] \o cIn[c])[1] = <<c, i, 0>>
  BY <1>1, <1>6
<1> QED BY <1>1, <1>4, <1>5, <1>8, <1>9

(* Of a request that is being carried, what is there is of its body. *)
LEMMA BodyRead ==
  ASSUME FieldsOK, NEW c \in Clients, NEW r, NEW i \in 1..Len(Plan[c]), NEW m \in Nat,
         NEW x \in Nat, Carried(c, r, i, m, x), cIn[c] # <<>>
  PROVE  /\ ExpectingBody(context[c]) /\ x = 0
         /\ \E n \in Nat : /\ n > 0 /\ m + n <= Size(c, i)
                           /\ asked[c] = AskAt(c, i) + m + n
                           /\ cIn[c] = Part(c, i, m, n)
<1>1. cBuf[c] = <<>> /\ cIn[c] \in Seq(Unit)
  BY DEF Carried, FieldsOK, ClientFields
<1>2. cBuf[c] \o cIn[c] = cIn[c]
  BY <1>1
<1>3. PICK n \in Nat : /\ asked[c] = AskAt(c, i) + m + n
                       /\ n > 0 => m + n <= Size(c, i)
                       /\ cIn[c] = Part(c, i, m, n)
  BY <1>2 DEF Carried, Facing
<1>4. IsPart(Part(c, i, m, n), c, i, m, n)
  BY PartFacts
<1>5. n > 0
  BY <1>3, <1>4 DEF IsPart
<1>6. m # Plan[c][i].body + 1
  <2>1. Plan[c][i].body \in Nat
    BY PlanFacts
  <2> QED BY <1>3, <1>5, <2>1 DEF Size
<1>7. context[c].state = "kExpectBody" /\ x = 0
  BY <1>6 DEF Carried, Parsed
<1> QED BY <1>3, <1>5, <1>7 DEF ExpectingBody

(* A request that is due or was refused is the one that is there. *)
LEMMA HeadDue ==
  ASSUME FieldsOK, NEW c \in Clients, NEW i \in 1..(Len(Plan[c]) + 1), ClientAt(c, i),
         cIn[c] # <<>>, context[c].client = None \/ ~ExpectingBody(context[c])
  PROVE  /\ Fresh(c, i) \/ Refused(c, i)
         /\ cBuf[c] \o cIn[c] # <<>> /\ cBuf[c] \o cIn[c] \in Seq(Unit)
<1>1. cBuf[c] \in Seq(Unit) /\ cIn[c] \in Seq(Unit)
  BY DEF FieldsOK, ClientFields
<1>2. cBuf[c] \o cIn[c] # <<>> /\ cBuf[c] \o cIn[c] \in Seq(Unit)
  BY <1>1
<1>3. ASSUME NEW r \in Remotes, NEW m \in Nat, NEW x \in Nat, Carried(c, r, i, m, x)
      PROVE  FALSE
  <2>1. i \in 1..Len(Plan[c])
    BY <1>3, PlanFacts DEF Carried
  <2>2. ExpectingBody(context[c])
    BY <1>3, <2>1, BodyRead
  <2>3. context[c].client # None
    BY <1>3, NoneIsNobody DEF Carried
  <2> QED BY <2>2, <2>3
<1> QED BY <1>2, <1>3 DEF ClientAt

(* ClientRefused: a request is answered by the gateway itself.             *)
LEMMA ClientRefusedStep ==
  ASSUME GatewayInv, NEW c \in Clients, ClientRefused(c) PROVE GatewayInv'
<1> DEFINE buf == cBuf[c] \o cIn[c]
<1>1. /\ c \in ready /\ ready' = ready \ {c} /\ cIn[c] # <<>> /\ ~ExpectingBody(context[c])
      /\ Target(c, buf) = "none" /\ cBuf' = [cBuf EXCEPT ![c] = buf]
      /\ context' = [context EXCEPT ![c] = ParseRequest(@, Plan[c][buf[1][2]].body)]
      /\ cIn' = [cIn EXCEPT ![c] = <<>>]
      /\ cGot' = ToClient(c, <<Own>>) /\ up' = Shut(up, c)
      /\ UNCHANGED <<closing, errors>> /\ UNCHANGED <<asked, cEnd>> /\ UNCHANGED peerVars
      /\ UNCHANGED remoteVars /\ UNCHANGED <<idle, stranded>>
  BY DEF ClientRefused, Handling
<1>2. /\ asked' = asked /\ said' = said /\ bIn' = bIn /\ link' = link /\ addr' = addr
      /\ bGot' = bGot /\ pending' = pending /\ bound' = bound /\ busy' = busy
      /\ bBuf' = bBuf /\ idle' = idle
  BY <1>1 DEF peerVars, remoteVars
<1>3. /\ FieldsOK /\ ClientOK(c) /\ up[c] \in {"up", "shut"} /\ context[c] \in Context
      /\ cBuf[c] \in Seq(Unit) /\ cIn[c] \in Seq(Unit) /\ asked[c] \in Nat
  BY <1>1 DEF GatewayInv, ClientsOK, LoopOK, FieldsOK, ClientFields
<1>4. PICK i \in 1..(Len(Plan[c]) + 1) : ClientAt(c, i)
  BY <1>3 DEF ClientOK
<1>5. (Fresh(c, i) \/ Refused(c, i)) /\ buf # <<>> /\ buf \in Seq(Unit)
  BY <1>1, <1>3, <1>4, HeadDue
<1>6. Facing(c, i, 0) /\ context[c].client = None
  BY <1>5 DEF Fresh, Refused
<1>7. i \in 1..Len(Plan[c]) /\ buf[1] = <<c, i, 0>>
  BY <1>3, <1>5, <1>6, HeadRead
<1>8. buf[1][2] = i
  BY <1>7
<1> HIDE DEF buf
<1>9. Plan[c][i].kind # "im" /\ Plan[c][i].body \in Nat
  <2>1. Plan[c][i].kind # "im"
    BY <1>1, <1>8 DEF Target
  <2> QED BY <1>7, <2>1, PlanFacts
<1> DEFINE p == ParseRequest(context[c], Plan[c][i].body)
<1>10. /\ p \in Context /\ p.client = None
       /\ p.state = IF Plan[c][i].body > 0 THEN "kExpectBody" ELSE "kGotAll"
  <2>1. None \in Remotes \cup {None}
    OBVIOUS
  <2> QED BY <1>3, <1>6, <1>9, <2>1, RequestFacts
<1>11. /\ context'[c] = p /\ cBuf'[c] = buf /\ cIn'[c] = <<>>
       /\ \A d \in Clients : d # c => /\ context'[d] = context[d] /\ cBuf'[d] = cBuf[d]
                                      /\ cIn'[d] = cIn[d]
  BY <1>1, <1>8 DEF GatewayInv, FieldsOK, ClientFields
<1> HIDE DEF p
<1>12. /\ up' \in [Clients -> {"up", "shut", "down", "gone"}]
       /\ cGot' \in [Clients -> Seq(Unit \cup {Own})]
       /\ InOrder(c)' /\ up'[c] \notin {"up", "gone"}
       /\ up'[c] = "shut" => cGot'[c] # <<>> /\ Last(cGot'[c]) = Own
       /\ up[c] \in {"up", "shut"} => up'[c] \in {"up", "shut"}
       /\ \A d \in Clients : d # c => up'[d] = up[d] /\ cGot'[d] = cGot[d]
  <2>1. FieldsOK /\ ClientOK(c) /\ up[c] # "gone"
    BY <1>3
  <2> QED BY <1>1, <2>1, OwnAnswer
<1>13. FieldsOK'
  <2>1. /\ context' = [context EXCEPT ![c] = p] /\ <<>> \in Seq(Unit)
    BY <1>1, <1>8 DEF p
  <2>2. ClientFields'
    BY <1>1, <1>5, <1>10, <1>12, <2>1, ZenonT(80) DEF GatewayInv, FieldsOK, ClientFields
  <2>3. LoopFields'
    BY <1>1 DEF GatewayInv, FieldsOK, LoopFields
  <2> QED BY <1>1, <2>2, <2>3, FieldsKept DEF GatewayInv, FieldsOK
<1>14. LoopOK'
  BY <1>1, <1>12 DEF GatewayInv, LoopOK
<1>15. ClientOK(c)'
  <2>1. cBuf'[c] \o cIn'[c] = cBuf[c] \o cIn[c]
    <3>1. buf \o <<>> = buf
      BY <1>5
    <3> QED BY <1>11, <3>1 DEF buf
  <2>2. Facing(c, i, 0)'
    BY <1>2, <1>6, <2>1, FacingKept
  <2>3. context'[c].state # "kExpectBody" => Plan[c][i].body = 0
    BY <1>9, <1>10, <1>11
  <2>4. Refused(c, i)'
    BY <1>5, <1>9, <1>10, <1>11, <1>12, <2>2, <2>3 DEF Refused
  <2>5. ClientAt(c, i)'
    BY <2>4 DEF ClientAt
  <2> QED BY <1>4, <1>12, <2>5 DEF ClientOK
<1>16. ClientsOK' /\ RemotesOK' /\ PoolsOK'
  <2>1. Elsewhere(c, None)
    BY <1>2, <1>11, <1>12 DEF Elsewhere, SameInput, SameLoad
  <2>2. None \notin Remotes
    BY NoneIsNobody
  <2>3. context[c].client \in {None, None}
    BY <1>6
  <2>4. /\ \A d \in Clients : d # c => ClientOK(d)'
        /\ \A s \in Remotes : s # None => RemoteOK(s)'
        /\ \A t \in Targets :
             idle'[t] = idle[t] /\ (None \in Remotes => ~Pooled(None, t)) => PoolOK(t)'
    BY <2>1, <2>2, <2>3, OthersKept
  <2> QED BY <1>2, <1>15, <2>2, <2>4 DEF ClientsOK, RemotesOK, PoolsOK
<1>17. Apart'
  <2>1. Used(c)' >= Used(c)
    <3>1. Len(buf) = Len(cBuf[c]) + Len(cIn[c]) /\ Len(cBuf[c]) \in Nat /\ Len(cIn[c]) \in Nat
      BY <1>3 DEF buf
    <3>2. Used(c)' = asked[c] - Len(buf) - 0
      BY <1>2, <1>11 DEF Used
    <3>3. \A a, b, k, l \in Nat : l = b + k => a - l - 0 >= a - b - k
      OBVIOUS
    <3>4. Len(buf) \in Nat
      BY <1>5
    <3> QED BY <1>3, <3>1, <3>2, <3>3, <3>4 DEF Used
  <2>2. ASSUME NEW d \in Clients, d # c PROVE Used(d)' >= Used(d)
    <3>1. Used(d)' = Used(d) /\ Used(d) \in Int
      BY <1>2, <1>3, <1>11, <2>2, HeldTyped DEF Used
    <3> QED BY <3>1
  <2>3. \A s \in Remotes : Held(s)' \subseteq Held(s)
    BY <1>2 DEF Held
  <2> QED BY <1>3, <1>13, <2>1, <2>2, <2>3, ApartKept DEF GatewayInv
<1> QED BY <1>13, <1>14, <1>16, <1>17 DEF GatewayInv

-----------------------------------------------------------------------------
(* What is passed on to a backend.                                         *)

(* r can be given what follows m units of c's i-th request. *)
Awaits(c, r, i, m) ==
  /\ link'[r] \in Trying \cup {"up", "down"}
  /\ link'[r] \in Trying => pending[r] = Part(c, i, 0, m)
  /\ link'[r] = "up" =>
       /\ pending[r] = <<>> /\ bIn[r] = <<>> /\ said[r] = Len(Due(bGot[r]))
       /\ m = 0 => bGot[r] = <<>> \/ Ends(bGot[r][Len(bGot[r])])
       /\ m > 0 => bGot[r] # <<>> /\ bGot[r][Len(bGot[r])] = <<c, i, m - 1>>

(* Two parts of a message that follow one another are one part.            *)
LEMMA PartFollows ==
  ASSUME NEW c \in Clients, NEW i \in Nat, NEW m \in Nat, NEW n \in Nat, NEW b \in Nat,
         b = m + n
  PROVE  Part(c, i, 0, m) \o Part(c, i, m, n) = Part(c, i, 0, b)
<1>1. PICK z \in Nat : z = 0
  OBVIOUS
<1>2. PICK h \in Nat : h <= z + m /\ z + m <= h
  OBVIOUS
<1>3. Part(c, i, z, m) \o Part(c, i, h, n) = Part(c, i, z, b)
  BY <1>2, PartMore
<1>4. h = m
  BY <1>1, <1>2
<1> QED BY <1>1, <1>3, <1>4

(* The next n units of a request are given to the RemoteClient that        *)
(* carries it: its backend has, or will have, the request up to there,     *)
(* whole and in order.                                                     *)
LEMMA PassedOn ==
  ASSUME FieldsOK, NEW c \in Clients, NEW r \in Remotes, NEW i \in 1..Len(Plan[c]),
         NEW m \in Nat, NEW n \in Nat, n > 0, m + n <= Size(c, i), Chained(bGot[r]),
         Awaits(c, r, i, m), NEW units, units = Part(c, i, m, n),
         bGot'[r] = IF link'[r] = "up" THEN bGot[r] \o units ELSE bGot[r],
         pending'[r] = IF link'[r] \in {"up", "shut"} THEN pending[r]
                                                      ELSE pending[r] \o units,
         busy'[r], bound'[r] = c, said'[r] = said[r], bIn'[r] = bIn[r]
  PROVE  /\ bGot'[r] \in Seq(RequestUnit) /\ pending'[r] \in Seq(RequestUnit)
         /\ Chained(bGot'[r]) /\ Holding(c, r, i, m + n, 0)'
         /\ Held(r)' \subseteq Held(r) \cup ToSet(units)
<1>1. /\ bGot[r] \in Seq(RequestUnit) /\ pending[r] \in Seq(RequestUnit) /\ said[r] \in Nat
  BY DEF FieldsOK, RemoteFields, PeerFields
<1>2. units \in Seq(RequestUnit)
  BY PartUnits
<1>3. i \in Nat /\ Owed(c, i, m + n) \in Nat
  BY PlanFacts DEF Owed
<1>4. \A a, b \in Seq(RequestUnit) :
        a \o b \in Seq(RequestUnit) /\ ToSet(a \o b) \subseteq ToSet(a) \cup ToSet(b)
  <2>1. ASSUME NEW a \in Seq(RequestUnit), NEW b \in Seq(RequestUnit)
        PROVE  a \o b \in Seq(RequestUnit) /\ ToSet(a \o b) \subseteq ToSet(a) \cup ToSet(b)
    <3>1. a \o b \in Seq(RequestUnit) /\ \A j \in 1..Len(a) : (a \o b)[j] = a[j]
      BY Joined
    <3>2. ASSUME NEW j \in 1..Len(a \o b) PROVE (a \o b)[j] \in ToSet(a) \cup ToSet(b)
      <4>1. CASE j \in 1..Len(a)
        BY <3>1, <4>1 DEF ToSet
      <4>2. CASE j \notin 1..Len(a)
        <5>1. j - Len(a) \in 1..Len(b) /\ (a \o b)[j] = b[j - Len(a)]
          BY <4>2, JoinedFrom
        <5> QED BY <5>1 DEF ToSet
      <4> QED BY <4>1, <4>2
    <3>3. DOMAIN (a \o b) = 1..Len(a \o b)
      BY <3>1
    <3> QED BY <3>1, <3>2, <3>3 DEF ToSet
  <2> QED BY <2>1
<1>5. /\ bGot'[r] \in Seq(RequestUnit) /\ pending'[r] \in Seq(RequestUnit)
      /\ Held(r)' \subseteq Held(r) \cup ToSet(units)
  <2>1. /\ bGot'[r] \in Seq(RequestUnit)
        /\ ToSet(bGot'[r]) \subseteq ToSet(bGot[r]) \cup ToSet(units)
    BY <1>1, <1>2, <1>4
  <2>2. /\ pending'[r] \in Seq(RequestUnit)
        /\ ToSet(pending'[r]) \subseteq ToSet(pending[r]) \cup ToSet(units)
    BY <1>1, <1>2, <1>4
  <2> QED BY <2>1, <2>2 DEF Held
<1>6. CASE link'[r] = "up"
  <2>1. /\ pending[r] = <<>> /\ bIn[r] = <<>> /\ said[r] = Len(Due(bGot[r]))
        /\ m = 0 => bGot[r] = <<>> \/ Ends(bGot[r][Len(bGot[r])])
        /\ m > 0 => bGot[r] # <<>> /\ bGot[r][Len(bGot[r])] = <<c, i, m - 1>>
    BY <1>6 DEF Awaits
  <2>2. PICK s \in Seq(RequestUnit) : s = bGot[r]
    BY <1>1
  <2>3. PICK w : w = s \o units /\ bGot'[r] = w
    BY <1>6, <2>2
  <2>4. Sent(w, c, i, m + n, Len(Due(s)))
    <3>1. Chained(s) /\ w = s \o Part(c, i, m, n)
      BY <2>2, <2>3
    <3>2. m = 0 => s = <<>> \/ Ends(s[Len(s)])
      BY <2>1, <2>2
    <3>3. m > 0 => s # <<>> /\ s[Len(s)] = <<c, i, m - 1>>
      BY <2>1, <2>2
    <3> QED BY <3>1, <3>2, <3>3, SentMore
  <2>5. /\ bGot'[r] # <<>> /\ bGot'[r][Len(bGot'[r])] = <<c, i, (m + n) - 1>>
        /\ Len(Due(bGot'[r])) = said[r] + Owed(c, i, m + n) /\ Chained(bGot'[r])
    BY <2>1, <2>2, <2>3, <2>4 DEF Sent
  <2>6. pending'[r] = <<>> /\ bIn'[r] = <<>> /\ Len(bIn'[r]) = 0
    BY <1>6, <2>1
  <2>7. bIn'[r] = Part(c, i, 0, Len(bIn'[r]))
    BY <2>6 DEF Part
  <2>8. /\ said'[r] + Owed(c, i, m + n) = Len(Due(bGot'[r])) + 0 + Len(bIn'[r])
        /\ 0 + Len(bIn'[r]) <= Owed(c, i, m + n)
    BY <1>1, <1>3, <2>5, <2>6
  <2>9. Holding(c, r, i, m + n, 0)'
    BY <1>6, <2>5, <2>6, <2>7, <2>8 DEF Holding, Trying
  <2> QED BY <1>5, <2>5, <2>9
<1>7. CASE link'[r] # "up"
  <2>1. bGot'[r] = bGot[r]
    BY <1>7
  <2>2. link'[r] \in Trying \cup {"down"}
    BY <1>7 DEF Awaits
  <2>3. ASSUME link'[r] \in Trying PROVE pending'[r] = Part(c, i, 0, m + n)
    <3>1. pending[r] = Part(c, i, 0, m)
      BY <2>3 DEF Awaits
    <3>2. pending'[r] = pending[r] \o units
      BY <2>3 DEF Trying
    <3>3. PICK b \in Nat : b = m + n
      OBVIOUS
    <3>4. Part(c, i, 0, m) \o Part(c, i, m, n) = Part(c, i, 0, b)
      BY <1>3, <3>3, PartFollows, SMTT(60)
    <3> QED BY <3>1, <3>2, <3>3, <3>4
  <2>4. Holding(c, r, i, m + n, 0)'
    BY <1>7, <2>2, <2>3 DEF Holding, Trying
  <2> QED BY <1>5, <2>1, <2>4
<1> QED BY <1>6, <1>7

(* No backend had units that were just read. *)
LEMMA ApartRead ==
  ASSUME FieldsOK, FieldsOK', Apart, NEW c \in Clients, NEW r \in Remotes,
         NEW i \in 1..Len(Plan[c]), NEW m \in Nat, NEW n \in Nat, m + n <= Size(c, i),
         Used(c) = AskAt(c, i) + m, Used(c)' = AskAt(c, i) + m + n,
         \A d \in Clients : d # c => Used(d)' = Used(d),
         Held(r)' \subseteq Held(r) \cup ToSet(Part(c, i, m, n)),
         \A s \in Remotes : s # r => Held(s)' = Held(s)
  PROVE  Apart'
<1>1. AskAt(c, i) \in Nat /\ i \in Nat
  BY AskFacts
<1>2. IsPart(Part(c, i, m, n), c, i, m, n)
  BY <1>1, PartFacts
<1>3. \A d \in Clients : Used(d)' >= Used(d)
  <2>1. \A d \in Clients : Used(d) \in Int
    BY HeldTyped
  <2> QED BY <1>1, <2>1
<1>4. ASSUME NEW u \in ToSet(Part(c, i, m, n))
      PROVE  u[1] = c /\ Used(c) <= Place(u) /\ Place(u) < Used(c)'
  <2>0. PICK w : w = Part(c, i, m, n)
    OBVIOUS
  <2>1. PICK k \in 1..n : u = <<c, i, m + k - 1>>
    <3>1. w \in Seq(Unit) /\ Len(w) = n /\ \A k \in 1..n : w[k] = <<c, i, m + k - 1>>
      BY <1>2, <2>0 DEF IsPart
    <3>2. u \in ToSet(w)
      BY <2>0
    <3>3. PICK k \in DOMAIN w : u = w[k]
      BY <3>2 DEF ToSet
    <3>4. k \in 1..n
      BY <3>1, <3>3
    <3> QED BY <3>1, <3>3, <3>4
  <2>2. u[1] = c /\ u[2] = i /\ u[3] = m + k - 1
    BY <2>1
  <2>3. Place(u) = AskAt(c, i) + (m + k - 1)
    BY <2>2 DEF Place
  <2> QED BY <1>1, <2>1, <2>2, <2>3
<1>5. ASSUME NEW s \in Remotes, NEW u \in Held(s)'
      PROVE  u \in Held(s) \/ (s = r /\ u[1] = c /\ Used(c) <= Place(u) /\ Place(u) < Used(c)')
  BY <1>4
<1> QED BY <1>3, <1>5, ApartStep

(* The least of two numbers.                                               *)
LEMMA MinFirst == \A a, b \in Nat : a <= b => Min({a, b}) = a
<1> SUFFICES ASSUME NEW a \in Nat, NEW b \in Nat, a <= b PROVE Min({a, b}) = a
  OBVIOUS
<1> DEFINE IsMin(x) == x \in {a, b} /\ \A y \in {a, b} : x <= y
<1>1. Min({a, b}) = CHOOSE x : IsMin(x)
  BY DEF Min
<1>2. IsMin(a)
  OBVIOUS
<1>3. \A x : IsMin(x) => x = a
  OBVIOUS
<1> HIDE DEF IsMin
<1>4. IsMin(CHOOSE x : IsMin(x))
  BY <1>2
<1> QED BY <1>1, <1>3, <1>4

(* All of a buffer is taken. *)
LEMMA TakenWhole ==
  ASSUME NEW s \in Seq(Unit), NEW n, n = Len(s)
  PROVE  Take(s, n) = s /\ Drop(s, n) = <<>>
<1>1. SubSeq(s, 1, Len(s)) = s
  OBVIOUS
<1>2. SubSeq(s, Len(s) + 1, Len(s)) = <<>>
  OBVIOUS
<1> QED BY <1>1, <1>2 DEF Take, Drop

(* ClientBody: more of the body of a request is read and passed on.        *)
LEMMA ClientBodyStep ==
  ASSUME GatewayInv, NEW c \in Clients, ClientBody(c) PROVE GatewayInv'
<1>1. FieldsOK /\ ClientsOK /\ ClientOK(c) /\ context[c] \in Context
  BY DEF GatewayInv, ClientsOK, FieldsOK, ClientFields
<1>2. PICK r \in Remotes : r = context[c].client
  BY <1>1 DEF ClientBody, Context
<1>3. PICK i \in 1..Len(Plan[c]), m \in Nat, x \in Nat : Carried(c, r, i, m, x)
  BY <1>1, <1>2, HolderFacts
<1>4. /\ up[c] # "gone" /\ busy[r] /\ bound[r] = c /\ link[r] \in Trying \cup {"up", "down"}
  BY <1>1, <1>2, HolderFacts
<1>5. cIn[c] # <<>> /\ ExpectingBody(context[c]) /\ c \in ready /\ ready' = ready \ {c}
  BY DEF ClientBody, Handling
<1>6. PICK n \in Nat : /\ n > 0 /\ m + n <= Size(c, i)
                       /\ asked[c] = AskAt(c, i) + m + n
                       /\ cIn[c] = Part(c, i, m, n)
  BY <1>1, <1>3, <1>5, BodyRead
<1>7. x = 0 /\ i \in Nat
  BY <1>1, <1>3, <1>5, BodyRead
<1> DEFINE p == context[c]
           q == Plan[c][i]
           buf == cBuf[c] \o cIn[c]
           units == Part(c, i, m, n)
<1>8. IsPart(units, c, i, m, n)
  BY <1>7, PartFacts
<1>9. buf = units /\ buf \in Seq(Unit) /\ Len(buf) = n /\ cBuf[c] = <<>>
  <2>1. cBuf[c] = <<>> /\ cIn[c] \in Seq(Unit)
    BY <1>1, <1>3 DEF Carried, FieldsOK, ClientFields
  <2>2. buf = cIn[c]
    BY <2>1
  <2>3. units \in Seq(Unit) /\ Len(units) = n
    BY <1>8 DEF IsPart
  <2> HIDE DEF units
  <2> QED BY <1>6, <2>1, <2>2, <2>3 DEF units
<1> DEFINE p2 == IF GotAll(ConsumeBody(p, n)) THEN Reset(ConsumeBody(p, n))
                                              ELSE ConsumeBody(p, n)
<1>10. /\ BytesRemaining(p) = (q.body + 1) - m
       /\ p2 \in Context /\ p2.client = r /\ Parsed(p2, q, m + n, 0) /\ q.body \in Nat
  <2>1. q.body \in Nat /\ m + n <= q.body + 1
    BY <1>6, PlanFacts DEF Size
  <2>2. Parsed(p, q, m, x)
    BY <1>3 DEF Carried
  <2>3. /\ BytesRemaining(p) = (q.body + 1) - m
        /\ p2 \in Context /\ p2.client = p.client /\ Parsed(p2, q, m + n, 0)
    <3> HIDE DEF p, q
    <3>1. p \in Context /\ ExpectingBody(p)
      BY <1>1, <1>5 DEF p
    <3> QED BY <1>6, <2>1, <2>2, <3>1, BodyTaken
  <2> QED BY <1>2, <2>1, <2>3
<1>11. Min({Len(buf), BytesRemaining(p)}) = n
  <2>1. (q.body + 1) - m \in Nat /\ n <= (q.body + 1) - m
    BY <1>6, <1>10 DEF Size
  <2> HIDE DEF buf, p, q
  <2> QED BY <1>9, <1>10, <2>1, MinFirst
<1>12. Take(buf, n) = buf /\ Drop(buf, n) = <<>>
  BY <1>9, TakenWhole
<1>13. /\ link' = link /\ ToBackend(r, units) /\ cBuf' = [cBuf EXCEPT ![c] = <<>>]
       /\ context' = [context EXCEPT ![c] = p2] /\ cIn' = [cIn EXCEPT ![c] = <<>>]
       /\ UNCHANGED <<closing, errors>> /\ UNCHANGED <<up, asked, cEnd, cGot>>
       /\ UNCHANGED peerVars /\ UNCHANGED <<addr, bound, busy, bBuf>>
       /\ UNCHANGED <<idle, stranded>>
  BY <1>2, <1>9, <1>11, <1>12 DEF ClientBody
<1> HIDE DEF p2, buf, units, p, q
<1>14. /\ asked' = asked /\ said' = said /\ bIn' = bIn /\ link' = link /\ addr' = addr
       /\ bound' = bound /\ busy' = busy /\ bBuf' = bBuf /\ idle' = idle /\ up' = up
       /\ cGot' = cGot
  BY <1>13 DEF peerVars
<1>15. /\ cBuf'[c] = <<>> /\ cIn'[c] = <<>> /\ context'[c] = p2
       /\ \A d \in Clients : d # c => /\ cBuf'[d] = cBuf[d] /\ cIn'[d] = cIn[d]
                                      /\ context'[d] = context[d]
  BY <1>1, <1>13 DEF FieldsOK, ClientFields
<1>16. /\ bGot'[r] = IF link'[r] = "up" THEN bGot[r] \o units ELSE bGot[r]
       /\ pending'[r] = IF link'[r] \in {"up", "shut"} THEN pending[r] ELSE pending[r] \o units
       /\ bGot' = [bGot EXCEPT ![r] = bGot'[r]] /\ pending' = [pending EXCEPT ![r] = pending'[r]]
       /\ \A s \in Remotes : s # r => bGot'[s] = bGot[s] /\ pending'[s] = pending[s]
  <2>1. bGot \in [Remotes -> Seq(RequestUnit)] /\ pending \in [Remotes -> Seq(RequestUnit)]
    BY <1>1 DEF FieldsOK, RemoteFields
  <2>2. /\ bGot' = IF link'[r] = "up" THEN [bGot EXCEPT ![r] = @ \o units] ELSE bGot
        /\ pending' = IF link'[r] \in {"up", "shut"} THEN pending
                      ELSE [pending EXCEPT ![r] = @ \o units]
    BY <1>13 DEF ToBackend
  <2> QED BY <2>1, <2>2
<1>17. Chained(bGot[r]) /\ RemoteOK(r)
  BY DEF GatewayInv, RemotesOK, RemoteOK
<1>18. Awaits(c, r, i, m)
  <2>1. Holding(c, r, i, m, x) /\ m > 0 /\ Owed(c, i, m) = 0
    <3>1. m > 0 /\ Size(c, i) \in Nat
      BY <1>3, CarriedFacts
    <3> QED BY <1>3, <1>6, <3>1 DEF Carried, Owed
  <2>2. ASSUME link[r] = "up"
        PROVE  /\ pending[r] = <<>> /\ bIn[r] = <<>> /\ said[r] = Len(Due(bGot[r]))
               /\ bGot[r] # <<>> /\ bGot[r][Len(bGot[r])] = <<c, i, m - 1>>
    <3>1. /\ pending[r] = <<>> /\ bGot[r] # <<>> /\ bGot[r][Len(bGot[r])] = <<c, i, m - 1>>
          /\ said[r] + 0 = Len(Due(bGot[r])) + 0 + Len(bIn[r]) /\ 0 + Len(bIn[r]) <= 0
      BY <1>7, <2>1, <2>2 DEF Holding
    <3>2. bIn[r] \in Seq(Unit) /\ said[r] \in Nat /\ bGot[r] \in Seq(RequestUnit)
      BY <1>1 DEF FieldsOK, PeerFields, RemoteFields
    <3>3. Len(Due(bGot[r])) \in Nat /\ Len(bIn[r]) \in Nat
      BY <3>2, DueType
    <3>4. Len(bIn[r]) = 0 /\ said[r] = Len(Due(bGot[r]))
      <4>1. \A a, d, j \in Nat : a + 0 = d + 0 + j /\ 0 + j <= 0 => j = 0 /\ a = d
        OBVIOUS
      <4>2. said[r] \in Nat
        BY <3>2
      <4>3. said[r] + 0 = Len(Due(bGot[r])) + 0 + Len(bIn[r]) /\ 0 + Len(bIn[r]) <= 0
        BY <3>1
      <4> QED BY <3>3, <4>1, <4>2, <4>3
    <3>5. bIn[r] = <<>>
      BY <3>2, <3>4
    <3> QED BY <3>1, <3>4, <3>5
  <2>3. link[r] \in Trying => pending[r] = Part(c, i, 0, m)
    BY <2>1 DEF Holding
  <2> QED BY <1>4, <1>14, <2>1, <2>2, <2>3 DEF Awaits
<1>19. /\ bGot'[r] \in Seq(RequestUnit) /\ pending'[r] \in Seq(RequestUnit)
       /\ Chained(bGot'[r]) /\ Holding(c, r, i, m + n, 0)'
       /\ Held(r)' \subseteq Held(r) \cup ToSet(units)
  <2>1. busy'[r] /\ bound'[r] = c /\ said'[r] = said[r] /\ bIn'[r] = bIn[r]
    BY <1>4, <1>14
  <2>2. FieldsOK /\ n > 0 /\ m + n <= Size(c, i) /\ Chained(bGot[r])
    BY <1>1, <1>6, <1>17
  <2>3. units = Part(c, i, m, n)
    BY DEF units
  <2>4. /\ bGot'[r] = IF link'[r] = "up" THEN bGot[r] \o units ELSE bGot[r]
        /\ pending'[r] = IF link'[r] \in {"up", "shut"} THEN pending[r]
                                                        ELSE pending[r] \o units
    BY <1>16
  <2> QED BY <1>18, <2>1, <2>2, <2>3, <2>4, PassedOn
<1>20. FieldsOK'
  <2>1. ClientFields'
    BY <1>1, <1>10, <1>13, SMTT(60) DEF FieldsOK, ClientFields
  <2>2. LoopFields'
    BY <1>1, <1>5, <1>13 DEF FieldsOK, LoopFields
  <2>3. RemoteFields'
    <3>1. bGot' \in [Remotes -> Seq(RequestUnit)] /\ pending' \in [Remotes -> Seq(RequestUnit)]
      BY <1>1, <1>16, <1>19 DEF FieldsOK, RemoteFields
    <3> QED BY <1>1, <1>14, <3>1 DEF FieldsOK, RemoteFields
  <2> QED BY <1>1, <1>13, <2>1, <2>2, <2>3, FieldsKept DEF FieldsOK
<1>21. LoopOK'
  BY <1>5, <1>14 DEF GatewayInv, LoopOK
<1>22. ClientOK(c)'
  <2>1. Facing(c, i, m + n)'
    <3>1. asked'[c] = AskAt(c, i) + (m + n) + 0
      <4>1. AskAt(c, i) \in Nat
        BY AskFacts
      <4> QED BY <1>6, <1>14, <4>1
    <3>2. cBuf'[c] \o cIn'[c] = Part(c, i, m + n, 0)
      BY <1>15 DEF Part
    <3> QED BY <3>1, <3>2 DEF Facing
  <2>2. Has(c, i, 0)'
    BY <1>3, <1>7, <1>14 DEF Carried, Has
  <2>3. Parsed(context'[c], Plan[c][i], m + n, 0) /\ context'[c].client = r
    BY <1>10, <1>15 DEF q
  <2>4. Carried(c, r, i, m + n, 0)'
    BY <1>3, <1>15, <1>19, <2>1, <2>2, <2>3 DEF Carried
  <2>5. i \in 1..(Len(Plan[c]) + 1)
    BY PlanFacts
  <2>6. ClientAt(c, i)'
    <3>1. m + n \in Nat /\ 0 \in Nat
      OBVIOUS
    <3> QED BY <2>4, <3>1 DEF ClientAt
  <2> QED BY <1>1, <1>4, <1>14, <2>5, <2>6, ClientMoves
<1>23. RemoteOK(r)'
  <2>1. context'[bound'[r]].client = r /\ busy'[r] /\ bound'[r] \in Clients
    BY <1>4, <1>10, <1>14, <1>15
  <2>2. link[r] \in {"none"} \cup Trying => bGot'[r] = bGot[r]
    BY <1>14, <1>16 DEF Trying
  <2> QED BY <1>4, <1>14, <1>17, <1>19, <2>1, <2>2 DEF RemoteOK, Trying
<1>24. ClientsOK' /\ RemotesOK' /\ PoolsOK'
  <2>1. Elsewhere(c, r)
    BY <1>14, <1>15, <1>16 DEF Elsewhere, SameInput, SameLoad
  <2>2. /\ \A d \in Clients : d # c => context[d].client # r
        /\ \A t \in Targets : ~Pooled(r, t)
    BY <1>2, OnlyHolder
  <2>3. context'[c].client = context[c].client
    BY <1>2, <1>10, <1>15
  <2>4. /\ \A d \in Clients : d # c => ClientOK(d)'
        /\ \A s \in Remotes : s # r => RemoteOK(s)'
        /\ \A t \in Targets :
             idle'[t] = idle[t] /\ (r \in Remotes => ~Pooled(r, t)) => PoolOK(t)'
    BY <2>1, <2>2, <2>3, OthersKept
  <2> QED BY <1>14, <1>22, <1>23, <2>2, <2>4 DEF ClientsOK, RemotesOK, PoolsOK
<1>25. Apart'
  <2>1. Used(c) = AskAt(c, i) + m /\ Used(c)' = AskAt(c, i) + m + n
    <3>1. AskAt(c, i) \in Nat /\ Len(cIn[c]) = n
      BY <1>6, <1>8, AskFacts DEF IsPart, units
    <3>2. Used(c) = asked[c] - 0 - n /\ Used(c)' = asked[c] - 0 - 0
      BY <1>9, <1>14, <1>15, <3>1 DEF Used
    <3> QED BY <1>6, <3>1, <3>2
  <2>2. \A d \in Clients : d # c => Used(d)' = Used(d)
    BY <1>14, <1>15 DEF Used
  <2>3. \A s \in Remotes : s # r => Held(s)' = Held(s)
    BY <1>16 DEF Held
  <2>4. Apart
    BY DEF GatewayInv
  <2> QED BY <1>1, <1>6, <1>19, <1>20, <2>1, <2>2, <2>3, <2>4, ApartRead DEF units
<1> QED BY <1>20, <1>21, <1>24, <1>25 DEF GatewayInv

(* A request is let in only if none was refused before it: then it is due. *)
LEMMA LetIn ==
  ASSUME FieldsOK, NEW c \in Clients, ClientOK(c), up[c] # "gone", cIn[c] # <<>>,
         ~ExpectingBody(context[c]), Target(c, cBuf[c] \o cIn[c]) # "none"
  PROVE  \E i \in 1..Len(Plan[c]), n \in Nat :
           /\ Fresh(c, i) /\ n > 0 /\ n <= Size(c, i) /\ asked[c] = AskAt(c, i) + n
           /\ cBuf[c] \o cIn[c] = Part(c, i, 0, n) /\ (cBuf[c] \o cIn[c])[1] = <<c, i, 0>>
<1> DEFINE buf == cBuf[c] \o cIn[c]
<1>1. PICK i \in 1..(Len(Plan[c]) + 1) : ClientAt(c, i)
  BY DEF ClientOK
<1>2. (Fresh(c, i) \/ Refused(c, i)) /\ buf # <<>>
  BY <1>1, HeadDue
<1>3. Facing(c, i, 0)
  BY <1>2 DEF Fresh, Refused
<1>4. /\ i \in 1..Len(Plan[c]) /\ buf[1] = <<c, i, 0>>
      /\ \E n \in Nat : /\ n > 0 /\ n <= Size(c, i) /\ asked[c] = AskAt(c, i) + n
                        /\ buf = Part(c, i, 0, n)
  BY <1>2, <1>3, HeadRead
<1>5. ~Refused(c, i)
  <2> SUFFICES ASSUME Refused(c, i) PROVE FALSE
    OBVIOUS
  <2>1. Plan[c][i].kind # "im" /\ Plan[c][i].body = 0
    BY DEF Refused, ExpectingBody
  <2>2. Plan[c][i].kind \in {"im", "llm", "refused"}
        /\ (Plan[c][i].kind = "llm" => Plan[c][i].body > 0)
    BY <1>4, PlanFacts
  <2>3. Plan[c][i].kind = "refused"
    BY <2>1, <2>2
  <2>4. buf[1][2] = i
    BY <1>4, SMTT(60)
  <2> HIDE DEF buf
  <2>5. Target(c, buf) = "none"
    BY <2>3, <2>4 DEF Target
  <2> QED BY <2>5 DEF buf
<1> QED BY <1>2, <1>4, <1>5

(* r is given to nobody and has nothing left of the last request. *)
Free(r) ==
  /\ \A d \in Clients : context[d].client # r
  /\ pending[r] = <<>> /\ bIn[r] = <<>> /\ link'[r] \in Trying \cup {"up", "down"}
  /\ link'[r] \in Trying => bGot[r] = <<>> /\ said[r] = 0
  /\ link'[r] = "up" => /\ said[r] = Len(Due(bGot[r]))
                        /\ bGot[r] = <<>> \/ Ends(bGot[r][Len(bGot[r])])
  /\ addr'[r] \in Targets
  /\ link' \in [Remotes -> Links] /\ addr' \in [Remotes -> Targets \cup {"none"}]
  /\ \A s \in Remotes : s # r => link'[s] = link[s] /\ addr'[s] = addr[s]

(* Forward: a request whose headers were read is given to a free           *)
(* RemoteClient, from the pool or new.                                     *)
LEMMA ForwardStep ==
  ASSUME GatewayInv, NEW c \in Clients, NEW r \in Remotes, c \in ready, ready' = ready \ {c},
         cIn[c] # <<>>, ~ExpectingBody(context[c]), Target(c, cBuf[c] \o cIn[c]) # "none",
         Free(r), Forward(c, r, cBuf[c] \o cIn[c]), PoolFields'
  PROVE  /\ FieldsOK' /\ LoopOK' /\ ClientsOK' /\ RemotesOK' /\ Apart'
         /\ \A t \in Targets : idle'[t] = idle[t] /\ ~Pooled(r, t) => PoolOK(t)'
         /\ \A s \in Remotes : s # r => Resting(s)
<1>1. FieldsOK /\ ClientOK(c) /\ context[c] \in Context /\ up[c] \in {"up", "shut"}
  BY DEF GatewayInv, ClientsOK, FieldsOK, ClientFields, LoopOK
<1> DEFINE buf == cBuf[c] \o cIn[c]
<1>2. PICK i \in 1..Len(Plan[c]), k \in Nat :
           /\ Fresh(c, i) /\ k > 0 /\ k <= Size(c, i) /\ asked[c] = AskAt(c, i) + k
           /\ buf = Part(c, i, 0, k) /\ buf[1] = <<c, i, 0>>
  BY <1>1, LetIn
<1> DEFINE q == Plan[c][i]
           p1 == [ParseRequest(context[c], q.body) EXCEPT !.client = r]
<1>3. i \in Nat /\ q.body \in Nat /\ buf[1][2] = i
  BY <1>2, PlanFacts
<1>4. PICK n \in Nat : n = k - 1 /\ n <= q.body /\ n + 1 = k
  <2>1. k - 1 \in Nat /\ k - 1 <= q.body /\ (k - 1) + 1 = k
    BY <1>2, <1>3 DEF Size
  <2> QED BY <2>1
<1>5. buf \in Seq(Unit) /\ Len(buf) = k
  <2>1. IsPart(Part(c, i, 0, k), c, i, 0, k)
    BY <1>3, PartFacts
  <2> QED BY <1>2, <2>1 DEF IsPart
<1> DEFINE p2 == IF n > 0 THEN ConsumeBody(p1, n) ELSE p1
           p3 == IF GotAll(p2) THEN Reset(p2) ELSE p2
<1>6. BytesRemaining(p1) = q.body /\ p3 \in Context /\ p3.client = r /\ Parsed(p3, q, n + 1, 0)
  <2>1. Clean(context[c])
    BY <1>2 DEF Fresh
  <2> HIDE DEF q
  <2> QED BY <1>1, <1>3, <1>4, <2>1, HeadTaken
<1>7. Min({Len(buf) - 1, BytesRemaining(p1)}) = n
  <2> HIDE DEF p1, q, buf
  <2>1. Len(buf) - 1 = n
    BY <1>4, <1>5
  <2> QED BY <1>3, <1>4, <1>6, <2>1, MinFirst
<1>8. Take(buf, n + 1) = buf /\ Drop(buf, n + 1) = <<>>
  <2> HIDE DEF buf
  <2> QED BY <1>4, <1>5, TakenWhole, SMTT(60)
<1>9. /\ busy' = [busy EXCEPT ![r] = TRUE] /\ bound' = [bound EXCEPT ![r] = c]
      /\ ToBackend(r, buf)
      /\ cBuf' = [cBuf EXCEPT ![c] = <<>>] /\ cIn' = [cIn EXCEPT ![c] = <<>>]
      /\ context' = [context EXCEPT ![c] = p3]
      /\ UNCHANGED <<closing, errors>> /\ UNCHANGED <<up, asked, cEnd, cGot>>
      /\ UNCHANGED peerVars /\ UNCHANGED bBuf
  <2>1. buf[1][2] = i
    BY <1>3
  <2> HIDE DEF buf
  <2>2. Forward(c, r, buf)
    BY DEF buf
  <2> QED BY <1>7, <1>8, <2>1, <2>2 DEF Forward
<1> HIDE DEF p3, p2, p1, q, buf
<1>10. /\ asked' = asked /\ said' = said /\ bIn' = bIn /\ bBuf' = bBuf /\ up' = up
       /\ cGot' = cGot
  BY <1>9 DEF peerVars
<1>11. /\ cBuf'[c] = <<>> /\ cIn'[c] = <<>> /\ context'[c] = p3
       /\ \A d \in Clients : d # c => /\ cBuf'[d] = cBuf[d] /\ cIn'[d] = cIn[d]
                                      /\ context'[d] = context[d]
  BY <1>1, <1>9 DEF FieldsOK, ClientFields
<1>12. /\ busy'[r] /\ bound'[r] = c
       /\ \A s \in Remotes : s # r => busy'[s] = busy[s] /\ bound'[s] = bound[s]
  BY <1>1, <1>9 DEF FieldsOK, RemoteFields
<1>13. /\ bGot'[r] = IF link'[r] = "up" THEN bGot[r] \o buf ELSE bGot[r]
       /\ pending'[r] = IF link'[r] \in {"up", "shut"} THEN pending[r] ELSE pending[r] \o buf
       /\ bGot' = [bGot EXCEPT ![r] = bGot'[r]] /\ pending' = [pending EXCEPT ![r] = pending'[r]]
       /\ \A s \in Remotes : s # r => bGot'[s] = bGot[s] /\ pending'[s] = pending[s]
  <2>1. bGot \in [Remotes -> Seq(RequestUnit)] /\ pending \in [Remotes -> Seq(RequestUnit)]
    BY <1>1 DEF FieldsOK, RemoteFields
  <2>2. /\ bGot' = IF link'[r] = "up" THEN [bGot EXCEPT ![r] = @ \o buf] ELSE bGot
        /\ pending' = IF link'[r] \in {"up", "shut"} THEN pending
                      ELSE [pending EXCEPT ![r] = @ \o buf]
    BY <1>9 DEF ToBackend
  <2> QED BY <2>1, <2>2
<1>14. Chained(bGot[r]) /\ RemoteOK(r)
  BY DEF GatewayInv, RemotesOK, RemoteOK
<1>15. PICK z \in Nat : z = 0
  OBVIOUS
<1>16. Awaits(c, r, i, z)
  <2>1. pending[r] = Part(c, i, 0, z)
    BY <1>15 DEF Free, Part
  <2> QED BY <1>15, <2>1 DEF Awaits, Free
<1>17. /\ bGot'[r] \in Seq(RequestUnit) /\ pending'[r] \in Seq(RequestUnit)
       /\ Chained(bGot'[r]) /\ Holding(c, r, i, z + k, 0)'
       /\ Held(r)' \subseteq Held(r) \cup ToSet(buf)
  <2>1. busy'[r] /\ bound'[r] = c /\ said'[r] = said[r] /\ bIn'[r] = bIn[r]
    BY <1>10, <1>12
  <2>2. FieldsOK /\ k > 0 /\ z + k <= Size(c, i) /\ Chained(bGot[r])
    BY <1>1, <1>2, <1>14, <1>15
  <2>3. buf = Part(c, i, z, k)
    BY <1>2, <1>15
  <2>4. /\ bGot'[r] = IF link'[r] = "up" THEN bGot[r] \o buf ELSE bGot[r]
        /\ pending'[r] = IF link'[r] \in {"up", "shut"} THEN pending[r]
                                                        ELSE pending[r] \o buf
    BY <1>13
  <2> QED BY <1>16, <2>1, <2>2, <2>3, <2>4, PassedOn
<1>18. FieldsOK'
  <2>1. ClientFields'
    BY <1>1, <1>6, <1>9 DEF FieldsOK, ClientFields
  <2>2. LoopFields'
    BY <1>1, <1>9 DEF FieldsOK, LoopFields
  <2>3. RemoteFields'
    <3>1. bGot' \in [Remotes -> Seq(RequestUnit)] /\ pending' \in [Remotes -> Seq(RequestUnit)]
      BY <1>1, <1>13, <1>17 DEF FieldsOK, RemoteFields
    <3> QED BY <1>1, <1>9, <3>1 DEF FieldsOK, RemoteFields, Free
  <2> QED BY <1>1, <1>9, <2>1, <2>2, <2>3, FieldsKept DEF FieldsOK
<1>19. LoopOK'
  BY <1>10 DEF GatewayInv, LoopOK
<1>20. ClientOK(c)'
  <2>1. Facing(c, i, k)'
    <3>1. asked'[c] = AskAt(c, i) + k + 0
      <4>1. AskAt(c, i) \in Nat
        BY AskFacts
      <4> QED BY <1>2, <1>10, <4>1
    <3>2. cBuf'[c] \o cIn'[c] = Part(c, i, k, 0)
      BY <1>11 DEF Part
    <3> QED BY <3>1, <3>2 DEF Facing
  <2>2. Has(c, i, 0)'
    BY <1>2, <1>10 DEF Fresh, Has
  <2>3. Parsed(context'[c], Plan[c][i], k, 0) /\ context'[c].client = r
    BY <1>4, <1>6, <1>11 DEF q
  <2>4. Holding(c, r, i, k, 0)'
    BY <1>15, <1>17
  <2>5. i <= Len(Plan[c]) /\ i \in 1..(Len(Plan[c]) + 1)
    BY PlanFacts
  <2>6. Carried(c, r, i, k, 0)'
    BY <1>11, <2>1, <2>2, <2>3, <2>4, <2>5 DEF Carried
  <2>7. ClientAt(c, i)'
    BY <2>6 DEF ClientAt
  <2> QED BY <1>1, <1>10, <2>5, <2>7, ClientMoves
<1>21. RemoteOK(r)'
  <2>1. context'[bound'[r]].client = r /\ busy'[r] /\ bound'[r] \in Clients
    BY <1>6, <1>11, <1>12
  <2>2. link'[r] \in Trying \cup {"up", "down"} /\ addr'[r] \in Targets
    BY DEF Free
  <2>3. link'[r] \in Trying => bGot'[r] = <<>> /\ said'[r] = 0 /\ bIn'[r] = <<>>
    BY <1>10, <1>13 DEF Free, Trying
  <2>4. bBuf'[r] = <<>>
    BY <1>10, <1>14 DEF RemoteOK
  <2> QED BY <1>17, <2>1, <2>2, <2>3, <2>4 DEF RemoteOK, Trying
<1>22. Elsewhere(c, r)
  BY <1>10, <1>11, <1>12, <1>13 DEF Elsewhere, SameInput, SameLoad, Free
<1>23. /\ ClientsOK' /\ RemotesOK'
       /\ \A t \in Targets : idle'[t] = idle[t] /\ ~Pooled(r, t) => PoolOK(t)'
  <2>1. \A d \in Clients : context[d].client # r
    BY DEF Free
  <2>2. context[c].client \in {r, None}
    BY <1>2 DEF Fresh
  <2>3. /\ \A d \in Clients : d # c => ClientOK(d)'
        /\ \A s \in Remotes : s # r => RemoteOK(s)'
        /\ \A t \in Targets :
             idle'[t] = idle[t] /\ (r \in Remotes => ~Pooled(r, t)) => PoolOK(t)'
    BY <1>22, <2>1, <2>2, OthersKept
  <2> QED BY <1>20, <1>21, <2>3 DEF ClientsOK, RemotesOK
<1>24. \A s \in Remotes : s # r => Resting(s)
  BY <1>22 DEF Elsewhere, Resting
<1>25. Apart'
  <2>1. Used(c) = AskAt(c, i) + z /\ Used(c)' = AskAt(c, i) + z + k /\ z + k <= Size(c, i)
    <3>1. AskAt(c, i) \in Nat /\ Len(cIn[c]) = k /\ Len(cBuf[c]) = 0
      <4>1. cBuf[c] = <<>> /\ cIn[c] \in Seq(Unit)
        BY <1>1, <1>2 DEF Fresh, FieldsOK, ClientFields
      <4>2. buf = cIn[c]
        BY <4>1 DEF buf
      <4> QED BY <1>5, <4>1, <4>2, AskFacts
    <3>2. Used(c) = asked[c] - 0 - k /\ Used(c)' = asked[c] - 0 - 0
      BY <1>10, <1>11, <3>1 DEF Used
    <3> QED BY <1>2, <1>15, <3>1, <3>2
  <2>2. \A d \in Clients : d # c => Used(d)' = Used(d)
    BY <1>10, <1>11 DEF Used
  <2>3. \A s \in Remotes : s # r => Held(s)' = Held(s)
    BY <1>13 DEF Held
  <2>4. Apart /\ FieldsOK /\ FieldsOK'
    BY <1>1, <1>18 DEF GatewayInv
  <2>5. Held(r)' \subseteq Held(r) \cup ToSet(Part(c, i, z, k))
    BY <1>2, <1>15, <1>17
  <2> QED BY <2>1, <2>2, <2>3, <2>4, <2>5, ApartRead
<1> QED BY <1>18, <1>19, <1>23, <1>24, <1>25

(* BorrowNew: a new RemoteClient is made for the request.                  *)
LEMMA BorrowNewStep ==
  ASSUME GatewayInv, NEW c \in Clients, NEW t \in Targets, BorrowNew(c, t)
  PROVE  GatewayInv'
<1>1. /\ c \in ready /\ ready' = ready \ {c} /\ cIn[c] # <<>> /\ ~ExpectingBody(context[c])
      /\ Target(c, cBuf[c] \o cIn[c]) = t /\ idle' = idle
  BY DEF BorrowNew, Asking, Handling
<1>2. PICK r \in Remotes :
         /\ link[r] = "none" /\ addr' = [addr EXCEPT ![r] = t]
         /\ \/ link' = [link EXCEPT ![r] = "connecting"] /\ UNCHANGED stranded
            \/ link' = [link EXCEPT ![r] = "failed"] /\ stranded' = stranded \cup {c}
         /\ Forward(c, r, cBuf[c] \o cIn[c])
  BY DEF BorrowNew
<1>3. PICK l \in {"connecting", "failed"} : link' = [link EXCEPT ![r] = l]
  BY <1>2
<1>4. /\ FieldsOK /\ ClientsOK /\ link \in [Remotes -> Links]
      /\ addr \in [Remotes -> Targets \cup {"none"}]
  BY DEF GatewayInv, FieldsOK, RemoteFields
<1>5. RemoteOK(r)
  BY DEF GatewayInv, RemotesOK
<1>6. l \in Trying /\ l \in Links /\ l # "up"
  BY DEF Trying, Links
<1>7. Free(r)
  <2>1. \A d \in Clients : context[d].client # r
    <3>1. link[r] \notin Trying \cup {"up", "down"}
      BY <1>2 DEF Trying
    <3> QED BY <1>4, <3>1, HolderFacts
  <2>2. pending[r] = <<>> /\ bIn[r] = <<>> /\ bGot[r] = <<>> /\ said[r] = 0
    BY <1>2, <1>5 DEF RemoteOK
  <2>3. link'[r] = l /\ addr'[r] = t
    BY <1>2, <1>3, <1>4
  <2>4. link' \in [Remotes -> Links] /\ addr' \in [Remotes -> Targets \cup {"none"}]
    BY <1>2, <1>3, <1>4, <1>6
  <2>5. \A s \in Remotes : s # r => link'[s] = link[s] /\ addr'[s] = addr[s]
    BY <1>2, <1>3, <1>4
  <2> QED BY <1>6, <2>1, <2>2, <2>3, <2>4, <2>5 DEF Free
<1>8. PoolFields'
  BY <1>1, <1>2 DEF GatewayInv, FieldsOK, PoolFields
<1>9. t # "none"
  BY DEF Targets
<1>10. /\ FieldsOK' /\ LoopOK' /\ ClientsOK' /\ RemotesOK' /\ Apart'
       /\ \A v \in Targets : idle'[v] = idle[v] /\ ~Pooled(r, v) => PoolOK(v)'
  BY <1>1, <1>2, <1>7, <1>8, <1>9, ForwardStep
<1>11. PoolsOK'
  <2>1. \A v \in Targets : ~Pooled(r, v)
    BY <1>2 DEF GatewayInv, PoolsOK, PoolOK, Idle
  <2> QED BY <1>1, <1>10, <2>1 DEF PoolsOK
<1> QED BY <1>10, <1>11 DEF GatewayInv

(* All but the last of a sequence. *)
LEMMA FrontFacts ==
  ASSUME NEW S, NEW s \in Seq(S), s # <<>>
  PROVE  /\ Front(s) \in Seq(S) /\ Len(Front(s)) = Len(s) - 1
         /\ Len(s) \in Nat \ {0} /\ Last(s) = s[Len(s)] /\ Last(s) \in S
         /\ \A j \in 1..(Len(s) - 1) : Front(s)[j] = s[j]
<1>1. Len(s) \in Nat \ {0} /\ Len(s) \in 1..Len(s) /\ Last(s) = s[Len(s)]
  BY DEF Last
<1>2. Last(s) \in S
  BY <1>1
<1>3. PICK n \in Nat : n = Len(s) - 1
  BY <1>1
<1>4. n <= Len(s) /\ Front(s) = SubSeq(s, 1, n)
  BY <1>1, <1>3 DEF Front
<1>5. /\ SubSeq(s, 1, n) \in Seq(S) /\ Len(SubSeq(s, 1, n)) = n
      /\ \A j \in 1..n : SubSeq(s, 1, n)[j] = s[j]
  BY <1>1, <1>4
<1> QED BY <1>1, <1>2, <1>3, <1>4, <1>5

(* BorrowIdle: the last of the pool is taken for it.                       *)
LEMMA BorrowIdleStep ==
  ASSUME GatewayInv, NEW c \in Clients, NEW t \in Targets, BorrowIdle(c, t)
  PROVE  GatewayInv'
<1>1. /\ c \in ready /\ ready' = ready \ {c} /\ cIn[c] # <<>> /\ ~ExpectingBody(context[c])
      /\ Target(c, cBuf[c] \o cIn[c]) = t /\ idle[t] # <<>>
      /\ idle' = [idle EXCEPT ![t] = Front(@)]
  BY DEF BorrowIdle, Asking, Handling
<1>2. /\ FieldsOK /\ ClientsOK /\ PoolsOK /\ link \in [Remotes -> Links] /\ PoolOK(t)
      /\ addr \in [Remotes -> Targets \cup {"none"}]
      /\ idle \in [Targets -> Seq(Remotes)] /\ stranded \subseteq Clients
  BY DEF GatewayInv, FieldsOK, RemoteFields, PoolFields, PoolsOK
<1>3. PICK s \in Seq(Remotes) : s = idle[t] /\ s # <<>>
  BY <1>1, <1>2
<1>4. /\ Front(s) \in Seq(Remotes) /\ Len(Front(s)) = Len(s) - 1
      /\ Len(s) \in Nat \ {0} /\ Last(s) = s[Len(s)] /\ Last(s) \in Remotes
      /\ \A j \in 1..(Len(s) - 1) : Front(s)[j] = s[j]
  BY <1>3, FrontFacts
<1>5. PICK r \in Remotes : r = Last(s)
  BY <1>4
<1>6. /\ stranded' = IF link[r] = "down" THEN stranded \cup {c} ELSE stranded
      /\ link' = link /\ addr' = addr /\ Forward(c, r, cBuf[c] \o cIn[c])
  BY <1>3, <1>5 DEF BorrowIdle
<1>7. Pooled(r, t)
  <2>1. Len(s) \in 1..Len(s)
    BY <1>4
  <2> QED BY <1>3, <1>4, <1>5, <2>1 DEF Pooled
<1>8. Idle(r, t) /\ \A d \in Clients : context[d].client # r
  BY <1>2, <1>7, PooledFacts
<1>9. Free(r)
  <2>1. link[r] \in {"up", "down"} /\ addr[r] = t
    BY <1>8 DEF Idle
  <2> QED BY <1>2, <1>6, <1>8, <2>1 DEF Free, Idle, Trying
<1>10. idle'[t] = Front(s) /\ \A v \in Targets : v # t => idle'[v] = idle[v]
  BY <1>1, <1>2, <1>3
<1>11. PoolFields'
  <2>1. idle' \in [Targets -> Seq(Remotes)]
    BY <1>1, <1>2, <1>3, <1>4
  <2> QED BY <1>2, <1>6, <2>1 DEF PoolFields
<1>12. t # "none"
  BY DEF Targets
<1>13. /\ FieldsOK' /\ LoopOK' /\ ClientsOK' /\ RemotesOK' /\ Apart'
       /\ \A v \in Targets : idle'[v] = idle[v] /\ ~Pooled(r, v) => PoolOK(v)'
       /\ \A o \in Remotes : o # r => Resting(o)
  BY <1>1, <1>6, <1>9, <1>11, <1>12, ForwardStep
<1>14. PoolOK(t)'
  <2>1. /\ Len(s) <= MaxIdle
        /\ \A j \in 1..Len(s) : \A i \in 1..(j - 1) : s[i] # s[j]
    BY <1>2, <1>3 DEF PoolOK
  <2>2. Len(idle'[t]) <= MaxIdle /\ Len(idle'[t]) = Len(s) - 1
    <3>1. MaxIdle \in Nat
      BY GatewayAssumption
    <3> QED BY <1>4, <1>10, <2>1, <3>1
  <2>3. \A j \in 1..(Len(s) - 1) : idle'[t][j] = s[j] /\ j \in 1..Len(s)
    BY <1>4, <1>10
  <2>4. \A j \in 1..Len(idle'[t]) : \A i \in 1..(j - 1) : idle'[t][i] # idle'[t][j]
    BY <1>4, <2>1, <2>2, <2>3, SMTT(60)
  <2>5. ASSUME NEW o \in Remotes, Pooled(o, t)' PROVE Idle(o, t)'
    <3>1. PICK j \in 1..(Len(s) - 1) : s[j] = o
      BY <2>2, <2>3, <2>5 DEF Pooled
    <3>2. j \in 1..Len(s) /\ Len(s) \in 1..Len(s) /\ j \in 1..(Len(s) - 1)
      BY <1>4, <3>1
    <3>3. o # r
      BY <1>4, <1>5, <2>1, <3>1, <3>2
    <3>4. Pooled(o, t)
      BY <1>3, <3>1, <3>2 DEF Pooled
    <3>5. Idle(o, t) /\ Resting(o)
      BY <1>2, <1>13, <3>3, <3>4 DEF PoolOK
    <3> QED BY <3>5, IdleKept
  <2> QED BY <2>2, <2>4, <2>5 DEF PoolOK
<1>15. ASSUME NEW v \in Targets, v # t PROVE PoolOK(v)'
  <2>1. ~Idle(r, v)
    BY <1>8, <1>15 DEF Idle
  <2>2. ~Pooled(r, v)
    BY <1>2, <2>1 DEF PoolsOK, PoolOK
  <2> QED BY <1>10, <1>13, <1>15, <2>2
<1>16. PoolsOK'
  BY <1>14, <1>15 DEF PoolsOK
<1> QED BY <1>13, <1>16 DEF GatewayInv

-----------------------------------------------------------------------------
(* What is left of a pool, and of who is in none.                          *)

Keep(q, x, gone) == IF x \in gone THEN q ELSE Append(q, x)

IsKept(k, s, gone, m) ==
  k = [i \in 0..m |-> IF i = 0 THEN <<>> ELSE Keep(k[i - 1], s[i], gone)]

(* The recursive function in Without exists. *)
LEMMA KeptExists == ASSUME NEW s, NEW gone PROVE \A m \in Nat : \E k : IsKept(k, s, gone, m)
<1> DEFINE T == {m \in Nat : \E k : IsKept(k, s, gone, m)}
<1>1. 0 \in T
  <2> DEFINE k == [i \in 0..0 |-> <<>>]
  <2>1. IsKept(k, s, gone, 0)
    BY DEF IsKept
  <2> QED BY <2>1
<1>2. ASSUME NEW m \in Nat, m \in T PROVE m + 1 \in T
  <2>1. PICK k : IsKept(k, s, gone, m)
    BY <1>2
  <2>2. \A i \in 0..m : k[i] = IF i = 0 THEN <<>> ELSE Keep(k[i - 1], s[i], gone)
    BY <2>1 DEF IsKept
  <2> DEFINE h == [i \in 0..(m + 1) |-> IF i = 0 THEN <<>> ELSE Keep(k[i - 1], s[i], gone)]
  <2>3. \A i \in 0..(m + 1) : h[i] = IF i = 0 THEN <<>> ELSE Keep(k[i - 1], s[i], gone)
    OBVIOUS
  <2>4. h = [i \in 0..(m + 1) |-> h[i]]
    OBVIOUS
  <2> HIDE DEF h
  <2>5. \A i \in 0..m : h[i] = k[i]
    <3>1. ASSUME NEW i \in 0..m PROVE h[i] = k[i]
      <4>1. i \in 0..(m + 1)
        OBVIOUS
      <4> QED BY <2>2, <2>3, <4>1
    <3> QED BY <3>1
  <2>6. \A i \in 0..(m + 1) : h[i] = IF i = 0 THEN <<>> ELSE Keep(h[i - 1], s[i], gone)
    <3>1. ASSUME NEW i \in 0..(m + 1), i # 0 PROVE h[i - 1] = k[i - 1]
      <4>1. i - 1 \in 0..m
        BY <3>1
      <4> QED BY <2>5, <4>1
    <3> QED BY <2>3, <3>1
  <2>7. IsKept(h, s, gone, m + 1)
    BY <2>4, <2>6 DEF IsKept
  <2> QED BY <2>7
<1> HIDE DEF T
<1>3. \A m \in Nat : m \in T
  BY <1>1, <1>2, AllNumbers
<1> QED BY <1>3 DEF T

(* No two members of a sequence are the same. *)
Distinct(s) == \A j \in 1..Len(s) : \A i \in 1..(j - 1) : s[i] # s[j]

(* What std::erase leaves of different members are such, and no more       *)
(* (ConnecitonPool.cc:36-46).                                              *)
LEMMA WithoutFacts ==
  ASSUME NEW S, NEW s \in Seq(S), NEW gone, Distinct(s)
  PROVE  /\ Without(s, gone) \in Seq(S) /\ Distinct(Without(s, gone))
         /\ Len(Without(s, gone)) <= Len(s)
         /\ \A j \in 1..Len(Without(s, gone)) : \E i \in 1..Len(s) : Without(s, gone)[j] = s[i]
<1> DEFINE k == CHOOSE g : IsKept(g, s, gone, Len(s))
<1>1. IsKept(k, s, gone, Len(s)) /\ Len(s) \in Nat
  BY KeptExists, SMTT(60)
<1>2. Without(s, gone) = k[Len(s)]
  BY DEF Without, IsKept, Keep
<1> HIDE DEF k
<1>3. \A i \in 0..Len(s) : k[i] = IF i = 0 THEN <<>> ELSE Keep(k[i - 1], s[i], gone)
  BY <1>1 DEF IsKept
<1> DEFINE Good(q, m) == /\ q \in Seq(S) /\ Len(q) <= m /\ Distinct(q)
                         /\ \A j \in 1..Len(q) : \E i \in 1..m : q[j] = s[i]
           T == {m \in Nat : m <= Len(s) => Good(k[m], m)}
<1>4. 0 \in T
  <2>1. k[0] = <<>>
    <3>1. 0 \in 0..Len(s)
      BY <1>1
    <3> HIDE DEF T, Good
    <3> QED BY <1>3, <3>1, Zenon
  <2>2. Good(<<>>, 0)
    BY DEF Distinct
  <2> QED BY <2>1, <2>2
<1>5. ASSUME NEW m \in Nat, m \in T PROVE m + 1 \in T
  <2> SUFFICES ASSUME m + 1 <= Len(s) PROVE Good(k[m + 1], m + 1)
    OBVIOUS
  <2>1. m <= Len(s) /\ m + 1 \in 0..Len(s) /\ m + 1 \in 1..Len(s) /\ (m + 1) - 1 = m
    BY <1>1
  <2>2. PICK x \in S : x = s[m + 1]
    BY <2>1
  <2>3. PICK q \in Seq(S) : q = k[m] /\ Good(q, m)
    BY <1>5, <2>1
  <2>4. k[m + 1] = Keep(q, x, gone)
    BY <1>3, <2>1, <2>2, <2>3
  <2>5. CASE x \in gone
    <3>1. k[m + 1] = q
      BY <2>4, <2>5 DEF Keep
    <3>2. \A i \in 1..m : i \in 1..(m + 1)
      OBVIOUS
    <3>3. Len(q) <= m + 1
      BY <2>3
    <3> QED BY <2>3, <3>1, <3>2, <3>3
  <2>6. CASE x \notin gone
    <3>1. PICK a : a = Append(q, x) /\ k[m + 1] = a
      BY <2>4, <2>6 DEF Keep
    <3>2. /\ a \in Seq(S) /\ Len(a) = Len(q) + 1 /\ a[Len(q) + 1] = x
          /\ Len(q) \in Nat /\ \A j \in 1..Len(q) : a[j] = q[j]
      BY <3>1
    <3>3. Len(a) <= m + 1
      BY <2>3, <3>2
    <3>4. \A j \in 1..Len(a) : \E i \in 1..(m + 1) : a[j] = s[i]
      <4>1. ASSUME NEW j \in 1..Len(a), j \in 1..Len(q)
            PROVE  \E i \in 1..(m + 1) : a[j] = s[i]
        <5>1. PICK i \in 1..m : q[j] = s[i]
          BY <2>3, <4>1
        <5>2. i \in 1..(m + 1)
          OBVIOUS
        <5> QED BY <3>2, <4>1, <5>1, <5>2
      <4>2. ASSUME NEW j \in 1..Len(a), j \notin 1..Len(q)
            PROVE  \E i \in 1..(m + 1) : a[j] = s[i]
        <5>1. j = Len(q) + 1 /\ m + 1 \in 1..(m + 1)
          BY <3>2, <4>2
        <5> QED BY <2>2, <3>2, <5>1
      <4> QED BY <4>1, <4>2
    <3>5. Distinct(a)
      <4> SUFFICES ASSUME NEW j \in 1..Len(a), NEW i \in 1..(j - 1) PROVE a[i] # a[j]
        BY DEF Distinct
      <4>1. CASE j \in 1..Len(q)
        <5>1. i \in 1..Len(q)
          BY <3>2, <4>1
        <5> QED BY <2>3, <3>2, <4>1, <5>1 DEF Distinct
      <4>2. CASE j \notin 1..Len(q)
        <5>1. j = Len(q) + 1 /\ i \in 1..Len(q)
          BY <3>2, <4>2, SMTT(60)
        <5>2. PICK h \in 1..m : q[i] = s[h]
          BY <2>3, <5>1
        <5>3. m + 1 \in 1..Len(s) /\ h \in 1..((m + 1) - 1)
          BY <2>1
        <5>4. s[h] # s[m + 1]
          BY <5>3 DEF Distinct
        <5> QED BY <2>2, <3>2, <5>1, <5>2, <5>4
      <4> QED BY <4>1, <4>2
    <3> QED BY <3>1, <3>2, <3>3, <3>4, <3>5
  <2> QED BY <2>5, <2>6
<1> HIDE DEF T
<1>6. \A m \in Nat : m \in T
  BY <1>4, <1>5, AllNumbers
<1>7. Len(s) \in T
  BY <1>1, <1>6
<1>8. Good(k[Len(s)], Len(s))
  BY <1>1, <1>7 DEF T
<1> QED BY <1>2, <1>8

(* A RemoteClient that is referred to is left alone. *)
LEMMA OrphanedFacts ==
  ASSUME FieldsOK, NEW pool, NEW ctx, NEW l, l = Orphaned(link, pool, ctx)
  PROVE  /\ l \in [Remotes -> Links]
         /\ \A r \in Remotes : l[r] = link[r] \/ (l[r] = "orphan" /\ link[r] # "none")
         /\ \A r \in Remotes : (\E c \in Clients : ctx[c].client = r) => l[r] = link[r]
         /\ \A r \in Remotes : (\E t \in Targets : r \in ToSet(pool[t])) => l[r] = link[r]
         /\ \A r \in Remotes :
              /\ link[r] \notin {"none", "orphan"} /\ \A c \in Clients : ctx[c].client # r
              /\ \A t \in Targets : r \notin ToSet(pool[t])
              => l[r] = "orphan"
<1>1. link \in [Remotes -> Links] /\ "orphan" \in Links
  BY DEF FieldsOK, RemoteFields, Links
<1> QED BY <1>1 DEF Orphaned

(* A RemoteClient that is given up is well; nothing is asked of it.        *)
LEMMA RemoteOrphaned ==
  ASSUME NEW r \in Remotes, RemoteOK(r), link[r] # "none", link'[r] = "orphan",
         addr'[r] = addr[r], bGot'[r] = bGot[r], bBuf'[r] = <<>>
  PROVE  RemoteOK(r)'
BY DEF RemoteOK, Trying

(* The functors: clients that have closed are gone, what has ended is taken *)
(* out of the pools, and who is referred to by nobody is destroyed          *)
(* (ConnecitonPool.cc:36-46, RemoteClient.cc:134-144).                      *)
LEMMA RunFunctorsStep == ASSUME GatewayInv, RunFunctors PROVE GatewayInv'
<1>1. /\ ready = {} /\ ready' = ready /\ closing' = {} /\ errors' = {}
      /\ up' = [c \in Clients |-> IF c \in closing THEN "gone" ELSE up[c]]
      /\ context' = [c \in Clients |-> IF c \in closing THEN NewContext ELSE context[c]]
      /\ idle' = [t \in Targets |-> Without(idle[t], errors)]
      /\ link' = Orphaned(link, idle', context')
      /\ asked' = asked /\ cEnd' = cEnd /\ cIn' = cIn /\ cBuf' = cBuf /\ cGot' = cGot
      /\ UNCHANGED peerVars /\ addr' = addr /\ bound' = bound /\ busy' = busy
      /\ pending' = pending /\ bGot' = bGot /\ bBuf' = bBuf /\ stranded' = stranded
  BY DEF RunFunctors
<1>2. said' = said /\ bIn' = bIn
  BY <1>1 DEF peerVars
<1>3. /\ FieldsOK /\ \A t \in Targets : PoolOK(t) /\ idle[t] \in Seq(Remotes)
      /\ \A c \in Clients : ClientOK(c)
      /\ \A r \in Remotes : RemoteOK(r)
  BY DEF GatewayInv, FieldsOK, PoolFields, PoolsOK, ClientsOK, RemotesOK
<1>4. \A c \in Clients : /\ c \in closing => up'[c] = "gone" /\ context'[c] = NewContext
                         /\ c \notin closing => up'[c] = up[c] /\ context'[c] = context[c]
  BY <1>1
<1>5. ASSUME NEW t \in Targets
      PROVE  /\ idle'[t] \in Seq(Remotes) /\ Distinct(idle'[t])
             /\ Len(idle'[t]) <= Len(idle[t])
             /\ \A j \in 1..Len(idle'[t]) : \E i \in 1..Len(idle[t]) : idle'[t][j] = idle[t][i]
  <2>1. Distinct(idle[t])
    BY <1>3 DEF PoolOK, Distinct
  <2>2. idle'[t] = Without(idle[t], errors)
    BY <1>1
  <2> QED BY <1>3, <2>1, <2>2, WithoutFacts
<1>6. /\ link' \in [Remotes -> Links]
      /\ \A r \in Remotes : link'[r] = link[r] \/ (link'[r] = "orphan" /\ link[r] # "none")
      /\ \A r \in Remotes : (\E c \in Clients : context'[c].client = r) => link'[r] = link[r]
      /\ \A r \in Remotes : (\E t \in Targets : r \in ToSet(idle'[t])) => link'[r] = link[r]
      /\ \A r \in Remotes :
           /\ link[r] \notin {"none", "orphan"} /\ \A c \in Clients : context'[c].client # r
           /\ \A t \in Targets : r \notin ToSet(idle'[t])
           => link'[r] = "orphan"
  BY <1>1, <1>3, OrphanedFacts
<1>7. ASSUME NEW t \in Targets, NEW r \in Remotes
      PROVE  /\ Pooled(r, t)' <=> r \in ToSet(idle'[t])
             /\ Pooled(r, t)' => Pooled(r, t)
  <2>1. Pooled(r, t)' <=> r \in ToSet(idle'[t])
    BY <1>5 DEF Pooled, ToSet
  <2>2. Pooled(r, t)' => Pooled(r, t)
    BY <1>5, SMTT(60) DEF Pooled
  <2> QED BY <2>1, <2>2
<1>8. NewContext \in Context /\ NewContext.client = None
  BY DEF NewContext, Context
<1>9. FieldsOK'
  <2>1. ClientFields'
    <3>1. /\ up \in [Clients -> {"up", "shut", "down", "gone"}]
          /\ context \in [Clients -> Context]
      BY <1>3 DEF FieldsOK, ClientFields
    <3>2. context' \in [Clients -> Context]
      BY <1>1, <1>8, <3>1
    <3>3. up' \in [Clients -> {"up", "shut", "down", "gone"}]
      BY <1>1, <3>1
    <3> QED BY <1>1, <1>3, <3>2, <3>3 DEF FieldsOK, ClientFields
  <2>2. LoopFields'
    BY <1>1, <1>3 DEF FieldsOK, LoopFields
  <2>3. RemoteFields'
    BY <1>1, <1>3, <1>6 DEF FieldsOK, RemoteFields
  <2>4. PoolFields'
    <3>1. idle' \in [Targets -> Seq(Remotes)]
      BY <1>1, <1>5
    <3> QED BY <1>1, <1>3, <3>1 DEF FieldsOK, PoolFields
  <2> QED BY <1>1, <1>3, <2>1, <2>2, <2>3, <2>4, FieldsKept DEF FieldsOK
<1>10. LoopOK'
  BY <1>1 DEF LoopOK
<1>11. \A r \in Remotes : SameLoad(r)
  BY <1>1, <1>2 DEF SameLoad
<1>12. ClientsOK'
  <2>1. ASSUME NEW c \in Clients, c \in closing PROVE ClientOK(c)'
    <3>1. up'[c] = "gone" /\ context'[c].client = None
      BY <1>4, <1>8, <2>1
    <3>2. InOrder(c)'
      BY <1>1, <1>3 DEF ClientOK, InOrder
    <3> QED BY <3>1, <3>2 DEF ClientOK
  <2>2. ASSUME NEW c \in Clients, c \notin closing PROVE ClientOK(c)'
    <3>1. up'[c] = up[c] /\ cGot'[c] = cGot[c] /\ SameInput(c) /\ context'[c] = context[c]
      BY <1>1, <1>4, <2>2 DEF SameInput
    <3>2. ASSUME NEW r \in Remotes, context[c].client = r PROVE Carrying(r)
      <4>1. link'[r] = link[r]
        BY <1>6, <3>1, <3>2
      <4> QED BY <1>1, <1>11, <4>1 DEF Carrying, SameLink
    <3> QED BY <1>3, <3>1, <3>2, ClientKept
  <2> QED BY <2>1, <2>2 DEF ClientsOK
<1>13. RemotesOK'
  <2>1. ASSUME NEW r \in Remotes, link'[r] # link[r] PROVE RemoteOK(r)'
    <3>1. link'[r] = "orphan" /\ link[r] # "none" /\ bBuf[r] = <<>>
      BY <1>3, <1>6, <2>1 DEF RemoteOK
    <3> QED BY <1>1, <1>3, <3>1, RemoteOrphaned
  <2>2. ASSUME NEW r \in Remotes, link'[r] = link[r] PROVE RemoteOK(r)'
    <3>1. ASSUME link[r] \notin {"none", "orphan"}, busy[r]
          PROVE  context'[bound[r]].client = context[bound[r]].client
      <4>1. bound[r] \in Clients /\ context[bound[r]].client = r
        BY <1>3, <3>1 DEF RemoteOK
      <4>2. PICK c \in Clients : c = bound[r] /\ context[c].client = r
        BY <4>1
      <4>3. /\ \A d \in Clients : d # c => context[d].client # r
            /\ \A t \in Targets : ~Pooled(r, t)
        BY <4>2, OnlyHolder
      <4>4. ASSUME c \in closing PROVE FALSE
        <5>1. \A d \in Clients : context'[d].client # r
          BY <1>4, <1>8, <4>3, <4>4, NoneIsNobody
        <5>2. \A t \in Targets : r \notin ToSet(idle'[t])
          BY <1>7, <4>3
        <5>3. link'[r] = "orphan"
          BY <1>6, <3>1, <5>1, <5>2
        <5> QED BY <2>2, <3>1, <5>3
      <4> QED BY <1>4, <4>2, <4>4
    <3>2. bBuf'[r] = bBuf[r] /\ addr'[r] = addr[r] /\ bound'[r] = bound[r] /\ busy'[r] = busy[r]
      BY <1>1
    <3> QED BY <1>3, <1>11, <2>2, <3>1, <3>2, RemoteKept
  <2> QED BY <2>1, <2>2 DEF RemotesOK
<1>14. PoolsOK'
  <2> SUFFICES ASSUME NEW t \in Targets PROVE PoolOK(t)'
    BY DEF PoolsOK
  <2>1. Len(idle'[t]) <= MaxIdle
    <3>1. /\ Len(idle'[t]) <= Len(idle[t]) /\ Len(idle[t]) <= MaxIdle
          /\ Len(idle'[t]) \in Nat /\ Len(idle[t]) \in Nat /\ MaxIdle \in Nat
      BY <1>3, <1>5, GatewayAssumption DEF PoolOK
    <3> QED BY <3>1
  <2>2. ASSUME NEW r \in Remotes, Pooled(r, t)' PROVE Idle(r, t)'
    <3>1. Idle(r, t) /\ link'[r] = link[r]
      BY <1>3, <1>6, <1>7, <2>2 DEF PoolOK
    <3>2. Resting(r)
      BY <1>1, <1>11, <3>1 DEF Resting
    <3> QED BY <3>1, <3>2, IdleKept
  <2>3. \A j \in 1..Len(idle'[t]) : \A i \in 1..(j - 1) : idle'[t][i] # idle'[t][j]
    BY <1>5 DEF Distinct
  <2> QED BY <2>1, <2>2, <2>3 DEF PoolOK
<1>15. Apart'
  BY <1>1 DEF GatewayInv, Apart, Held, Used
<1> QED BY <1>9, <1>10, <1>12, <1>13, <1>14, <1>15 DEF GatewayInv

-----------------------------------------------------------------------------
(* What is passed on to a client.                                          *)

(* All of a body is the client's if no more than is missing has come. *)
LEMMA RelayedFacts ==
  ASSUME NEW p \in Context, NEW s \in Seq(Unit), NEW n, n = Len(s),
         ~p.chunked => BytesRemaining(p) \in Nat /\ n <= BytesRemaining(p)
  PROVE  /\ Relayed(p, s).units = s /\ Relayed(p, s).rest = <<>>
         /\ Relayed(p, s).p = IF p.chunked \/ n = 0 THEN p ELSE ConsumeBody(p, n)
<1> DEFINE z == IF p.chunked THEN Len(s) ELSE Min({Len(s), BytesRemaining(p)})
<1>1. z = n
  <2>1. n \in Nat
    OBVIOUS
  <2>2. CASE p.chunked
    BY <2>2
  <2>3. CASE ~p.chunked
    <3>1. Min({n, BytesRemaining(p)}) = n
      BY <2>1, <2>3, MinFirst
    <3> QED BY <2>3, <3>1
  <2> QED BY <2>2, <2>3
<1>2. Take(s, n) = s /\ Drop(s, n) = <<>>
  BY TakenWhole
<1>3. Relayed(p, s) = [units |-> Take(s, z), rest |-> Drop(s, z),
                       p |-> IF p.chunked \/ z = 0 THEN p ELSE ConsumeBody(p, z)]
  BY DEF Relayed
<1> HIDE DEF z
<1> QED BY <1>1, <1>2, <1>3

(* Part of an answer has its last unit if the answer ends with it. *)
LEMMA LastUnit ==
  ASSUME NEW c \in Clients, NEW i \in 1..Len(Plan[c]), NEW h \in Nat, NEW n \in Nat,
         h + n <= Reply(c, i)
  PROVE  (\E u \in ToSet(Part(c, i, h, n)) : IsLast(u)) <=> n > 0 /\ h + n = Reply(c, i)
<1>1. /\ Plan[c][i].answer \in Nat /\ Reply(c, i) = Plan[c][i].answer + 1 /\ i \in Nat
  BY PlanFacts DEF Reply
<1>2. PICK s : s = Part(c, i, h, n) /\ IsPart(s, c, i, h, n)
  BY <1>1, PartFacts
<1>3. ToSet(s) = {s[k] : k \in 1..n}
  <2>1. DOMAIN s = 1..n
    BY <1>2 DEF IsPart
  <2> QED BY <2>1, Zenon DEF ToSet
<1>4. ASSUME NEW k \in 1..n
      PROVE  s[k] = <<c, i, h + k - 1>> /\ (IsLast(s[k]) <=> h + k - 1 = Plan[c][i].answer)
  <2>1. s[k] = <<c, i, h + k - 1>>
    BY <1>2 DEF IsPart
  <2>2. <<c, i, h + k - 1>> # Own
    BY NoneIsNobody DEF Own
  <2> QED BY <2>1, <2>2 DEF IsLast
<1>5. ASSUME NEW k \in 1..n, IsLast(s[k]) PROVE n > 0 /\ h + n = Reply(c, i)
  <2>1. h + k - 1 = Plan[c][i].answer
    BY <1>4, <1>5
  <2> QED BY <1>1, <2>1
<1>6. ASSUME n > 0, h + n = Reply(c, i) PROVE n \in 1..n /\ IsLast(s[n])
  <2>1. n \in 1..n /\ h + n - 1 = Plan[c][i].answer
    BY <1>1, <1>6
  <2> QED BY <1>4, <2>1
<1>7. (\E u \in ToSet(s) : IsLast(u)) <=> \E k \in 1..n : IsLast(s[k])
  BY <1>3
<1> QED BY <1>2, <1>5, <1>6, <1>7

(* A client that is up gets more of the answer, and nothing else. *)
LEMMA HasMore ==
  ASSUME FieldsOK, NEW c \in Clients, ClientOK(c), NEW i \in 1..Len(Plan[c]),
         NEW x \in Nat, NEW n \in Nat, x + n <= Reply(c, i), Has(c, i, x),
         NEW units, units = Part(c, i, x, n), cGot' = ToClient(c, units), up' = up
  PROVE  /\ cGot' \in [Clients -> Seq(Unit \cup {Own})]
         /\ Has(c, i, x + n)' /\ InOrder(c)'
         /\ up[c] # "up" => cGot'[c] = cGot[c]
         /\ \A d \in Clients : d # c => cGot'[d] = cGot[d]
<1> DEFINE S == Unit \cup {Own}
<1>1. /\ cGot \in [Clients -> Seq(S)] /\ Answers[c] \in Seq(Unit) /\ i \in Nat
      /\ Len(Answers[c]) \in Nat
  BY AnswerFacts DEF FieldsOK, ClientFields
<1>2. CASE up[c] # "up"
  <2>1. cGot' = cGot /\ up'[c] # "up"
    BY <1>2 DEF ToClient
  <2>2. InOrder(c)'
    BY <2>1 DEF ClientOK, InOrder
  <2> QED BY <1>1, <1>2, <2>1, <2>2 DEF Has
<1>3. CASE up[c] = "up"
  <2>1. PICK g \in Seq(S) : g = cGot[c]
    BY <1>1
  <2>2. PICK A \in Seq(S) : A = Answers[c]
    BY <1>1
  <2>3. PICK a \in Nat : a = AnswerAt(c, i)
    BY AnswerFacts
  <2>4. /\ IsPart(units, c, i, x, n) /\ units \in Seq(S)
    <3>1. IsPart(units, c, i, x, n)
      BY <1>1, PartFacts
    <3> QED BY <3>1 DEF IsPart
  <2>5. PICK w : w = g \o units
    OBVIOUS
  <2>6. /\ w \in Seq(S) /\ Len(g) \in Nat /\ Len(units) = n /\ Len(w) = Len(g) + n
        /\ \A j \in 1..Len(g) : w[j] = g[j]
    <3>1. Len(units) = n
      BY <2>4 DEF IsPart
    <3>2. /\ w \in Seq(S) /\ Len(g) \in Nat /\ Len(w) = Len(g) + Len(units)
          /\ \A j \in 1..Len(g) : w[j] = g[j]
      <4> HIDE DEF S
      <4> QED BY <2>4, <2>5, Joined
    <3> QED BY <3>1, <3>2
  <2>7. cGot' = [cGot EXCEPT ![c] = w]
    BY <1>3, <2>1, <2>5 DEF ToClient
  <2>8. cGot'[c] = w /\ \A d \in Clients : d # c => cGot'[d] = cGot[d]
    BY <1>1, <2>7
  <2>9. Len(g) = a + x /\ g = SubSeq(A, 1, Len(g))
    BY <1>3, <2>1, <2>2, <2>3 DEF Has
  <2>10. /\ a + Reply(c, i) <= Len(A) /\ Reply(c, i) \in Nat
         /\ \A k \in 1..Reply(c, i) : A[a + k] = <<c, i, k - 1>>
    <3>1. /\ AnswerAt(c, i + 1) = AnswerAt(c, i) + Reply(c, i)
          /\ AnswerAt(c, i + 1) <= Len(Answers[c])
          /\ \A k \in 1..Reply(c, i) : Answers[c][AnswerAt(c, i) + k] = <<c, i, k - 1>>
      BY AnswerFacts
    <3>2. Reply(c, i) \in Nat
      BY PlanFacts
    <3> QED BY <2>2, <2>3, <3>1, <3>2
  <2>11. Len(w) = a + (x + n) /\ Len(w) <= Len(A) /\ Len(w) \in Nat /\ Len(A) \in Nat
    BY <2>6, <2>9, <2>10, SMTT(60)
  <2>12. ASSUME NEW j \in 1..Len(w) PROVE w[j] = A[j]
    <3>1. CASE j \in 1..Len(g)
      <4>1. w[j] = g[j]
        BY <2>6, <3>1
      <4>2. SubSeq(A, 1, Len(g))[j] = A[j]
        BY <2>6, <2>11, <3>1
      <4> QED BY <2>9, <4>1, <4>2
    <3>2. CASE j \notin 1..Len(g)
      <4>1. PICK k : k = j - Len(g)
        OBVIOUS
      <4>2. k \in 1..Len(units) /\ w[j] = units[k]
        BY <2>4, <2>5, <3>2, <4>1, JoinedFrom
      <4>3. k \in 1..n /\ w[j] = <<c, i, x + k - 1>>
        BY <2>4, <2>6, <4>2 DEF IsPart
      <4>4. x + k \in 1..Reply(c, i) /\ a + (x + k) = j /\ (x + k) - 1 = x + k - 1
        BY <2>6, <2>9, <2>10, <4>1, <4>3, SMTT(60)
      <4>5. A[a + (x + k)] = <<c, i, (x + k) - 1>>
        BY <2>10, <4>4
      <4> QED BY <4>3, <4>4, <4>5
    <3> QED BY <3>1, <3>2
  <2>13. w = SubSeq(A, 1, Len(w))
    <3>1. PICK l \in Nat : l = Len(w) /\ l <= Len(A)
      BY <2>11
    <3>2. PICK z : z = SubSeq(A, 1, l)
      OBVIOUS
    <3>3. z \in Seq(S) /\ Len(z) = l /\ \A j \in 1..l : z[j] = A[j]
      <4>1. 1 \in Int /\ l \in Int /\ \A j \in 1..l : A[j] \in S
        BY <2>11, <3>1
      <4>2. /\ z \in Seq(S) /\ Len(z) = IF 1 <= l THEN l - 1 + 1 ELSE 0
            /\ \A j \in 1..(l - 1 + 1) : z[j] = A[1 + j - 1]
        <5> HIDE DEF S
        <5> QED BY <3>2, <4>1, SubSeqProperties
      <4> QED BY <4>2
    <3>4. Len(w) = Len(z) /\ \A j \in 1..Len(w) : w[j] = z[j]
      BY <2>12, <3>1, <3>3
    <3>5. w = z
      <4> HIDE DEF S
      <4> QED BY <2>6, <3>3, <3>4, SeqEqual
    <3> QED BY <3>1, <3>2, <3>5
  <2>14. Has(c, i, x + n)'
    BY <2>2, <2>3, <2>8, <2>11, <2>13 DEF Has
  <2>15. IsPrefix(cGot'[c], Answers[c])
    <3>1. SubSeq(w, 1, Len(w)) = w
      BY <2>6
    <3> QED BY <2>2, <2>8, <2>11, <2>13, <3>1 DEF IsPrefix
  <2>16. InOrder(c)'
    BY <2>15 DEF InOrder
  <2> QED BY <1>1, <1>3, <2>6, <2>7, <2>8, <2>14, <2>16
<1> QED BY <1>2, <1>3

(* The head of a part, and the others. *)
LEMMA Beheaded ==
  ASSUME NEW c \in Clients, NEW i \in Nat, NEW x \in Nat, NEW n \in Nat, NEW h \in Nat,
         n = h + 1
  PROVE  /\ <<Head(Part(c, i, x, n))>> \o Tail(Part(c, i, x, n)) = Part(c, i, x, n)
         /\ Tail(Part(c, i, x, n)) = Part(c, i, x + 1, h)
<1>1. PICK y \in Nat, z \in Nat, b \in Nat :
        y = x + 1 /\ z = n /\ b = h /\ Follows(x, y) /\ Follows(b, z)
  BY DEF Follows
<1>2. Follows(x, y) /\ Follows(b, z)
  BY <1>1
<1>3. /\ Tail(Part(c, i, x, z)) = Part(c, i, y, b)
      /\ <<Head(Part(c, i, x, z))>> \o Tail(Part(c, i, x, z)) = Part(c, i, x, z)
  BY <1>2, PartTail, SMTT(60)
<1> QED BY <1>1, <1>3

(* What a RemoteClient has passed on to c when n units of an answer were   *)
(* read after the first x, and p is the parser then.                       *)
Answered(c, r, i, x, n, p) ==
  /\ n > 0 /\ x + n <= Reply(c, i) /\ Carried(c, r, i, Size(c, i), x)
  /\ link[r] = "up" /\ r \in ready /\ ready' = ready \ {r}
  /\ said[r] + Reply(c, i) = Len(Due(bGot[r])) + (x + n)
  /\ p \in Context /\ ~p.isReq /\ p.client = r
  /\ x + n # Reply(c, i) => Parsed(p, Plan[c][i], Size(c, i), x + n)
  /\ cGot' = ToClient(c, Part(c, i, x, n))
  /\ bBuf' = [bBuf EXCEPT ![r] = <<>>] /\ bIn' = [bIn EXCEPT ![r] = <<>>]
  /\ context' = [context EXCEPT ![c] = IF x + n = Reply(c, i) THEN Reset(p) ELSE p]
  /\ IF x + n = Reply(c, i) THEN Return(r, context'[c])
                            ELSE UNCHANGED <<bound, busy, pending, idle, link>>
  /\ UNCHANGED <<closing, errors, up, asked, cEnd, cIn, cBuf, said, bEnd, addr,
                 bGot, stranded>>

(* onMessage passes on all it reads, which is the next of the answer the   *)
(* client waits for (L7/RemoteClient.cc:48-132).                           *)
LEMMA AnswerRead ==
  ASSUME GatewayInv, NEW r \in Remotes, RemoteMessage(r)
  PROVE  \E c \in Clients : /\ context[c].client = r /\ bound[r] = c
                            /\ \E i \in 1..Len(Plan[c]), x, n \in Nat, p \in Context :
                                 Answered(c, r, i, x, n, p)
<1>1. FieldsOK /\ ClientsOK /\ RemoteOK(r)
  BY SMTT(60) DEF GatewayInv, RemotesOK
<1>2. PICK c \in Clients : c = bound[r]
  BY <1>1, ZenonT(80) DEF RemoteMessage, FieldsOK, RemoteFields
<1>3. link[r] = "up" /\ busy[r] /\ bIn[r] # <<>> /\ r \in ready /\ ready' = ready \ {r}
  BY <1>1 DEF RemoteMessage, Handling, RemoteOK
<1>4. context[c].client = r /\ bBuf[r] = <<>>
  BY <1>1, <1>2, <1>3 DEF RemoteOK
<1>5. PICK i \in 1..Len(Plan[c]), m \in Nat, x \in Nat : Carried(c, r, i, m, x)
  BY <1>1, <1>4, HolderFacts
<1>6. Holding(c, r, i, m, x) /\ Parsed(context[c], Plan[c][i], m, x)
  BY <1>5 DEF Carried
<1>7. /\ said[r] \in Nat /\ bIn[r] \in Seq(Unit) /\ bGot[r] \in Seq(RequestUnit)
      /\ context[c] \in Context
  BY <1>1 DEF FieldsOK, PeerFields, RemoteFields, ClientFields
<1>8. PICK n \in Nat : n = Len(bIn[r]) /\ n > 0
  BY <1>3, <1>7
<1>9. /\ said[r] + Owed(c, i, m) = Len(Due(bGot[r])) + x + n
      /\ x + n <= Owed(c, i, m) /\ bIn[r] = Part(c, i, x, n)
  BY <1>3, <1>6, <1>8 DEF Holding
<1>10. m = Size(c, i) /\ Owed(c, i, m) = Reply(c, i) /\ Reply(c, i) \in Nat
  BY <1>8, <1>9, PlanFacts DEF Owed
<1>11. x + n <= Reply(c, i) /\ said[r] + Reply(c, i) = Len(Due(bGot[r])) + (x + n)
  <2>1. Len(Due(bGot[r])) \in Nat
    BY <1>7, DueType
  <2>2. \A d, a, b \in Nat : d + a + b = d + (a + b)
    OBVIOUS
  <2> QED BY <1>9, <1>10, <2>1, <2>2
<1>12. PICK h \in Nat : n = h + 1
  <2>1. n - 1 \in Nat /\ n = (n - 1) + 1
    BY <1>8
  <2> QED BY <2>1
<1>13. i \in Nat /\ x + 1 \in Nat
  BY PlanFacts
<1> DEFINE buf == bBuf[r] \o bIn[r]
           q == Plan[c][i]
           inBody == ExpectingBody(context[c])
           p1 == IF inBody THEN context[c]
                           ELSE ParseResponse(context[c], q.answer, q.chunked)
           body == IF inBody THEN buf ELSE Tail(buf)
           k == IF inBody THEN n ELSE n - 1
           p2 == IF p1.chunked \/ k = 0 THEN p1 ELSE ConsumeBody(p1, k)
           out == Relayed(p1, body)
<1>14. buf = Part(c, i, x, n) /\ IsPart(buf, c, i, x, n)
  <2>1. buf = bIn[r]
    BY <1>4, <1>7
  <2>2. IsPart(Part(c, i, x, n), c, i, x, n)
    BY <1>13, PartFacts
  <2> QED BY <1>9, <2>1, <2>2
<1>15. buf[1] = <<c, i, x>>
  <2>1. 1 \in 1..n /\ x + 1 - 1 = x
    BY <1>8
  <2>2. \A j \in 1..n : buf[j] = <<c, i, x + j - 1>>
    BY <1>14 DEF IsPart
  <2> QED BY <2>1, <2>2
<1>16. /\ q.body \in Nat /\ q.answer \in Nat /\ q.chunked \in BOOLEAN
       /\ q.chunked => q.answer > 0
       /\ Size(c, i) = q.body + 1 /\ Reply(c, i) = q.answer + 1
  BY PlanFacts DEF Size, Reply
<1>17. /\ inBody <=> x > 0
       /\ p1 \in Context /\ p1.chunked = q.chunked /\ k \in Nat
       /\ ~p1.chunked => BytesRemaining(p1) \in Nat /\ k <= BytesRemaining(p1)
       /\ p2 \in Context /\ ~p2.isReq /\ p2.chunked = q.chunked /\ p2.client = r
       /\ ~q.chunked => (GotAll(p2) <=> x + n = q.answer + 1)
       /\ x + n # q.answer + 1 => Parsed(p2, q, m, x + n)
  <2>1. m = q.body + 1 /\ x + n <= q.answer + 1
    BY <1>10, <1>11, <1>16
  <2>2. PICK p0 : p0 = context[c]
    OBVIOUS
  <2>3. p0 \in Context /\ Parsed(p0, q, m, x) /\ p0.client = r
    BY <1>4, <1>6, <1>7, <2>2
  <2>4. /\ p1 = IF ExpectingBody(p0) THEN p0 ELSE ParseResponse(p0, q.answer, q.chunked)
        /\ k = IF ExpectingBody(p0) THEN n ELSE n - 1
        /\ inBody <=> ExpectingBody(p0)
    BY <2>2
  <2>5. p2 = IF p1.chunked \/ k = 0 THEN p1 ELSE ConsumeBody(p1, k)
    OBVIOUS
  <2>7. n > 0 /\ OfBody(p0, n, k)
    BY <1>8, <2>4 DEF OfBody
  <2>8. PICK y \in Nat : y = x + n
    OBVIOUS
  <2>9. y <= x + n /\ x + n <= y /\ x + n <= q.answer + 1
    BY <2>1, <2>8
  <2> HIDE DEF p2
  <2> HIDE DEF p1
  <2> HIDE DEF k, inBody, q
  <2>6. /\ ExpectingBody(p0) <=> x > 0
        /\ p1 \in Context /\ p1.chunked = q.chunked /\ k \in Nat
        /\ ~p1.chunked => BytesRemaining(p1) \in Nat /\ k <= BytesRemaining(p1)
        /\ p2 \in Context /\ ~p2.isReq /\ p2.chunked = q.chunked /\ p2.client = p0.client
        /\ ~q.chunked => (GotAll(p2) <=> y = q.answer + 1)
        /\ y # q.answer + 1 => Parsed(p2, q, m, y)
    <3>1. m <= q.body + 1 /\ q.body + 1 <= m
      BY <1>16, <2>1
    <3>2. q.body \in Nat /\ q.answer \in Nat /\ q.chunked \in BOOLEAN /\ (q.chunked => q.answer > 0)
      BY <1>16
    <3> QED BY <2>3, <2>4, <2>5, <2>7, <2>9, <3>1, <3>2, AnswerTaken, SMTT(90)
  <2> QED BY <2>3, <2>4, <2>6, <2>8
<1>18. /\ body = IF inBody THEN Part(c, i, x, n) ELSE Part(c, i, x + 1, h)
       /\ body \in Seq(Unit) /\ Len(body) = k
       /\ Part(c, i, x, n) = IF inBody THEN body ELSE <<Head(buf)>> \o body
  <2>2. /\ <<Head(Part(c, i, x, n))>> \o Tail(Part(c, i, x, n)) = Part(c, i, x, n)
        /\ Tail(Part(c, i, x, n)) = Part(c, i, x + 1, h)
    BY <1>12, <1>13, Beheaded
  <2>3. IsPart(Part(c, i, x + 1, h), c, i, x + 1, h)
    BY <1>13, PartFacts
  <2>4. CASE inBody
    <3>1. body = buf /\ k = n
      BY <2>4
    <3> QED BY <1>14, <2>4, <3>1 DEF IsPart
  <2>5. CASE ~inBody
    <3>1. body = Tail(buf) /\ k = h
      <4>1. k = n - 1
        BY <2>5
      <4>2. n - 1 = h
        BY <1>12
      <4>3. body = Tail(buf)
        BY <2>5
      <4> QED BY <4>1, <4>2, <4>3
    <3>2. body = Part(c, i, x + 1, h)
      BY <1>14, <2>2, <3>1
    <3>3. body \in Seq(Unit) /\ Len(body) = h
      BY <2>3, <3>2 DEF IsPart
    <3>4. Part(c, i, x, n) = <<Head(buf)>> \o body
      BY <1>14, <2>2, <3>1
    <3> QED BY <2>5, <3>1, <3>2, <3>3, <3>4
  <2> QED BY <2>4, <2>5
<1>19. out.units = body /\ out.rest = <<>> /\ out.p = p2
  <2> HIDE DEF body, p1, k
  <2> QED BY <1>17, <1>18, RelayedFacts DEF p2
<1>20. Finished(out.p, out.units) <=> x + n = Reply(c, i)
  <2>1. CASE q.chunked
    <3>1. Finished(out.p, out.units) <=> \E u \in ToSet(body) : IsLast(u)
      <4>1. out.p.chunked /\ out.units = body
        BY <1>17, <1>19, <2>1
      <4> HIDE DEF out, body
      <4> QED BY <4>1 DEF Finished
    <3>2. CASE inBody
      <4>1. body = Part(c, i, x, n)
        BY <1>18, <3>2
      <4>2. (\E u \in ToSet(Part(c, i, x, n)) : IsLast(u)) <=> n > 0 /\ x + n = Reply(c, i)
        <5>1. x + n <= Reply(c, i)
          BY <1>11
        <5> QED BY <5>1, LastUnit
      <4>3. n > 0
        BY <1>8
      <4> HIDE DEF out, body
      <4> QED BY <3>1, <4>1, <4>2, <4>3
    <3>3. CASE ~inBody
      <4>1. body = Part(c, i, x + 1, h)
        BY <1>18, <3>3
      <4>2. (x + 1) + h = x + n /\ x = 0 /\ (h = 0 => x + n # Reply(c, i))
        <5>1. q.answer \in Nat /\ q.answer > 0 /\ Reply(c, i) = q.answer + 1
          BY <1>16, <2>1
        <5>2. x = 0
          BY <1>17, <3>3
        <5> HIDE DEF q, inBody
        <5>3. (x + 1) + h = x + n
          BY <1>12
        <5> QED BY <1>12, <5>1, <5>2, <5>3
      <4>3. (x + 1) + h <= Reply(c, i)
        BY <1>11, <4>2
      <4>4. (\E u \in ToSet(Part(c, i, x + 1, h)) : IsLast(u))
            <=> h > 0 /\ (x + 1) + h = Reply(c, i)
        BY <1>13, <4>3, LastUnit, SMTT(60)
      <4> HIDE DEF out, body
      <4> QED BY <3>1, <4>1, <4>2, <4>4
    <3> QED BY <3>2, <3>3
  <2>2. CASE ~q.chunked
    <3>1. ~out.p.chunked /\ out.p = p2
      BY <1>17, <1>19, <2>2
    <3>2. Finished(out.p, out.units) <=> GotAll(p2)
      <4> HIDE DEF out, p2
      <4> QED BY <3>1 DEF Finished
    <3> HIDE DEF out, p2
    <3> QED BY <1>16, <1>17, <2>2, <3>2
  <2> QED BY <2>1, <2>2
<1> DEFINE done == Finished(out.p, out.units)
<1>21. /\ cGot' = ToClient(c, IF inBody THEN out.units ELSE <<Head(buf)>> \o out.units)
       /\ bBuf' = [bBuf EXCEPT ![r] = out.rest] /\ bIn' = [bIn EXCEPT ![r] = <<>>]
       /\ context' = [context EXCEPT ![c] = IF done THEN Reset(out.p) ELSE out.p]
       /\ IF done THEN Return(r, context'[c])
                  ELSE UNCHANGED <<bound, busy, pending, idle, link>>
       /\ UNCHANGED <<closing, errors, up, asked, cEnd, cIn, cBuf, said, bEnd, addr,
                      bGot, stranded>>
  <2>1. q = Plan[c][buf[1][2]]
    BY <1>15
  <2> QED BY <1>2, <2>1, Zenon DEF RemoteMessage
<1> HIDE DEF out, body, p2, p1, k, inBody, buf
<1>22. Answered(c, r, i, x, n, p2)
  <2>1. cGot' = ToClient(c, Part(c, i, x, n))
    <3>1. Part(c, i, x, n) = IF inBody THEN out.units ELSE <<Head(buf)>> \o out.units
      BY <1>18, <1>19
    <3> QED BY <1>21, <3>1
  <2>2. bBuf' = [bBuf EXCEPT ![r] = <<>>] /\ bIn' = [bIn EXCEPT ![r] = <<>>]
    BY <1>19, <1>21
  <2>3. context' = [context EXCEPT ![c] = IF x + n = Reply(c, i) THEN Reset(p2) ELSE p2]
    BY <1>19, <1>20, <1>21
  <2>4. IF x + n = Reply(c, i) THEN Return(r, context'[c])
                               ELSE UNCHANGED <<bound, busy, pending, idle, link>>
    BY <1>20, <1>21
  <2>5. /\ Carried(c, r, i, Size(c, i), x)
        /\ x + n # Reply(c, i) => Parsed(p2, Plan[c][i], Size(c, i), x + n)
    BY <1>5, <1>10, <1>16, <1>17
  <2>6. p2 \in Context /\ ~p2.isReq /\ p2.client = r
    BY <1>17
  <2> QED BY <1>3, <1>8, <1>11, <1>21, <2>1, <2>2, <2>3, <2>4, <2>5, <2>6 DEF Answered
<1> QED BY <1>2, <1>4, <1>17, <1>22

(* The answer goes on: the RemoteClient carries the same request. *)
LEMMA AnswerGoesOn ==
  ASSUME GatewayInv, NEW c \in Clients, NEW r \in Remotes, context[c].client = r,
         bound[r] = c, NEW i \in 1..Len(Plan[c]), NEW x \in Nat, NEW n \in Nat,
         NEW p \in Context, Answered(c, r, i, x, n, p), x + n # Reply(c, i)
  PROVE  GatewayInv'
<1>1. FieldsOK /\ ClientOK(c) /\ RemoteOK(r) /\ Apart
  BY DEF GatewayInv, ClientsOK, RemotesOK
<1>2. PICK m \in Nat : m = Size(c, i)
  BY PlanFacts
<1>3. /\ n > 0 /\ x + n <= Reply(c, i) /\ Carried(c, r, i, m, x)
      /\ link[r] = "up" /\ r \in ready /\ ready' = ready \ {r}
      /\ said[r] + Reply(c, i) = Len(Due(bGot[r])) + (x + n)
      /\ p.client = r /\ Parsed(p, Plan[c][i], m, x + n)
  BY <1>2 DEF Answered
<1>4. /\ cGot' = ToClient(c, Part(c, i, x, n))
      /\ bBuf' = [bBuf EXCEPT ![r] = <<>>] /\ bIn' = [bIn EXCEPT ![r] = <<>>]
      /\ context' = [context EXCEPT ![c] = p]
      /\ bound' = bound /\ busy' = busy /\ pending' = pending /\ idle' = idle /\ link' = link
      /\ closing' = closing /\ errors' = errors /\ up' = up /\ asked' = asked /\ cEnd' = cEnd
      /\ cIn' = cIn /\ cBuf' = cBuf /\ said' = said /\ addr' = addr /\ bGot' = bGot
      /\ stranded' = stranded
  BY DEF Answered
<1>5. /\ up[c] # "gone" /\ busy[r]
  BY <1>1, HolderFacts DEF GatewayInv
<1>6. /\ bBuf'[r] = <<>> /\ bIn'[r] = <<>> /\ context'[c] = p
      /\ \A s \in Remotes : s # r => bBuf'[s] = bBuf[s] /\ bIn'[s] = bIn[s]
      /\ \A d \in Clients : d # c => context'[d] = context[d]
  BY <1>1, <1>4 DEF FieldsOK, ClientFields, RemoteFields, PeerFields
<1>7. /\ cGot' \in [Clients -> Seq(Unit \cup {Own})]
      /\ Has(c, i, x + n)' /\ InOrder(c)'
      /\ up[c] # "up" => cGot'[c] = cGot[c]
      /\ \A d \in Clients : d # c => cGot'[d] = cGot[d]
  <2>1. Has(c, i, x)
    BY <1>3 DEF Carried
  <2>2. x + n <= Reply(c, i) /\ cGot' = ToClient(c, Part(c, i, x, n)) /\ up' = up
    BY <1>3, <1>4
  <2> QED BY <1>1, <2>1, <2>2, HasMore
<1>8. FieldsOK'
  <2>1. ClientFields'
    BY <1>1, <1>4, <1>7 DEF FieldsOK, ClientFields
  <2>2. LoopFields'
    BY <1>1, <1>3, <1>4 DEF FieldsOK, LoopFields
  <2>3. <<>> \in Seq(Unit)
    OBVIOUS
  <2>4. RemoteFields' /\ PeerFields'
    BY <1>1, <1>4, <2>3 DEF FieldsOK, RemoteFields, PeerFields
  <2>5. PoolFields'
    BY <1>1, <1>4 DEF FieldsOK, PoolFields
  <2> QED BY <2>1, <2>2, <2>4, <2>5 DEF FieldsOK
<1>9. LoopOK'
  BY <1>3, <1>4 DEF GatewayInv, LoopOK
<1>10. Holding(c, r, i, m, x + n)'
  <2>1. /\ pending[r] = <<>> /\ bGot[r] # <<>> /\ bGot[r][Len(bGot[r])] = <<c, i, m - 1>>
    BY <1>3 DEF Carried, Holding
  <2>2. Owed(c, i, m) = Reply(c, i)
    BY <1>2 DEF Owed
  <2>3. /\ said'[r] + Owed(c, i, m) = Len(Due(bGot'[r])) + (x + n) + Len(bIn'[r])
        /\ (x + n) + Len(bIn'[r]) <= Owed(c, i, m)
    <3>1. Len(bIn'[r]) = 0
      BY <1>6
    <3>2. Len(Due(bGot[r])) \in Nat
      BY <1>1, DueType DEF FieldsOK, RemoteFields
    <3>3. \A d, y \in Nat : d + y = d + y + 0 /\ y + 0 = y
      OBVIOUS
    <3>4. x + n \in Nat
      OBVIOUS
    <3> QED BY <1>3, <1>4, <2>2, <3>1, <3>2, <3>3, <3>4
  <2>4. bIn'[r] = Part(c, i, x + n, Len(bIn'[r]))
    <3>1. bIn'[r] = <<>> /\ Len(bIn'[r]) = 0
      BY <1>6
    <3> QED BY <3>1 DEF Part
  <2>5. link'[r] = "up" /\ busy'[r] /\ bound'[r] = c
    BY <1>3, <1>4, <1>5
  <2> QED BY <1>4, <2>1, <2>3, <2>4, <2>5 DEF Holding, Trying
<1>11. ClientOK(c)'
  <2>1. Facing(c, i, m)'
    BY <1>3, <1>4 DEF Carried, Facing
  <2>2. /\ cBuf'[c] = <<>> /\ Parsed(context'[c], Plan[c][i], m, x + n)
        /\ context'[c].client = r /\ i <= Len(Plan[c])
    BY <1>3, <1>4, <1>6 DEF Carried
  <2>3. Carried(c, r, i, m, x + n)'
    BY <1>7, <1>10, <2>1, <2>2 DEF Carried
  <2>4. i \in 1..(Len(Plan[c]) + 1) /\ x + n \in Nat
    BY PlanFacts
  <2>5. ClientAt(c, i)'
    BY <2>3, <2>4 DEF ClientAt
  <2>6. up'[c] = "shut" => cGot'[c] # <<>> /\ Last(cGot'[c]) = Own
    BY <1>1, <1>4, <1>7 DEF ClientOK
  <2> QED BY <1>4, <1>5, <1>7, <2>4, <2>5, <2>6 DEF ClientOK
<1>12. RemoteOK(r)'
  <2>1. context'[bound'[r]].client = r /\ bound'[r] \in Clients
    BY <1>3, <1>4, <1>6
  <2> QED BY <1>1, <1>3, <1>4, <1>6, <2>1 DEF RemoteOK, Trying
<1>13. ClientsOK' /\ RemotesOK' /\ PoolsOK'
  <2>1. Elsewhere(c, r)
    BY <1>4, <1>6, <1>7 DEF Elsewhere, SameInput, SameLoad
  <2>2. /\ \A d \in Clients : d # c => context[d].client # r
        /\ \A t \in Targets : ~Pooled(r, t)
    BY OnlyHolder
  <2>3. context'[c].client = context[c].client
    BY <1>3, <1>6
  <2>4. /\ \A d \in Clients : d # c => ClientOK(d)'
        /\ \A s \in Remotes : s # r => RemoteOK(s)'
        /\ \A t \in Targets :
             idle'[t] = idle[t] /\ (r \in Remotes => ~Pooled(r, t)) => PoolOK(t)'
    BY <2>1, <2>2, <2>3, OthersKept
  <2> QED BY <1>4, <1>11, <1>12, <2>2, <2>4 DEF ClientsOK, RemotesOK, PoolsOK
<1>14. Apart'
  BY <1>1, <1>4 DEF Apart, Held, Used
<1> QED BY <1>8, <1>9, <1>13, <1>14 DEF GatewayInv

(* A request and its answer have passed: the next is due. *)
LEMMA NextIsDue ==
  ASSUME FieldsOK, NEW c \in Clients, NEW r, NEW i \in 1..Len(Plan[c]), NEW m \in Nat,
         m = Size(c, i), NEW x \in Nat, NEW y \in Nat, y = Reply(c, i),
         Carried(c, r, i, m, x), asked' = asked, cBuf' = cBuf, cIn' = cIn,
         Has(c, i, y)', Clean(context'[c]), context'[c].client = None
  PROVE  Fresh(c, i + 1)'
<1>1. PICK j \in Nat : j = i + 1
  <2>1. i + 1 \in Nat
    BY PlanFacts
  <2> QED BY <2>1
<1>2. cBuf[c] = <<>> /\ cIn[c] \in Seq(Unit) /\ Facing(c, i, m)
  BY DEF Carried, FieldsOK, ClientFields
<1>3. PICK k \in Nat : /\ asked[c] = AskAt(c, i) + m + k
                       /\ k > 0 => m + k <= Size(c, i)
                       /\ cBuf[c] \o cIn[c] = Part(c, i, m, k)
  BY <1>2 DEF Facing
<1>4. k = 0
  BY <1>3
<1>5. Facing(c, j, 0)'
  <2>1. asked'[c] = AskAt(c, j) + 0 + 0
    <3>1. AskAt(c, i) \in Nat /\ AskAt(c, i + 1) = AskAt(c, i) + Size(c, i)
      BY AskFacts
    <3> QED BY <1>1, <1>3, <1>4, <3>1
  <2>2. cBuf'[c] \o cIn'[c] = Part(c, j, 0, 0)
    BY <1>3, <1>4 DEF Part
  <2> QED BY <2>1, <2>2 DEF Facing
<1>6. Has(c, j, 0)'
  <2>1. /\ AnswerAt(c, j) + 0 = AnswerAt(c, i) + y
    <3>1. AnswerAt(c, i) \in Nat /\ AnswerAt(c, i + 1) = AnswerAt(c, i) + Reply(c, i)
      BY AnswerFacts
    <3> QED BY <1>1, <3>1
  <2> QED BY <2>1 DEF Has
<1> QED BY <1>1, <1>2, <1>5, <1>6 DEF Fresh

(* The answer ends: the RemoteClient goes back into its pool or is let go, *)
(* and the client's next request is due.                                   *)
LEMMA AnswerEnds ==
  ASSUME GatewayInv, NEW c \in Clients, NEW r \in Remotes, context[c].client = r,
         bound[r] = c, NEW i \in 1..Len(Plan[c]), NEW x \in Nat, NEW n \in Nat,
         NEW p \in Context, Answered(c, r, i, x, n, p), x + n = Reply(c, i)
  PROVE  GatewayInv'
<1>1. FieldsOK /\ ClientOK(c) /\ RemoteOK(r) /\ Apart
  BY DEF GatewayInv, ClientsOK, RemotesOK
<1>2. PICK m \in Nat : m = Size(c, i)
  BY PlanFacts
<1>3. /\ n > 0 /\ x + n <= Reply(c, i) /\ Carried(c, r, i, m, x)
      /\ link[r] = "up" /\ r \in ready /\ ready' = ready \ {r}
      /\ said[r] + Reply(c, i) = Len(Due(bGot[r])) + (x + n) /\ ~p.isReq
  BY <1>2 DEF Answered
<1>4. PICK z \in Context : z = Reset(p) /\ Clean(z) /\ z.client = None
  BY <1>3, ResetFacts
<1>5. /\ cGot' = ToClient(c, Part(c, i, x, n))
      /\ bBuf' = [bBuf EXCEPT ![r] = <<>>] /\ bIn' = [bIn EXCEPT ![r] = <<>>]
      /\ context' = [context EXCEPT ![c] = z] /\ Return(r, context'[c])
      /\ closing' = closing /\ errors' = errors /\ up' = up /\ asked' = asked /\ cEnd' = cEnd
      /\ cIn' = cIn /\ cBuf' = cBuf /\ said' = said /\ addr' = addr /\ bGot' = bGot
      /\ stranded' = stranded
  BY <1>4 DEF Answered
<1>6. /\ bBuf'[r] = <<>> /\ bIn'[r] = <<>> /\ context'[c] = z
      /\ \A s \in Remotes : s # r => bBuf'[s] = bBuf[s] /\ bIn'[s] = bIn[s]
      /\ \A d \in Clients : d # c => context'[d] = context[d]
  BY <1>1, <1>5 DEF FieldsOK, ClientFields, RemoteFields, PeerFields
<1>7. PICK t \in Targets : t = addr[r]
  BY <1>1, <1>3 DEF RemoteOK
<1>8. /\ bound' = [bound EXCEPT ![r] = None] /\ busy' = [busy EXCEPT ![r] = FALSE]
      /\ pending' = [pending EXCEPT ![r] = <<>>]
      /\ idle' = IF Len(idle[t]) < MaxIdle THEN [idle EXCEPT ![t] = Append(@, r)] ELSE idle
      /\ link' = Orphaned(link, idle', context')
  <2>1. [context EXCEPT ![bound[r]] = context'[c]] = context'
    BY <1>5, <1>6
  <2> QED BY <1>5, <1>7, <2>1 DEF Return
<1>9. /\ bound'[r] = None /\ ~busy'[r] /\ pending'[r] = <<>>
      /\ \A s \in Remotes : s # r => /\ bound'[s] = bound[s] /\ busy'[s] = busy[s]
                                     /\ pending'[s] = pending[s]
  BY <1>1, <1>8 DEF FieldsOK, RemoteFields
<1>10. /\ link' \in [Remotes -> Links]
       /\ \A s \in Remotes : link'[s] = link[s] \/ (link'[s] = "orphan" /\ link[s] # "none")
       /\ \A s \in Remotes : (\E d \in Clients : context'[d].client = s) => link'[s] = link[s]
       /\ \A s \in Remotes : (\E v \in Targets : s \in ToSet(idle'[v])) => link'[s] = link[s]
       /\ \A s \in Remotes :
            /\ link[s] \notin {"none", "orphan"} /\ \A d \in Clients : context'[d].client # s
            /\ \A v \in Targets : s \notin ToSet(idle'[v])
            => link'[s] = "orphan"
  <2>1. FieldsOK /\ link' = Orphaned(link, idle', context')
    BY <1>1, <1>8
  <2> QED BY <2>1, OrphanedFacts
<1>11. /\ cGot' \in [Clients -> Seq(Unit \cup {Own})]
       /\ Has(c, i, x + n)' /\ InOrder(c)'
       /\ up[c] # "up" => cGot'[c] = cGot[c]
       /\ \A d \in Clients : d # c => cGot'[d] = cGot[d]
  <2>1. Has(c, i, x)
    BY <1>3 DEF Carried
  <2>2. x + n <= Reply(c, i) /\ cGot' = ToClient(c, Part(c, i, x, n)) /\ up' = up
    BY <1>3, <1>5
  <2> QED BY <1>1, <2>1, <2>2, HasMore
<1>12. idle \in [Targets -> Seq(Remotes)] /\ MaxIdle \in Nat
  BY <1>1, GatewayAssumption DEF FieldsOK, PoolFields
<1>13. ASSUME NEW v \in Targets
       PROVE  \/ idle'[v] = idle[v]
              \/ v = t /\ Len(idle[v]) < MaxIdle /\ idle'[v] = Append(idle[v], r)
  BY <1>8, <1>12
<1>14. FieldsOK'
  <2>1. ClientFields'
    BY <1>1, <1>5, <1>11 DEF FieldsOK, ClientFields
  <2>2. LoopFields'
    BY <1>1, <1>3, <1>5 DEF FieldsOK, LoopFields
  <2>3. <<>> \in Seq(Unit) /\ <<>> \in Seq(RequestUnit)
    OBVIOUS
  <2>4. PeerFields'
    BY <1>1, <1>5, <2>3 DEF FieldsOK, PeerFields
  <2>5. RemoteFields'
    BY <1>1, <1>5, <1>8, <1>10, <2>3 DEF FieldsOK, RemoteFields
  <2>6. PoolFields'
    <3>1. Append(idle[t], r) \in Seq(Remotes)
      BY <1>12
    <3>2. idle' \in [Targets -> Seq(Remotes)]
      BY <1>8, <1>12, <3>1
    <3> QED BY <1>1, <1>5, <3>2 DEF FieldsOK, PoolFields
  <2> QED BY <2>1, <2>2, <2>4, <2>5, <2>6 DEF FieldsOK
<1>15. LoopOK'
  BY <1>3, <1>5 DEF GatewayInv, LoopOK
<1>16. /\ \A d \in Clients : d # c => context[d].client # r
       /\ \A v \in Targets : ~Pooled(r, v)
  BY OnlyHolder
<1>17. \A s \in Remotes : s # r => SameLoad(s)
  BY <1>5, <1>6, <1>9 DEF SameLoad
<1>18. ClientsOK'
  <2>1. ClientOK(c)'
    <3>1. Fresh(c, i + 1)'
      <4>1. PICK y \in Nat : y = x + n
        OBVIOUS
      <4>2. Has(c, i, y)' /\ y = Reply(c, i)
        BY <1>11, <4>1
      <4>3. Clean(context'[c]) /\ context'[c].client = None
        BY <1>4, <1>6
      <4> QED BY <1>1, <1>2, <1>3, <1>5, <4>2, <4>3, NextIsDue
    <3>2. i + 1 \in 1..(Len(Plan[c]) + 1) /\ ClientAt(c, i + 1)'
      <4>1. i + 1 \in 1..(Len(Plan[c]) + 1)
        BY PlanFacts
      <4> QED BY <3>1, <4>1 DEF ClientAt
    <3>3. up'[c] = "shut" => cGot'[c] # <<>> /\ Last(cGot'[c]) = Own
      BY <1>1, <1>5, <1>11 DEF ClientOK
    <3>4. up'[c] # "gone"
      BY <1>1, <1>5, HolderFacts DEF GatewayInv
    <3> QED BY <1>11, <3>2, <3>3, <3>4 DEF ClientOK
  <2>2. ASSUME NEW d \in Clients, d # c PROVE ClientOK(d)'
    <3>1. ClientOK(d) /\ SameInput(d) /\ up'[d] = up[d] /\ cGot'[d] = cGot[d]
      BY <1>5, <1>6, <1>11, <2>2 DEF GatewayInv, ClientsOK, SameInput
    <3>2. ASSUME NEW s \in Remotes, context[d].client = s PROVE Carrying(s)
      <4>1. s # r /\ context'[d].client = s
        BY <1>6, <1>16, <2>2, <3>2
      <4>2. link'[s] = link[s]
        BY <1>10, <4>1
      <4> QED BY <1>9, <1>17, <4>1, <4>2 DEF Carrying, SameLink
    <3> QED BY <3>1, <3>2, ClientKept
  <2> QED BY <2>1, <2>2 DEF ClientsOK
<1>19. RemotesOK'
  <2>1. RemoteOK(r)'
    <3>1. link'[r] \in {"up", "orphan"}
      BY <1>3, <1>10
    <3>2. bGot'[r] = bGot[r] /\ addr'[r] \in Targets
      BY <1>5, <1>7
    <3> QED BY <1>1, <1>6, <1>9, <3>1, <3>2 DEF RemoteOK, Trying
  <2>2. ASSUME NEW s \in Remotes, s # r, link'[s] # link[s] PROVE RemoteOK(s)'
    <3>1. RemoteOK(s) /\ link'[s] = "orphan" /\ link[s] # "none"
      BY <1>10, <2>2 DEF GatewayInv, RemotesOK
    <3>2. bBuf'[s] = <<>> /\ addr'[s] = addr[s] /\ bGot'[s] = bGot[s]
      BY <1>5, <1>6, <2>2, <3>1 DEF RemoteOK
    <3> QED BY <3>1, <3>2, RemoteOrphaned
  <2>3. ASSUME NEW s \in Remotes, s # r, link'[s] = link[s] PROVE RemoteOK(s)'
    <3>1. RemoteOK(s)
      BY DEF GatewayInv, RemotesOK
    <3>2. ASSUME link[s] \notin {"none", "orphan"}, busy[s]
          PROVE  context'[bound[s]].client = context[bound[s]].client
      <4>1. bound[s] \in Clients /\ context[bound[s]].client = s
        BY <3>1, <3>2 DEF RemoteOK
      <4>2. bound[s] # c
        BY <2>3, <4>1
      <4> QED BY <1>6, <4>1, <4>2
    <3>3. /\ addr'[s] = addr[s] /\ bound'[s] = bound[s] /\ busy'[s] = busy[s]
          /\ bBuf'[s] = bBuf[s] /\ SameLoad(s)
      BY <1>5, <1>6, <1>9, <1>17, <2>3
    <3> QED BY <2>3, <3>1, <3>2, <3>3, RemoteKept
  <2> QED BY <2>1, <2>2, <2>3 DEF RemotesOK
<1>20. ASSUME Pooled(r, t)' PROVE Idle(r, t)'
  <2>1. said'[r] = Len(Due(bGot'[r]))
    <3>1. /\ said[r] \in Nat /\ Len(Due(bGot[r])) \in Nat /\ Reply(c, i) \in Nat
      BY <1>1, DueType, PlanFacts DEF FieldsOK, PeerFields, RemoteFields
    <3>2. \A a, b, d \in Nat : a + b = d + b => a = d
      OBVIOUS
    <3>3. said[r] + Reply(c, i) = Len(Due(bGot[r])) + Reply(c, i)
      BY <1>3
    <3> QED BY <1>5, <3>1, <3>2, <3>3
  <2>2. Ends(bGot'[r][Len(bGot'[r])])
    <3>1. bGot[r][Len(bGot[r])] = <<c, i, m - 1>>
      BY <1>3 DEF Carried, Holding
    <3>2. m - 1 = Plan[c][i].body
      BY <1>2, PlanFacts, SMTT(60) DEF Size
    <3>3. Ends(<<c, i, m - 1>>)
      BY <3>2 DEF Ends
    <3> QED BY <1>5, <3>1, <3>3
  <2>3. link'[r] = link[r]
    <3>1. idle'[t] \in Seq(Remotes)
      BY <1>14 DEF FieldsOK, PoolFields
    <3>2. r \in ToSet(idle'[t])
      BY <1>20, <3>1 DEF Pooled, ToSet
    <3> QED BY <1>10, <3>2
  <2> QED BY <1>3, <1>5, <1>6, <1>7, <1>9, <2>1, <2>2, <2>3 DEF Idle
<1>21. ASSUME NEW v \in Targets, NEW s \in Remotes, Pooled(s, v) PROVE Idle(s, v)'
  <2>1. s # r /\ Idle(s, v)
    BY <1>16, <1>21 DEF GatewayInv, PoolsOK, PoolOK
  <2>2. s \in ToSet(idle'[v])
    <3>1. PICK j \in 1..Len(idle[v]) : idle[v][j] = s
      BY <1>21 DEF Pooled
    <3>2. CASE idle'[v] = idle[v]
      BY <1>12, <3>1, <3>2 DEF ToSet
    <3>3. CASE idle'[v] = Append(idle[v], r)
      <4>1. idle[v] \in Seq(Remotes)
        BY <1>12
      <4>2. /\ j \in 1..Len(Append(idle[v], r)) /\ Append(idle[v], r)[j] = s
            /\ DOMAIN Append(idle[v], r) = 1..Len(Append(idle[v], r))
        BY <3>1, <4>1
      <4> QED BY <3>3, <4>2 DEF ToSet
    <3> QED BY <1>13, <3>2, <3>3
  <2>3. Resting(s)
    <3>1. link'[s] = link[s]
      BY <1>10, <2>2
    <3> QED BY <1>5, <1>9, <1>17, <2>1, <3>1 DEF Resting
  <2> QED BY <2>1, <2>3, IdleKept
<1>22. PoolsOK'
  <2> SUFFICES ASSUME NEW v \in Targets PROVE PoolOK(v)'
    BY DEF PoolsOK
  <2>1. PICK q \in Seq(Remotes) : q = idle[v]
    BY <1>12
  <2>2. /\ Len(q) <= MaxIdle /\ Len(q) \in Nat
        /\ \A j \in 1..Len(q) : \A k \in 1..(j - 1) : q[k] # q[j]
    BY <2>1 DEF GatewayInv, PoolsOK, PoolOK
  <2>3. CASE idle'[v] = idle[v]
    <3>1. \A s \in Remotes : Pooled(s, v)' => Pooled(s, v)
      BY <2>3 DEF Pooled
    <3> QED BY <1>21, <2>1, <2>2, <2>3, <3>1 DEF PoolOK
  <2>4. CASE v = t /\ Len(idle[v]) < MaxIdle /\ idle'[v] = Append(idle[v], r)
    <3>1. PICK w : w = Append(q, r) /\ idle'[v] = w
      BY <2>1, <2>4
    <3>2. /\ w \in Seq(Remotes) /\ Len(w) = Len(q) + 1 /\ w[Len(q) + 1] = r
          /\ \A j \in 1..Len(q) : w[j] = q[j]
      BY <3>1
    <3>3. Len(idle'[v]) <= MaxIdle
      BY <1>12, <2>1, <2>2, <2>4, <3>1, <3>2
    <3>4. \A j \in 1..Len(w) : j \in 1..Len(q) \/ j = Len(q) + 1
      BY <2>2, <3>2
    <3>5. \A j \in 1..Len(q) : q[j] # r
      BY <1>16, <2>1 DEF Pooled
    <3>6. ASSUME NEW j \in 1..Len(w), NEW k \in 1..(j - 1) PROVE w[k] # w[j]
      <4>1. k \in 1..Len(q) /\ (j \in 1..Len(q) \/ j = Len(q) + 1)
        <5>1. PICK l \in Nat : l = Len(q) /\ j \in 1..(l + 1)
          BY <2>2, <3>2
        <5>2. k \in 1..l
          BY <5>1
        <5> QED BY <3>4, <5>1, <5>2
      <4> QED BY <2>2, <3>2, <3>5, <4>1
    <3>7. ASSUME NEW s \in Remotes, Pooled(s, v)' PROVE Idle(s, v)'
      <4>1. PICK j \in 1..Len(w) : w[j] = s
        BY <3>1, <3>7 DEF Pooled
      <4>2. CASE j \in 1..Len(q)
        <5>1. Pooled(s, v)
          BY <2>1, <3>2, <4>1, <4>2 DEF Pooled
        <5> QED BY <1>21, <5>1
      <4>3. CASE j = Len(q) + 1
        <5>1. s = r
          BY <3>2, <4>1, <4>3
        <5> QED BY <1>20, <2>4, <3>7, <5>1
      <4> QED BY <3>4, <4>2, <4>3
    <3> QED BY <3>1, <3>3, <3>6, <3>7 DEF PoolOK
  <2> QED BY <1>13, <2>3, <2>4
<1>23. Apart'
  <2>1. \A d \in Clients : Used(d)' = Used(d) /\ Used(d) \in Int
    BY <1>1, <1>5, HeldTyped DEF Used
  <2>2. \A s \in Remotes : Held(s)' \subseteq Held(s)
    BY <1>5, <1>9 DEF Held, ToSet
  <2>3. \A d \in Clients : Used(d)' >= Used(d)
    BY <2>1
  <2> QED BY <1>1, <1>14, <2>2, <2>3, ApartKept
<1> QED BY <1>14, <1>15, <1>18, <1>19, <1>22, <1>23 DEF GatewayInv

(* RemoteMessage: a part of an answer is read and passed on; at its end    *)
(* the RemoteClient goes to the pool, or is given up.                      *)
LEMMA RemoteMessageStep ==
  ASSUME GatewayInv, NEW r \in Remotes, RemoteMessage(r) PROVE GatewayInv'
<1>1. PICK c \in Clients : /\ context[c].client = r /\ bound[r] = c
                           /\ \E i \in 1..Len(Plan[c]), x, n \in Nat, p \in Context :
                                Answered(c, r, i, x, n, p)
  BY AnswerRead
<1>2. PICK i \in 1..Len(Plan[c]), x \in Nat, n \in Nat, p \in Context :
        Answered(c, r, i, x, n, p)
  BY <1>1
<1> QED BY <1>1, <1>2, AnswerGoesOn, AnswerEnds

-----------------------------------------------------------------------------
(* The invariant holds.                                                    *)

(* The invariant holds at first.                                           *)
LEMMA GatewayInit == Init => GatewayInv
<1> SUFFICES ASSUME Init PROVE GatewayInv
  OBVIOUS
<1>1. /\ ready = {} /\ closing = {} /\ errors = {}
      /\ up = [c \in Clients |-> "up"] /\ asked = [c \in Clients |-> 0]
      /\ cEnd = [c \in Clients |-> FALSE]
      /\ cIn = [c \in Clients |-> <<>>] /\ cBuf = [c \in Clients |-> <<>>]
      /\ context = [c \in Clients |-> NewContext] /\ cGot = [c \in Clients |-> <<>>]
      /\ link = [r \in Remotes |-> "none"] /\ addr = [r \in Remotes |-> "none"]
      /\ bound = [r \in Remotes |-> None] /\ busy = [r \in Remotes |-> FALSE]
      /\ pending = [r \in Remotes |-> <<>>]
      /\ bGot = [r \in Remotes |-> <<>>] /\ said = [r \in Remotes |-> 0]
      /\ bIn = [r \in Remotes |-> <<>>] /\ bBuf = [r \in Remotes |-> <<>>]
      /\ idle = [t \in Targets |-> <<>>] /\ stranded = {}
  BY DEF Init
<1>2. /\ NewContext \in Context /\ NewContext.client = None /\ Clean(NewContext)
  BY DEF NewContext, Context, Clean
<1>3. FieldsOK
  <2>1. <<>> \in Seq(Unit) /\ <<>> \in Seq(RequestUnit) /\ <<>> \in Seq(Remotes)
        /\ <<>> \in Seq(Unit \cup {Own})
    OBVIOUS
  <2>2. LoopFields /\ PoolFields /\ PeerFields
    BY <1>1, <2>1 DEF LoopFields, PoolFields, PeerFields
  <2>3. ClientFields
    BY <1>1, <1>2, <2>1 DEF ClientFields
  <2>4. RemoteFields
    BY <1>1, <2>1 DEF RemoteFields, Links
  <2> QED BY <2>2, <2>3, <2>4 DEF FieldsOK
<1>4. LoopOK
  BY <1>1 DEF LoopOK
<1>5. ClientsOK
  <2> SUFFICES ASSUME NEW c \in Clients PROVE ClientOK(c)
    BY DEF ClientsOK
  <2>1. /\ up[c] = "up" /\ asked[c] = 0 /\ cIn[c] = <<>> /\ cBuf[c] = <<>>
        /\ context[c] = NewContext /\ cGot[c] = <<>>
    BY <1>1
  <2>2. Facing(c, 1, 0)
    <3>1. asked[c] = AskAt(c, 1) + 0 + 0
      BY <2>1, AskFacts
    <3>2. cBuf[c] \o cIn[c] = Part(c, 1, 0, 0)
      BY <2>1 DEF Part
    <3> QED BY <3>1, <3>2 DEF Facing
  <2>3. PICK A \in Seq(Unit) : A = Answers[c] /\ Len(A) \in Nat
    BY AnswerFacts
  <2>4. SubSeq(A, 1, 0) = <<>>
    BY <2>3
  <2>5. Has(c, 1, 0)
    <3>1. AnswerAt(c, 1) = 0
      BY AnswerFacts
    <3> QED BY <2>1, <2>3, <2>4, <3>1 DEF Has
  <2>6. ClientAt(c, 1)
    BY <1>2, <2>1, <2>2, <2>5 DEF ClientAt, Fresh
  <2>7. InOrder(c)
    BY <2>1, <2>3, <2>4 DEF InOrder, IsPrefix
  <2>8. 1 \in 1..(Len(Plan[c]) + 1)
    BY PlanFacts
  <2> QED BY <2>1, <2>6, <2>7, <2>8 DEF ClientOK
<1>6. RemotesOK
  BY <1>1 DEF RemotesOK, RemoteOK, Chained, Trying
<1>7. PoolsOK
  BY <1>1, GatewayAssumption DEF PoolsOK, PoolOK, Pooled
<1>8. Apart
  BY <1>1 DEF Apart, Held, ToSet
<1> QED BY <1>3, <1>4, <1>5, <1>6, <1>7, <1>8 DEF GatewayInv

(* Every step keeps the invariant.                                         *)
LEMMA GatewayStep == GatewayInv /\ [Next]_vars => GatewayInv'
<1> SUFFICES ASSUME GatewayInv, [Next]_vars PROVE GatewayInv'
  OBVIOUS
<1>1. CASE Poll
  BY <1>1, PollStep
<1>2. CASE RunFunctors
  BY <1>2, RunFunctorsStep
<1>3. ASSUME NEW c \in Clients, ClientTurn(c) PROVE GatewayInv'
  <2>1. CASE ClientBody(c)
    BY <2>1, ClientBodyStep
  <2>2. CASE ClientRefused(c)
    BY <2>2, ClientRefusedStep
  <2>3. CASE ClientDown(c)
    BY <2>3, ClientDownStep
  <2>4. ASSUME NEW t \in Targets, BorrowIdle(c, t) PROVE GatewayInv'
    BY <2>4, BorrowIdleStep
  <2>5. ASSUME NEW t \in Targets, BorrowNew(c, t) PROVE GatewayInv'
    BY <2>5, BorrowNewStep
  <2> QED BY <1>3, <2>1, <2>2, <2>3, <2>4, <2>5 DEF ClientTurn
<1>4. ASSUME NEW r \in Remotes, RemoteTurn(r) PROVE GatewayInv'
  <2>1. CASE RemoteUp(r)
    BY <2>1, RemoteUpStep
  <2>2. CASE RemoteRefused(r)
    BY <2>2, RemoteRefusedStep
  <2>3. CASE RemoteMessage(r)
    BY <2>3, RemoteMessageStep
  <2>4. CASE RemoteDown(r)
    BY <2>4, RemoteDownStep
  <2> QED BY <1>4, <2>1, <2>2, <2>3, <2>4 DEF RemoteTurn
<1>5. ASSUME NEW c \in Clients, ClientSends(c) \/ ClientEnds(c) PROVE GatewayInv'
  BY <1>5, ClientSendsStep, ClientEndsStep
<1>6. ASSUME NEW r \in Remotes, BackendDecides(r) \/ BackendSends(r) \/ BackendEnds(r)
      PROVE  GatewayInv'
  BY <1>6, BackendDecidesStep, BackendSendsStep, BackendEndsStep
<1>7. CASE UNCHANGED vars
  <2>1. /\ UNCHANGED loopVars /\ UNCHANGED clientVars /\ UNCHANGED peerVars
        /\ UNCHANGED remoteVars /\ UNCHANGED <<idle, stranded>>
    BY <1>7 DEF vars
  <2>2. FieldsOK'
    BY <2>1, FieldsKept DEF GatewayInv, FieldsOK
  <2>3. UNCHANGED <<up, asked, cIn, cBuf, context, cGot, said, bIn, remoteVars, idle>>
    BY <2>1 DEF clientVars, peerVars
  <2>4. ClientsOK' /\ RemotesOK' /\ PoolsOK' /\ Apart'
    BY <2>2, <2>3, InertStep
  <2>5. LoopOK'
    BY <2>1 DEF GatewayInv, LoopOK, loopVars, clientVars
  <2> QED BY <2>2, <2>4, <2>5 DEF GatewayInv
<1> QED BY <1>1, <1>2, <1>3, <1>4, <1>5, <1>6, <1>7 DEF Next, Loop, Peers

(* The gateway's invariant: where each client is in its requests, where    *)
(* each RemoteClient is in what it carries, and that no unit is in two     *)
(* places.                                                                 *)
THEOREM GatewayInvariant == Spec => []GatewayInv
BY GatewayInit, GatewayStep, PTL DEF Spec

(* Clients get the answers to their own requests, in order and each whole  *)
(* before the next, whatever requests share connections                    *)
(* (L7/RemoteClient.cc:48-132).                                            *)
THEOREM OwnAnswersInOrder == Spec => []AnswersInOrder
<1>1. GatewayInv => AnswersInOrder
  BY DEF GatewayInv, ClientsOK, ClientOK, InOrder, AnswersInOrder
<1> QED BY <1>1, GatewayInvariant, PTL

(* Backends read whole requests, and none that another was sent            *)
(* (L7/LB_Server.h:97-181, ConnecitonPool.cc:10-51).                       *)
THEOREM WholeRequestsOnce == Spec => []RequestsWhole
<1>1. GatewayInv => RequestsWhole
  <2> SUFFICES ASSUME GatewayInv PROVE RequestsWhole
    OBVIOUS
  <2>1. ASSUME NEW r \in Remotes PROVE Chained(bGot[r])
    BY DEF GatewayInv, RemotesOK, RemoteOK
  <2>2. ASSUME NEW r \in Remotes, NEW s \in Remotes \ {r}
        PROVE  ToSet(bGot[r]) \cap ToSet(bGot[s]) = {}
    BY DEF GatewayInv, Apart, Held
  <2> QED BY <2>1, <2>2 DEF RequestsWhole, Chained
<1> QED BY <1>1, GatewayInvariant, PTL

(* A RemoteClient is lent to the one client that holds it or lies clean in *)
(* the pool of its node, once (L7/RemoteClient.h:16-24,                    *)
(* ConnecitonPool.cc:53-70).                                               *)
THEOREM LentOrPooled == Spec => []LentOrIdle
<1>1. GatewayInv => LentOrIdle
  <2> SUFFICES ASSUME GatewayInv PROVE LentOrIdle
    OBVIOUS
  <2>1. TypeOK
    BY FieldsTyped DEF GatewayInv
  <2>2. ASSUME NEW c \in Clients, NEW r \in Remotes, context[c].client = r
        PROVE  busy[r] /\ bound[r] = c
    BY <2>2, HolderFacts DEF GatewayInv
  <2>3. ASSUME NEW t \in Targets
        PROVE  /\ idle[t] \in Seq(Remotes) /\ Len(idle[t]) <= MaxIdle
               /\ \A r \in Remotes : Pooled(r, t) => Idle(r, t)
               /\ \A j \in 1..Len(idle[t]) : \A i \in 1..(j - 1) : idle[t][i] # idle[t][j]
    BY DEF GatewayInv, FieldsOK, PoolFields, PoolsOK, PoolOK
  <2>4. ASSUME NEW t \in Targets, NEW j \in DOMAIN idle[t], NEW r, r = idle[t][j]
        PROVE  /\ addr[r] = t /\ link[r] \in {"up", "down"} /\ ~busy[r] /\ bound[r] = None
               /\ pending[r] = <<>> /\ bIn[r] = <<>> /\ bBuf[r] = <<>>
               /\ said[r] = Len(Due(bGot[r]))
               /\ \A i \in 1..(j - 1) : idle[t][i] # r
    <3>1. j \in 1..Len(idle[t]) /\ r \in Remotes
      BY <2>3, <2>4
    <3>2. Pooled(r, t)
      BY <2>4, <3>1 DEF Pooled
    <3>3. Idle(r, t) /\ \A i \in 1..(j - 1) : idle[t][i] # r
      BY <2>3, <2>4, <3>1, <3>2
    <3>4. bBuf[r] = <<>>
      BY <3>1 DEF GatewayInv, RemotesOK, RemoteOK
    <3> QED BY <3>3, <3>4 DEF Idle
  <2> QED BY <2>1, <2>2, <2>3, <2>4 DEF LentOrIdle
<1> QED BY <1>1, GatewayInvariant, PTL

-----------------------------------------------------------------------------
(* What a backend says always finds the client that waits for it.          *)

(* A RemoteClient with a connection that no client has lies in a pool: one *)
(* that does not is given up when it is let go.                            *)
NoneLost ==
  \A r \in Remotes : link[r] \in {"up", "down"} /\ ~busy[r] =>
    \E t \in Targets : Pooled(r, t)

(* Every step keeps it: only borrowConnection takes from a pool what is    *)
(* then busy, and what RunFunctors takes from one, or returnConnection     *)
(* does not put into one, is destroyed (ConnecitonPool.cc:10-70).          *)
LEMMA NoneLostStep ==
  ASSUME GatewayInv, FieldsOK', LentOrIdle', NoneLost, [Next]_vars
  PROVE  NoneLost'
<1> SUFFICES ASSUME NEW r \in Remotes, link'[r] \in {"up", "down"}, ~busy'[r]
             PROVE  \E t \in Targets : Pooled(r, t)'
  BY DEF NoneLost
<1>1. /\ busy \in [Remotes -> BOOLEAN] /\ link \in [Remotes -> Links]
      /\ context \in [Clients -> Context] /\ bound \in [Remotes -> Clients \cup {None}]
      /\ idle \in [Targets -> Seq(Remotes)]
  BY DEF GatewayInv, FieldsOK, RemoteFields, ClientFields, PoolFields
<1>2. ASSUME link[r] \in {"up", "down"}, ~busy[r], idle' = idle
      PROVE  \E t \in Targets : Pooled(r, t)'
  <2>1. PICK t \in Targets : Pooled(r, t)
    BY <1>2 DEF NoneLost
  <2> QED BY <1>2, <2>1 DEF Pooled
<1>3. ASSUME UNCHANGED <<link, busy, idle>> PROVE \E t \in Targets : Pooled(r, t)'
  BY <1>2, <1>3
<1>4. ASSUME link' = Orphaned(link, idle', context')
      PROVE  \E t \in Targets : Pooled(r, t)'
  <2>1. \A c \in Clients : context'[c].client # r
    BY DEF LentOrIdle
  <2>2. \E t \in Targets : r \in ToSet(idle'[t])
    BY <1>4, <2>1 DEF Orphaned
  <2>3. PICK t \in Targets : r \in ToSet(idle'[t])
    BY <2>2
  <2>4. idle'[t] \in Seq(Remotes)
    BY DEF FieldsOK, PoolFields
  <2>5. PICK j \in 1..Len(idle'[t]) : idle'[t][j] = r
    BY <2>3, <2>4 DEF ToSet
  <2> QED BY <2>5 DEF Pooled
<1>5. CASE Poll
  BY <1>3, <1>5 DEF Poll, remoteVars
<1>6. CASE RunFunctors
  BY <1>4, <1>6 DEF RunFunctors
<1>7. ASSUME NEW c \in Clients, ClientBody(c) \/ ClientRefused(c) \/ ClientDown(c)
                                \/ ClientSends(c) \/ ClientEnds(c)
      PROVE  \E t \in Targets : Pooled(r, t)'
  BY <1>3, <1>7 DEF ClientBody, ClientRefused, ClientDown, ClientSends, ClientEnds, remoteVars
<1>8. ASSUME NEW c \in Clients, NEW t \in Targets, BorrowIdle(c, t)
      PROVE  \E v \in Targets : Pooled(r, v)'
  <2>1. PICK s \in Seq(Remotes) : s = idle[t]
    BY <1>1
  <2>2. s # <<>> /\ idle' = [idle EXCEPT ![t] = Front(@)]
    BY <1>8, <2>1 DEF BorrowIdle
  <2>3. /\ Len(Front(s)) = Len(s) - 1 /\ Len(s) \in Nat \ {0} /\ Last(s) = s[Len(s)]
        /\ \A j \in 1..(Len(s) - 1) : Front(s)[j] = s[j]
    BY <2>2, FrontFacts
  <2>4. link' = link /\ busy' = [busy EXCEPT ![Last(s)] = TRUE]
    BY <1>8, <2>1 DEF BorrowIdle, Forward
  <2>5. r # Last(s) /\ ~busy[r] /\ link[r] \in {"up", "down"}
    BY <1>1, <2>4
  <2>6. PICK v \in Targets : Pooled(r, v)
    BY <2>5 DEF NoneLost
  <2>7. CASE v # t
    <3>1. idle'[v] = idle[v]
      BY <1>1, <2>2, <2>7
    <3> QED BY <2>6, <3>1 DEF Pooled
  <2>8. CASE v = t
    <3>1. PICK j \in 1..Len(s) : s[j] = r
      BY <2>1, <2>6, <2>8 DEF Pooled
    <3>2. j \in 1..(Len(s) - 1)
      BY <2>3, <2>5, <3>1
    <3>3. idle'[t] = Front(s)
      BY <1>1, <2>1, <2>2
    <3> QED BY <2>3, <3>1, <3>2, <3>3 DEF Pooled
  <2> QED BY <2>7, <2>8
<1>9. ASSUME NEW c \in Clients, NEW t \in Targets, BorrowNew(c, t)
      PROVE  \E v \in Targets : Pooled(r, v)'
  <2>1. PICK q \in Remotes : /\ \/ link' = [link EXCEPT ![q] = "connecting"]
                                \/ link' = [link EXCEPT ![q] = "failed"]
                             /\ Forward(c, q, cBuf[c] \o cIn[c])
    BY <1>9, ZenonT(60) DEF BorrowNew
  <2>2. busy' = [busy EXCEPT ![q] = TRUE]
    BY <2>1 DEF Forward
  <2>3. q # r /\ busy[r] = busy'[r] /\ link[r] = link'[r]
    BY <1>1, <2>1, <2>2
  <2>4. idle' = idle
    BY <1>9 DEF BorrowNew
  <2> QED BY <1>2, <2>3, <2>4
<1>10. ASSUME NEW s \in Remotes, RemoteUp(s) \/ RemoteRefused(s) \/ RemoteDown(s)
                                 \/ BackendDecides(s)
       PROVE  \E t \in Targets : Pooled(r, t)'
  <2>1. UNCHANGED <<busy, idle>>
    BY <1>10 DEF RemoteUp, RemoteRefused, RemoteDown, BackendDecides
  <2>2. \E l : link' = [link EXCEPT ![s] = l]
    BY <1>10 DEF RemoteUp, RemoteRefused, RemoteDown, BackendDecides
  <2>3. ~busy[r] /\ (r # s => link[r] = link'[r])
    BY <1>1, <2>1, <2>2
  <2>4. RemoteOK(s)
    BY DEF GatewayInv, RemotesOK
  <2>5. CASE r = s
    <3>1. ~RemoteUp(r)
      BY <2>3, <2>4, <2>5 DEF RemoteUp, RemoteOK, Trying
    <3>2. ~RemoteRefused(r) /\ ~BackendDecides(r)
      BY <1>1 DEF RemoteRefused, BackendDecides
    <3>3. link[r] = "up"
      BY <1>10, <2>4, <2>5, <3>1, <3>2 DEF RemoteDown, RemoteOK
    <3> QED BY <1>2, <2>1, <2>3, <3>3
  <2> QED BY <1>2, <2>1, <2>3, <2>5
<1>11. ASSUME NEW s \in Remotes, RemoteMessage(s)
       PROVE  \E t \in Targets : Pooled(r, t)'
  <2>1. PICK c \in Clients : c = bound[s]
    BY <1>1, <1>11, ZenonT(80) DEF RemoteMessage
  <2>2. (\E p : context' = [context EXCEPT ![c] = p])
    BY <1>11, <2>1 DEF RemoteMessage
  <2>3. [context EXCEPT ![c] = context'[c]] = context'
    BY <1>1, <2>2, SMTT(60)
  <2>4. Return(s, context'[c]) \/ UNCHANGED <<bound, busy, pending, idle, link>>
    BY <1>11, <2>1 DEF RemoteMessage
  <2>5. CASE Return(s, context'[c])
    <3>1. link' = Orphaned(link, idle', [context EXCEPT ![c] = context'[c]])
      BY <2>1, <2>5 DEF Return
    <3> QED BY <1>4, <2>3, <3>1
  <2> QED BY <1>3, <2>4, <2>5, ZenonT(60)
<1>12. ASSUME NEW s \in Remotes, BackendSends(s) \/ BackendEnds(s)
       PROVE  \E t \in Targets : Pooled(r, t)'
  BY <1>3, <1>12 DEF BackendSends, BackendEnds, remoteVars
<1>13. CASE UNCHANGED vars
  BY <1>3, <1>13 DEF vars, remoteVars
<1> QED BY <1>5, <1>6, <1>7, <1>8, <1>9, <1>10, <1>11, <1>12, <1>13
        DEF Next, Loop, Peers, ClientTurn, RemoteTurn

(* When something a backend said is to be read, its RemoteClient is busy   *)
(* for a client that is still there: of onMessage's branches only the      *)
(* first is ever taken (L7/RemoteClient.cc:51, 124-130).                   *)
THEOREM AnswersFindTheirClient ==
  Spec => [](\A r \in Remotes : link[r] = "up" /\ bIn[r] # <<>> =>
               busy[r] /\ bound[r] \in Clients /\ up[bound[r]] # "gone")
<1> DEFINE Finds == \A r \in Remotes : link[r] = "up" /\ bIn[r] # <<>> =>
                      busy[r] /\ bound[r] \in Clients /\ up[bound[r]] # "gone"
<1>1. Init => NoneLost
  BY DEF Init, NoneLost
<1>2. GatewayInv /\ GatewayInv' /\ LentOrIdle' /\ NoneLost /\ [Next]_vars => NoneLost'
  BY NoneLostStep DEF GatewayInv
<1>3. GatewayInv /\ NoneLost => Finds
  <2> SUFFICES ASSUME GatewayInv, NoneLost, NEW r \in Remotes, link[r] = "up", bIn[r] # <<>>
               PROVE  busy[r] /\ bound[r] \in Clients /\ up[bound[r]] # "gone"
    OBVIOUS
  <2>1. busy[r]
    <3>1. SUFFICES ASSUME ~busy[r] PROVE FALSE
      BY DEF GatewayInv, FieldsOK, RemoteFields
    <3>2. PICK t \in Targets : Pooled(r, t)
      BY <3>1 DEF NoneLost
    <3>3. Idle(r, t)
      BY <3>2 DEF GatewayInv, PoolsOK, PoolOK
    <3> QED BY <3>3 DEF Idle
  <2>2. bound[r] \in Clients /\ context[bound[r]].client = r
    BY <2>1 DEF GatewayInv, RemotesOK, RemoteOK
  <2>3. up[bound[r]] # "gone"
    BY <2>2, HolderFacts DEF GatewayInv
  <2> QED BY <2>1, <2>2, <2>3
<1>4. Spec => [](GatewayInv /\ LentOrIdle)
  BY GatewayInvariant, LentOrPooled, PTL
<1> HIDE DEF Finds
<1>5. Spec => []Finds
  BY <1>1, <1>2, <1>3, <1>4, PTL DEF Spec
<1> QED BY <1>5 DEF Finds
=============================================================================
