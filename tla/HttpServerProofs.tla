--------------------------- MODULE HttpServerProofs --------------------------
(***************************************************************************)
(* Requests reach the user of an HttpServer as they were sent: for any     *)
(* messages, and however the stream is cut into reads.                     *)
(***************************************************************************)
EXTENDS HttpServer, SequenceTheorems, WellFoundedInduction, TLAPS

Message == [head : Nat \ {0}, body : Nat, wellFormed : BOOLEAN]
Byte == Nat \X Nat
Call == [request : Nat, body : Seq(Byte), headers : BOOLEAN]

Waiting == buffer \o kernel

(* The bytes of w follow t in the stream, up to the end of message n.      *)
Follow(w, t, n) ==
  /\ \A j \in 1..Len(w) : w[j] = After(IF j = 1 THEN t ELSE w[j - 1])
  /\ (IF w = <<>> THEN t ELSE w[Len(w)]) = EndOf(n)

Served == Len(dispatched)

(* A byte the client has sent. *)
Sending(x) == x[1] \in 1..given /\ x[2] \in 1..Len(Bytes(x[1]))

FieldsOK ==
  /\ given \in 0..Len(Sent) /\ pipelined \in BOOLEAN
  /\ buffer \in Seq(Byte) /\ kernel \in Seq(Byte)
  /\ dispatched \in Seq(Call) /\ Served <= given
  /\ \A j \in 1..Len(Waiting) : Sending(Waiting[j])

(* Between requests the parser is as reset() leaves it; inside of one it   *)
(* is the next one's, and of its body what has come is in hand.            *)
InBody ==
  LET i == Served + 1 IN
  /\ i <= given /\ Sent[i].wellFormed
  /\ parser = [state |-> "kExpectBody", header |-> i, headerLen |-> Sent[i].head,
               contentLength |-> Sent[i].body, bodyRead |-> Len(body)]
  /\ body \in Seq(Byte) /\ Len(body) < Sent[i].body
  /\ \A k \in 1..Len(body) : body[k] = <<i, Sent[i].head + k>>

ParserOK == (parser = Reset /\ body = <<>>) \/ InBody

(* Of a message that is no request some may have been dropped.             *)
Dropped ==
  /\ parser = Reset /\ Served + 1 = given /\ ~Sent[given].wellFormed
  /\ \A j \in 1..Len(Waiting) : Waiting[j][1] = given

ServedInv ==
  /\ FieldsOK
  /\ CallsAsSent
  /\ ParserOK
  /\ Follow(Waiting, Taken, given) \/ Dropped

-----------------------------------------------------------------------------

(* A set of numbers that has 0 and, with each number, the next has all.    *)
LEMMA AllNumbers ==
  ASSUME NEW T, 0 \in T, \A n \in Nat : n \in T => n + 1 \in T
  PROVE  \A n \in Nat : n \in T
<1> DEFINE U == Nat \ T
<1>1. ASSUME U # {} PROVE \E x \in U : \A y \in U : ~(y < x)
  <2>1. \E x \in U : \A y \in U : <<y, x>> \notin OpToRel(<, Nat)
    BY <1>1, NatLessThanWellFounded, WFMin
  <2> QED BY <2>1 DEF OpToRel
<1>2. ASSUME NEW x \in U, \A y \in U : ~(y < x) PROVE FALSE
  <2>1. x \in Nat /\ x # 0 /\ x - 1 \in Nat /\ x - 1 < x
    BY <1>2
  <2>2. x - 1 \in T
    BY <1>2, <2>1
  <2> QED BY <2>1, <2>2
<1> QED BY <1>1, <1>2

(* Two sequences after one another. *)
LEMMA Joined ==
  ASSUME NEW u \in Seq(Byte), NEW v \in Seq(Byte)
  PROVE  /\ u \o v \in Seq(Byte)
         /\ Len(u) \in Nat /\ Len(v) \in Nat /\ Len(u \o v) = Len(u) + Len(v)
         /\ \A j \in 1..Len(u) : (u \o v)[j] = u[j]
         /\ \A j \in 1..Len(v) : (u \o v)[Len(u) + j] = v[j]
<1>1. /\ u \o v \in Seq(Byte) /\ Len(u \o v) = Len(u) + Len(v)
      /\ \A i \in 1..Len(u) + Len(v) :
           (u \o v)[i] = IF i <= Len(u) THEN u[i] ELSE v[i - Len(u)]
  BY ConcatProperties
<1>2. Len(u) \in Nat /\ Len(v) \in Nat
  OBVIOUS
<1>3. ASSUME NEW j \in 1..Len(u) PROVE (u \o v)[j] = u[j]
  <2>1. j \in 1..Len(u) + Len(v) /\ j <= Len(u)
    BY <1>2
  <2> QED BY <1>1, <2>1
<1>4. ASSUME NEW j \in 1..Len(v) PROVE (u \o v)[Len(u) + j] = v[j]
  <2>1. /\ Len(u) + j \in 1..Len(u) + Len(v) /\ ~(Len(u) + j <= Len(u))
        /\ (Len(u) + j) - Len(u) = j
    BY <1>2
  <2> QED BY <1>1, <2>1
<1> QED BY <1>1, <1>2, <1>3, <1>4

(* What a message is, and how long. *)
LEMMA MessageFacts ==
  ASSUME NEW i \in 1..Len(Sent)
  PROVE  /\ Sent[i] \in Message /\ Sent[i].head \in Nat \ {0} /\ Sent[i].body \in Nat
         /\ Bytes(i) \in Seq(Byte)
         /\ Len(Bytes(i)) = Sent[i].head + Sent[i].body
         /\ \A k \in 1..Len(Bytes(i)) : Bytes(i)[k] = <<i, k>>
<1>1. Sent \in Seq(Message)
  BY SentAssumption DEF Message
<1>2. Sent[i] \in Message
  BY <1>1
<1>3. Sent[i].head \in Nat \ {0} /\ Sent[i].body \in Nat
  BY <1>2 DEF Message
<1> DEFINE n == Sent[i].head + Sent[i].body
<1>4. n \in Nat /\ i \in Nat
  BY <1>1, <1>3
<1> HIDE DEF n
<1>5. [k \in 1..n |-> <<i, k>>] \in Seq(Byte)
  BY <1>4 DEF Byte
<1>6. Len([k \in 1..n |-> <<i, k>>]) = n
  BY <1>4
<1>7. Bytes(i) = [k \in 1..n |-> <<i, k>>]
  BY DEF Bytes, n
<1> QED BY <1>2, <1>3, <1>5, <1>6, <1>7 DEF n

(* Inside a message the bytes are numbered; after its end comes the next.  *)
LEMMA AfterFacts ==
  ASSUME NEW i \in 1..Len(Sent)
  PROVE  /\ EndOf(i) = <<i, Sent[i].head + Sent[i].body>>
         /\ \A k \in Nat : k < Sent[i].head + Sent[i].body => After(<<i, k>>) = <<i, k + 1>>
         /\ After(EndOf(i - 1)) = <<i, 1>>
<1>1. i # 0 /\ i \in Nat
  BY SentAssumption
<1>2. EndOf(i) = <<i, Sent[i].head + Sent[i].body>>
  BY <1>1, MessageFacts DEF EndOf
<1>3. ASSUME NEW k \in Nat, k < Sent[i].head + Sent[i].body
      PROVE  After(<<i, k>>) = <<i, k + 1>>
  <2>1. <<i, k>> # EndOf(i)
    BY <1>2, <1>3, MessageFacts
  <2> QED BY <2>1 DEF After
<1>4. After(EndOf(i - 1)) = <<i, 1>>
  <2>1. EndOf(i - 1)[1] = i - 1
    BY <1>1 DEF EndOf
  <2>2. i - 1 + 1 = i
    BY <1>1
  <2> QED BY <2>1, <2>2 DEF After
<1> QED BY <1>2, <1>3, <1>4

(* What waits is read in the order of the stream. *)
LEMMA FollowInside ==
  ASSUME NEW i \in 1..Len(Sent), NEW w \in Seq(Byte), NEW n, NEW t, NEW k \in Nat,
         Follow(w, t, n), w # <<>> => w[1] = <<i, k + 1>>,
         NEW m \in Nat, m <= Len(w), k + m <= Sent[i].head + Sent[i].body
  PROVE  \A j \in 1..m : w[j] = <<i, k + j>>
<1> DEFINE T == {x \in Nat : x \in 1..m => w[x] = <<i, k + x>>}
<1>1. 0 \in T
  OBVIOUS
<1>2. ASSUME NEW x \in Nat, x \in T PROVE x + 1 \in T
  <2> SUFFICES ASSUME x + 1 \in 1..m PROVE w[x + 1] = <<i, k + (x + 1)>>
    OBVIOUS
  <2>1. CASE x = 0
    BY <2>1
  <2>2. CASE x # 0
    <3>1. x \in 1..m /\ x + 1 \in 1..Len(w) /\ (x + 1) - 1 = x /\ x + 1 # 1
      BY <2>2
    <3>2. w[x + 1] = After(w[x])
      BY <3>1 DEF Follow
    <3>3. w[x] = <<i, k + x>>
      BY <1>2, <3>1
    <3>4. k + x \in Nat /\ k + x < Sent[i].head + Sent[i].body
      BY <3>1, MessageFacts
    <3>5. After(<<i, k + x>>) = <<i, (k + x) + 1>>
      BY <3>4, AfterFacts
    <3> QED BY <3>2, <3>3, <3>5
  <2> QED BY <2>1, <2>2
<1>3. \A x \in Nat : x \in T
  <2> HIDE DEF T
  <2> QED BY <1>1, <1>2, AllNumbers
<1> QED BY <1>3

(* What is left when some of it is taken follows what was taken. *)
LEMMA FollowRest ==
  ASSUME NEW w \in Seq(Byte), NEW n, NEW t, Follow(w, t, n), NEW m \in 1..Len(w)
  PROVE  Follow(SubSeq(w, m + 1, Len(w)), w[m], n)
<1> DEFINE v == SubSeq(w, m + 1, Len(w))
<1>1. /\ v \in Seq(Byte) /\ Len(v) = Len(w) - m
      /\ \A j \in 1..Len(v) : v[j] = w[m + j]
  OBVIOUS
<1> HIDE DEF v
<1>2. ASSUME NEW j \in 1..Len(v) PROVE v[j] = After(IF j = 1 THEN w[m] ELSE v[j - 1])
  <2>1. m + j \in 1..Len(w) /\ m + j # 1 /\ j \in Nat /\ (j # 1 => j - 1 \in 1..Len(v))
    BY <1>1
  <2>2. w[m + j] = After(w[(m + j) - 1])
    BY <2>1 DEF Follow
  <2>3. (IF j = 1 THEN w[m] ELSE v[j - 1]) = w[(m + j) - 1]
    <3>1. CASE j = 1
      <4>1. (m + j) - 1 = m
        BY <3>1
      <4> QED BY <3>1, <4>1
    <3>2. CASE j # 1
      <4>1. v[j - 1] = w[m + (j - 1)] /\ m + (j - 1) = (m + j) - 1
        BY <1>1, <2>1, <3>2
      <4> QED BY <3>2, <4>1
    <3> QED BY <3>1, <3>2
  <2> QED BY <1>1, <2>2, <2>3
<1>3. (IF v = <<>> THEN w[m] ELSE v[Len(v)]) = w[Len(w)]
  <2>1. CASE v = <<>>
    BY <1>1, <2>1
  <2>2. CASE v # <<>>
    <3>1. Len(v) \in 1..Len(v) /\ m + Len(v) = Len(w)
      BY <1>1, <2>2
    <3> QED BY <1>1, <2>2, <3>1
  <2> QED BY <2>1, <2>2
<1>4. w[Len(w)] = EndOf(n)
  BY DEF Follow
<1> QED BY <1>2, <1>3, <1>4 DEF Follow, v

(* The next message follows the last one. *)
LEMMA FollowMore ==
  ASSUME NEW w \in Seq(Byte), NEW t, NEW n \in Nat, Follow(w, t, n), n + 1 \in 1..Len(Sent)
  PROVE  Follow(w \o Bytes(n + 1), t, n + 1)
<1> DEFINE b == Bytes(n + 1)
           v == w \o b
<1>1. /\ b \in Seq(Byte) /\ Len(b) = Sent[n + 1].head + Sent[n + 1].body
      /\ Len(b) \in Nat \ {0}
      /\ \A k \in 1..Len(b) : b[k] = <<n + 1, k>>
  BY MessageFacts
<1> HIDE DEF b
<1>2. /\ Len(v) = Len(w) + Len(b) /\ Len(w) \in Nat
      /\ \A j \in 1..Len(w) : v[j] = w[j]
      /\ \A k \in 1..Len(b) : v[Len(w) + k] = b[k]
  BY <1>1, Joined
<1>3. \A j \in Nat : j \in 1..(Len(w) + Len(b)) => j \in 1..Len(w) \/ \E k \in 1..Len(b) : j = Len(w) + k
  <2> SUFFICES ASSUME NEW j \in Nat, j \in 1..(Len(w) + Len(b)), j \notin 1..Len(w)
               PROVE  \E k \in 1..Len(b) : j = Len(w) + k
    OBVIOUS
  <2>1. j - Len(w) \in 1..Len(b) /\ j = Len(w) + (j - Len(w))
    BY <1>1, <1>2
  <2> QED BY <2>1
<1> HIDE DEF v
<1>4. ASSUME NEW j \in 1..Len(v) PROVE v[j] = After(IF j = 1 THEN t ELSE v[j - 1])
  <2>1. CASE j \in 1..Len(w)
    <3>1. j = 1 \/ j - 1 \in 1..Len(w)
      BY <1>2, <2>1
    <3> QED BY <1>2, <2>1, <3>1 DEF Follow
  <2>2. ASSUME NEW k \in 1..Len(b), j = Len(w) + k
        PROVE  v[j] = After(IF j = 1 THEN t ELSE v[j - 1])
    <3>1. v[j] = <<n + 1, k>>
      BY <1>1, <1>2, <2>2
    <3>2. CASE k = 1
      <4>1. (IF j = 1 THEN t ELSE v[j - 1]) = EndOf(n)
        <5>1. CASE w = <<>>
          <6>1. Len(w) = 0
            BY <5>1
          <6>2. j = 1
            BY <2>2, <3>2, <6>1
          <6> QED BY <5>1, <6>2 DEF Follow
        <5>2. CASE w # <<>>
          <6>1. j # 1 /\ j - 1 = Len(w) /\ Len(w) \in 1..Len(w)
            BY <2>2, <3>2, <5>2
          <6> QED BY <1>2, <5>2, <6>1 DEF Follow
        <5> QED BY <5>1, <5>2
      <4>2. After(EndOf((n + 1) - 1)) = <<n + 1, 1>> /\ (n + 1) - 1 = n
        BY AfterFacts
      <4> QED BY <3>1, <3>2, <4>1, <4>2
    <3>3. CASE k # 1
      <4>1. j # 1 /\ k - 1 \in 1..Len(b) /\ j - 1 = Len(w) + (k - 1)
        BY <1>1, <1>2, <2>2, <3>3, SMTT(40)
      <4>2. v[j - 1] = <<n + 1, k - 1>>
        BY <1>1, <1>2, <4>1
      <4>3. k - 1 \in Nat /\ k - 1 < Sent[n + 1].head + Sent[n + 1].body /\ (k - 1) + 1 = k
        BY <1>1, <4>1
      <4>4. After(<<n + 1, k - 1>>) = <<n + 1, (k - 1) + 1>>
        BY <4>3, AfterFacts
      <4> QED BY <3>1, <4>1, <4>2, <4>3, <4>4
    <3> QED BY <3>2, <3>3
  <2> QED BY <1>2, <1>3, <2>1, <2>2
<1>5. Len(v) \in 1..Len(v) /\ v # <<>> /\ v[Len(v)] = <<n + 1, Len(b)>>
  <2>1. Len(b) \in 1..Len(b) /\ Len(v) = Len(w) + Len(b) /\ Len(v) # 0
    BY <1>1, <1>2
  <2>2. v[Len(w) + Len(b)] = b[Len(b)]
    BY <1>2, <2>1
  <2>3. v # <<>>
    BY <2>1
  <2> QED BY <1>1, <1>2, <2>1, <2>2, <2>3
<1>6. EndOf(n + 1) = <<n + 1, Len(b)>>
  BY <1>1, AfterFacts
<1> QED BY <1>4, <1>5, <1>6 DEF Follow, v, b

-----------------------------------------------------------------------------
(* The body of a message, byte by byte. *)
LEMMA BodyFacts ==
  ASSUME NEW i \in 1..Len(Sent)
  PROVE  /\ Body(i) \in Seq(Byte) /\ Len(Body(i)) = Sent[i].body
         /\ \A k \in 1..Sent[i].body : Body(i)[k] = <<i, Sent[i].head + k>>
<1> DEFINE b == Bytes(i)
           h == Sent[i].head
           l == Sent[i].body
<1>1. /\ b \in Seq(Byte) /\ Len(b) = h + l /\ h \in Nat /\ l \in Nat
      /\ \A k \in 1..Len(b) : b[k] = <<i, k>>
  BY MessageFacts
<1>2. Body(i) = SubSeq(b, h + 1, Len(b))
  BY DEF Body
<1> HIDE DEF b, h, l
<1>3. /\ SubSeq(b, h + 1, Len(b)) \in Seq(Byte) /\ Len(SubSeq(b, h + 1, Len(b))) = l
      /\ \A k \in 1..l : SubSeq(b, h + 1, Len(b))[k] = b[h + k]
  BY <1>1
<1>4. \A k \in 1..l : h + k \in 1..Len(b)
  BY <1>1
<1> QED BY <1>1, <1>2, <1>3, <1>4 DEF h, l

(* What is left of a sequence and what follows it. *)
LEMMA RestJoined ==
  ASSUME NEW u \in Seq(Byte), NEW v \in Seq(Byte), NEW n \in 0..Len(u)
  PROVE  SubSeq(u, n + 1, Len(u)) \o v = SubSeq(u \o v, n + 1, Len(u \o v))
<1> DEFINE w == u \o v
           x == SubSeq(u, n + 1, Len(u))
           y == SubSeq(w, n + 1, Len(w))
<1>1. /\ w \in Seq(Byte) /\ Len(u) \in Nat /\ Len(v) \in Nat /\ Len(w) = Len(u) + Len(v)
      /\ \A j \in 1..Len(u) : w[j] = u[j]
      /\ \A j \in 1..Len(v) : w[Len(u) + j] = v[j]
  BY Joined
<1> HIDE DEF w
<1>2. n \in Nat /\ n <= Len(u)
  BY <1>1
<1>3. /\ x \in Seq(Byte) /\ Len(x) = Len(u) - n
      /\ \A j \in 1..Len(x) : x[j] = u[n + j]
  BY <1>1, <1>2
<1>4. /\ y \in Seq(Byte) /\ Len(y) = Len(w) - n
      /\ \A j \in 1..Len(y) : y[j] = w[n + j]
  BY <1>1, <1>2
<1> HIDE DEF x, y
<1>5. /\ x \o v \in Seq(Byte) /\ Len(x \o v) = Len(x) + Len(v)
      /\ \A j \in 1..Len(x) : (x \o v)[j] = x[j]
      /\ \A j \in 1..Len(v) : (x \o v)[Len(x) + j] = v[j]
  BY <1>3, Joined
<1>6. Len(x \o v) = Len(y)
  BY <1>1, <1>2, <1>3, <1>4, <1>5
<1>7. ASSUME NEW j \in 1..Len(y) PROVE (x \o v)[j] = y[j]
  <2>1. CASE j \in 1..Len(x)
    <3>1. n + j \in 1..Len(u)
      BY <1>1, <1>2, <1>3, <2>1
    <3> QED BY <1>1, <1>3, <1>4, <1>5, <2>1, <3>1
  <2>2. CASE j \notin 1..Len(x)
    <3>1. PICK i \in 1..Len(v) : j = Len(x) + i
      <4>1. j - Len(x) \in 1..Len(v) /\ j = Len(x) + (j - Len(x))
        BY <1>1, <1>2, <1>3, <1>4, <2>2
      <4> QED BY <4>1
    <3>2. n + j = Len(u) + i
      BY <1>1, <1>2, <1>3, <3>1, SMTT(40)
    <3> QED BY <1>1, <1>4, <1>5, <3>1, <3>2
  <2> QED BY <2>1, <2>2
<1>8. x \o v = y
  BY <1>4, <1>5, <1>6, <1>7, SeqEqual
<1> QED BY <1>8 DEF x, y, w

(* What a read puts behind the buffer is the beginning of what waits. *)
LEMMA ReadFacts ==
  ASSUME NEW taken \in Seq(Byte), NEW rest \in Seq(Byte), taken # <<>>,
         buffer \in Seq(Byte), kernel = taken \o rest, NEW buf, buf = buffer \o taken
  PROVE  /\ buf \in Seq(Byte) /\ buf # <<>> /\ Waiting = buf \o rest
         /\ Waiting \in Seq(Byte) /\ Len(buf) <= Len(Waiting)
         /\ \A j \in 1..Len(buf) : buf[j] = Waiting[j]
<1>1. Waiting = buf \o rest
  BY ConcatAssociative, SMTT(40) DEF Waiting
<1>2. buf \in Seq(Byte) /\ Len(buf) = Len(buffer) + Len(taken) /\ Len(buffer) \in Nat
  BY Joined
<1>3. Len(taken) \in Nat \ {0}
  OBVIOUS
<1>4. Len(buf) # 0
  BY <1>2, <1>3
<1>5. buf # <<>>
  BY <1>4
<1>6. /\ Waiting \in Seq(Byte) /\ Len(Waiting) = Len(buf) + Len(rest)
      /\ Len(buf) \in Nat /\ Len(rest) \in Nat
      /\ \A j \in 1..Len(buf) : buf[j] = Waiting[j]
  BY <1>1, <1>2, Joined
<1>7. Len(buf) <= Len(Waiting)
  BY <1>6
<1> QED BY <1>1, <1>2, <1>5, <1>6, <1>7

(* The outcome of collectBody when n bytes are taken for the body of i.    *)
Collected(i, b, p, buf, n, ok) ==
  /\ n + Len(b) <= Sent[i].body
  /\ buffer' = SubSeq(buf, n + 1, Len(buf))
  /\ IF n + Len(b) = Sent[i].body
     THEN /\ dispatched' = Append(dispatched,
                                  [request |-> i, body |-> Body(i), headers |-> ok])
          /\ parser' = Reset /\ body' = <<>>
     ELSE /\ UNCHANGED dispatched
          /\ body' \in Seq(Byte) /\ Len(body') = n + Len(b)
          /\ \A k \in 1..Len(body') : body'[k] = <<i, Sent[i].head + k>>
          /\ parser' = [p EXCEPT !.bodyRead = n + Len(b)]

(* What the body takes of a read is its own, and it takes all there is of  *)
(* it (HttpServer.h:111-118).                                              *)
LEMMA CollectFacts ==
  ASSUME NEW i \in 1..Len(Sent), NEW b \in Seq(Byte), Len(b) < Sent[i].body,
         \A k \in 1..Len(b) : b[k] = <<i, Sent[i].head + k>>,
         NEW p, p = [state |-> "kExpectBody", header |-> i, headerLen |-> Sent[i].head,
                     contentLength |-> Sent[i].body, bodyRead |-> Len(b)],
         NEW buf \in Seq(Byte),
         \A j \in 1..Len(buf) : j + Len(b) <= Sent[i].body =>
                                  buf[j] = <<i, Sent[i].head + (Len(b) + j)>>,
         NEW ok, CollectBody(p, b, buf, ok)
  PROVE  \E n \in 0..Len(buf) : Collected(i, b, p, buf, n, ok)
<1> DEFINE l == Sent[i].body
           h == Sent[i].head
           left == l - Len(b)
           n == IF left < Len(buf) THEN left ELSE Len(buf)
           whole == b \o SubSeq(buf, 1, n)
           after == ConsumeBody(p, n)
<1>1. l \in Nat /\ h \in Nat /\ Len(b) \in Nat /\ Len(buf) \in Nat /\ left \in Nat
  BY MessageFacts
<1>2. n \in 0..Len(buf) /\ n + Len(b) <= l
  BY <1>1
<1>3. BytesRemaining(p) = left /\ p.bodyRead = Len(b) /\ p.header = i
      /\ p.contentLength = l /\ p.state = "kExpectBody"
  BY DEF BytesRemaining
<1>4. /\ buffer' = SubSeq(buf, n + 1, Len(buf))
      /\ IF GotAll(after) THEN Dispatch(after, whole, ok)
                          ELSE parser' = after /\ body' = whole /\ UNCHANGED dispatched
  BY <1>3 DEF CollectBody
<1>5. /\ after = [p EXCEPT !.bodyRead = Len(b) + n,
                           !.state = IF Len(b) + n >= l THEN "kGotAll" ELSE @]
      /\ after.header = i
  BY <1>3 DEF ConsumeBody
<1> HIDE DEF n
<1>6. GotAll(after) <=> n + Len(b) = l
  <2>0. \A x, y, z \in Nat : y + x <= z => (x + y >= z <=> y + x = z)
    OBVIOUS
  <2>1. Len(b) + n >= l <=> n + Len(b) = l
    <3>1. n \in Nat
      BY <1>1, <1>2
    <3> HIDE DEF l
    <3> QED BY <1>1, <1>2, <2>0, <3>1
  <2>2. after.state = IF Len(b) + n >= l THEN "kGotAll" ELSE "kExpectBody"
    BY <1>3, <1>5
  <2> QED BY <2>1, <2>2 DEF GotAll
<1>7. SubSeq(buf, 1, n) \in Seq(Byte) /\ Len(SubSeq(buf, 1, n)) = n
      /\ \A j \in 1..n : SubSeq(buf, 1, n)[j] = buf[j]
  BY <1>2
<1> DEFINE part == SubSeq(buf, 1, n)
<1> HIDE DEF part
<1>8. whole = b \o part
  BY DEF part
<1>9. part \in Seq(Byte) /\ Len(part) = n /\ \A j \in 1..n : part[j] = buf[j]
  BY <1>7 DEF part
<1>10. /\ whole \in Seq(Byte) /\ Len(whole) = n + Len(b)
       /\ \A k \in 1..Len(b) : whole[k] = b[k]
       /\ \A j \in 1..n : whole[Len(b) + j] = part[j]
  BY <1>1, <1>8, <1>9, SMTT(40)
<1> HIDE DEF whole
<1>11. ASSUME NEW k \in 1..Len(whole) PROVE whole[k] = <<i, h + k>>
  <2>1. CASE k <= Len(b)
    BY <1>10, <2>1, <1>1
  <2>2. CASE ~(k <= Len(b))
    <3>1. /\ k - Len(b) \in 1..n /\ k = Len(b) + (k - Len(b))
          /\ k - Len(b) \in 1..Len(buf) /\ (k - Len(b)) + Len(b) <= l
      BY <1>1, <1>2, <1>10, <2>2, SMTT(40)
    <3> QED BY <1>9, <1>10, <3>1
  <2> QED BY <2>1, <2>2
<1>12. n + Len(b) = l => whole = Body(i)
  <2> SUFFICES ASSUME n + Len(b) = l PROVE whole = Body(i)
    OBVIOUS
  <2>1. Body(i) \in Seq(Byte) /\ Len(Body(i)) = l /\ \A k \in 1..l : Body(i)[k] = <<i, h + k>>
    BY BodyFacts
  <2>2. Len(whole) = Len(Body(i)) /\ \A k \in 1..Len(whole) : whole[k] = Body(i)[k]
    BY <1>1, <1>10, <1>11, <2>1
  <2> QED BY <1>10, <2>1, <2>2, SeqEqual
<1>13. CASE n + Len(b) = l
  <2>1. Dispatch(after, Body(i), ok)
    BY <1>4, <1>6, <1>12, <1>13
  <2>2. Collected(i, b, p, buf, n, ok)
    BY <1>2, <1>4, <1>5, <1>13, <2>1 DEF Dispatch, Collected
  <2> QED BY <1>2, <2>2
<1>14. CASE n + Len(b) # l
  <2>1. parser' = after /\ body' = whole /\ UNCHANGED dispatched
    BY <1>4, <1>6, <1>14
  <2>2. after = [p EXCEPT !.bodyRead = n + Len(b)]
    <3>0. \A x, y, z \in Nat : y + x <= z /\ y + x # z => ~(x + y >= z) /\ x + y = y + x
      OBVIOUS
    <3>1. ~(Len(b) + n >= l) /\ Len(b) + n = n + Len(b)
      <4>1. n \in Nat
        BY <1>1, <1>2
      <4> HIDE DEF l
      <4> QED BY <1>1, <1>2, <1>14, <3>0, <4>1
    <3>2. [p EXCEPT !.bodyRead = n + Len(b), !.state = "kExpectBody"]
            = [p EXCEPT !.bodyRead = n + Len(b)]
      BY <1>3
    <3> QED BY <1>3, <1>5, <3>1, <3>2
  <2>3. Collected(i, b, p, buf, n, ok)
    BY <1>2, <1>4, <1>10, <1>11, <1>14, <2>1, <2>2 DEF Collected
  <2> QED BY <1>2, <2>3
<1> QED BY <1>13, <1>14

(* What the parser's verdict says of the first byte. *)
LEMMA VerdictFacts ==
  ASSUME NEW buf
  PROVE  /\ "complete" \in Verdicts(buf) =>
              /\ buf # <<>> /\ Sent[buf[1][1]].wellFormed /\ buf[1][2] = 1
              /\ ~(Len(buf) < Sent[buf[1][1]].head)
         /\ "malformed" \in Verdicts(buf) =>
              buf # <<>> /\ (~Sent[buf[1][1]].wellFormed \/ buf[1][2] # 1)
<1>1. CASE buf = <<>>
  <2>1. Verdicts(buf) = {"partial"}
    BY <1>1 DEF Verdicts
  <2> QED BY <2>1
<1>2. CASE buf # <<>> /\ ~Sent[buf[1][1]].wellFormed
  <2>1. Verdicts(buf) = {"partial", "malformed"}
    BY <1>2 DEF Verdicts
  <2> QED BY <1>2, <2>1
<1>3. CASE buf # <<>> /\ Sent[buf[1][1]].wellFormed /\ buf[1][2] # 1
  <2>1. Verdicts(buf) = {"partial", "malformed"}
    BY <1>3 DEF Verdicts
  <2> QED BY <1>3, <2>1
<1>4. CASE buf # <<>> /\ Sent[buf[1][1]].wellFormed /\ buf[1][2] = 1
  <2>1. Verdicts(buf) = IF Len(buf) < Sent[buf[1][1]].head THEN {"partial"} ELSE {"complete"}
    BY <1>4 DEF Verdicts
  <2> QED BY <1>4, <2>1
<1> QED BY <1>1, <1>2, <1>3, <1>4

(* What waits after the end of a message is of the messages after it. *)
LEMMA FollowFrom ==
  ASSUME NEW i \in Nat \ {0}, NEW w \in Seq(Byte), NEW n, Follow(w, EndOf(i - 1), n)
  PROVE  /\ \A j \in 1..Len(w) : w[j][1] \in Nat /\ w[j][1] >= i
         /\ w # <<>> => w[1] = <<i, 1>>
<1>1. EndOf(i - 1)[1] = i - 1 /\ (i - 1) + 1 = i
  BY DEF EndOf
<1>2. After(EndOf(i - 1)) = <<i, 1>>
  BY <1>1 DEF After
<1>3. w # <<>> => 1 \in 1..Len(w)
  OBVIOUS
<1>4. w # <<>> => w[1] = <<i, 1>>
  BY <1>2, <1>3 DEF Follow
<1>5. \A x : After(x)[1] = x[1] \/ After(x)[1] = x[1] + 1
  BY DEF After
<1> DEFINE T == {x \in Nat : x \in 1..Len(w) => w[x][1] \in Nat /\ w[x][1] >= i}
<1>6. 0 \in T
  OBVIOUS
<1>7. ASSUME NEW x \in Nat, x \in T PROVE x + 1 \in T
  <2> SUFFICES ASSUME x + 1 \in 1..Len(w) PROVE w[x + 1][1] \in Nat /\ w[x + 1][1] >= i
    OBVIOUS
  <2>1. CASE x = 0
    BY <1>4, <2>1
  <2>2. CASE x # 0
    <3>1. x \in 1..Len(w) /\ x + 1 # 1 /\ (x + 1) - 1 = x
      BY <2>2
    <3>2. w[x + 1] = After(w[x])
      BY <3>1 DEF Follow
    <3>3. w[x][1] \in Nat /\ w[x][1] >= i
      BY <1>7, <3>1
    <3>4. w[x + 1][1] = w[x][1] \/ w[x + 1][1] = w[x][1] + 1
      BY <1>5, <3>2
    <3> QED BY <3>3, <3>4
  <2> QED BY <2>1, <2>2
<1>8. \A x \in Nat : x \in T
  <2> HIDE DEF T
  <2> QED BY <1>6, <1>7, AllNumbers
<1> QED BY <1>4, <1>8

-----------------------------------------------------------------------------
(* The steps.                                                              *)

(* A call that is as it was sent, after calls that are. *)
LEMMA OneMoreCall ==
  ASSUME dispatched \in Seq(Call), CallsAsSent, NEW i, i = Served + 1, i \in 1..Len(Sent),
         NEW ok \in BOOLEAN,
         dispatched' = Append(dispatched, [request |-> i, body |-> Body(i), headers |-> ok])
  PROVE  dispatched' \in Seq(Call) /\ Served' = i /\ CallsAsSent'
<1> DEFINE c == [request |-> i, body |-> Body(i), headers |-> ok]
<1>1. c \in Call /\ c.request = i /\ c.body = Body(i)
  BY BodyFacts DEF Call
<1> HIDE DEF c
<1>2. dispatched' = Append(dispatched, c)
  BY DEF c
<1>3. /\ dispatched' \in Seq(Call) /\ Len(dispatched') = Len(dispatched) + 1
      /\ \A j \in 1..Len(dispatched) : dispatched'[j] = dispatched[j]
      /\ dispatched'[Len(dispatched) + 1] = c
  BY <1>1, <1>2
<1>4. \A j \in 1..Len(dispatched') : j \in 1..Len(dispatched) \/ j = Len(dispatched) + 1
  BY <1>3
<1>5. CallsAsSent'
  <2> SUFFICES ASSUME NEW j \in 1..Len(dispatched')
               PROVE  dispatched'[j].request = j /\ dispatched'[j].body = Body(j)
    BY DEF CallsAsSent
  <2> QED BY <1>1, <1>3, <1>4 DEF CallsAsSent, Served
<1> QED BY <1>3, <1>5 DEF Served

(* collectBody, whatever it finds in the buffer. *)
LEMMA CollectStep ==
  ASSUME FieldsOK, CallsAsSent,
         NEW i, i = Served + 1, i <= given, Sent[i].wellFormed,
         NEW b \in Seq(Byte), Len(b) < Sent[i].body,
         \A k \in 1..Len(b) : b[k] = <<i, Sent[i].head + k>>,
         NEW p, p = [state |-> "kExpectBody", header |-> i, headerLen |-> Sent[i].head,
                     contentLength |-> Sent[i].body, bodyRead |-> Len(b)],
         NEW buf \in Seq(Byte), NEW rest \in Seq(Byte),
         Follow(buf \o rest, <<i, Sent[i].head + Len(b)>>, given),
         \A j \in 1..Len(buf \o rest) : Sending((buf \o rest)[j]),
         NEW ok \in BOOLEAN, CollectBody(p, b, buf, ok),
         kernel' = rest, UNCHANGED <<given, pipelined>>
  PROVE  ServedInv'
<1> DEFINE w == buf \o rest
           h == Sent[i].head
           l == Sent[i].body
           t == <<i, h + Len(b)>>
<1>1. i \in 1..Len(Sent) /\ i \in Nat /\ i # 0 /\ Served \in Nat
  <2>1. dispatched \in Seq(Call) /\ given \in 0..Len(Sent)
    BY DEF FieldsOK
  <2>2. Len(Sent) \in Nat /\ Len(dispatched) \in Nat
    BY <2>1, SentAssumption, SMTT(40)
  <2>3. Served \in Nat /\ given \in Nat /\ given <= Len(Sent)
    BY <2>1, <2>2 DEF Served
  <2> HIDE DEF Served
  <2> QED BY <2>2, <2>3
<1>2. h \in Nat /\ l \in Nat /\ Len(b) \in Nat
  BY <1>1, MessageFacts
<1>3. /\ w \in Seq(Byte) /\ Len(w) = Len(buf) + Len(rest)
      /\ Len(buf) \in Nat /\ Len(rest) \in Nat
      /\ \A j \in 1..Len(buf) : w[j] = buf[j]
  BY Joined
<1> HIDE DEF w
<1>4. Follow(w, t, given) /\ \A j \in 1..Len(w) : Sending(w[j])
  BY DEF w
<1>5. \A j \in 1..Len(w) : j + Len(b) <= l => w[j] = <<i, h + (Len(b) + j)>>
  <2> SUFFICES ASSUME NEW j \in 1..Len(w), j + Len(b) <= l
               PROVE  w[j] = <<i, h + (Len(b) + j)>>
    OBVIOUS
  <2> DEFINE q == h + Len(b)
  <2>1. /\ q \in Nat /\ q < h + l /\ q + j <= h + l /\ j \in Nat /\ j <= Len(w)
        /\ j \in 1..j /\ q + j = h + (Len(b) + j)
    <3> HIDE DEF h, l
    <3> QED BY <1>2, <1>3
  <2>2. w # <<>> => w[1] = <<i, q + 1>>
    <3>1. After(<<i, q>>) = <<i, q + 1>>
      BY <1>1, <2>1, AfterFacts
    <3>2. 1 \in 1..Len(w)
      BY <1>3
    <3> QED BY <1>4, <3>1, <3>2 DEF Follow
  <2> HIDE DEF q
  <2>3. \A x \in 1..j : w[x] = <<i, q + x>>
    <3> HIDE DEF t, h, l
    <3>1. Follow(w, t, given) /\ w \in Seq(Byte) /\ i \in 1..Len(Sent)
      BY <1>1, <1>3, <1>4
    <3>2. q + j <= Sent[i].head + Sent[i].body
      BY <2>1 DEF h, l
    <3> QED BY <3>1, <3>2, <2>1, <2>2, FollowInside
  <2> QED BY <2>1, <2>3
<1>6. \A j \in 1..Len(buf) : j + Len(b) <= l => buf[j] = <<i, h + (Len(b) + j)>>
  <2>1. \A j \in 1..Len(buf) : j \in 1..Len(w) /\ w[j] = buf[j]
    BY <1>3
  <2> HIDE DEF h, l, t
  <2> QED BY <1>5, <2>1, Zenon
<1>7. PICK n \in 0..Len(buf) : Collected(i, b, p, buf, n, ok)
  <2>1. \A j \in 1..Len(buf) : j + Len(b) <= Sent[i].body =>
                                   buf[j] = <<i, Sent[i].head + (Len(b) + j)>>
    BY <1>6 DEF h, l
  <2> QED BY <1>1, <2>1, CollectFacts
<1>8. n \in Nat /\ n <= Len(w) /\ n <= Len(buf)
  BY <1>3, <1>7
<1>15. n + Len(b) <= l /\ buffer' = SubSeq(buf, n + 1, Len(buf))
  BY <1>7 DEF Collected
<1>9. Waiting' = SubSeq(w, n + 1, Len(w))
  BY <1>15, RestJoined DEF Waiting, w
<1>10. /\ buffer' \in Seq(Byte)
       /\ \A j \in 1..Len(Waiting') : Sending(Waiting'[j])
  <2>1. \A j \in 1..Len(SubSeq(w, n + 1, Len(w))) :
          SubSeq(w, n + 1, Len(w))[j] = w[n + j] /\ n + j \in 1..Len(w)
    BY <1>3, <1>8
  <2>2. SubSeq(buf, n + 1, Len(buf)) \in Seq(Byte)
    BY <1>3, <1>8
  <2> DEFINE y == SubSeq(w, n + 1, Len(w))
  <2>3. \A j \in 1..Len(y) : Sending(y[j])
    BY <1>4, <2>1
  <2>4. buffer' \in Seq(Byte)
    BY <1>15, <2>2
  <2> HIDE DEF y
  <2>5. Waiting' = y
    BY <1>9 DEF y
  <2> QED BY <2>3, <2>4, <2>5
<1>11. \A x : Sending(x)' = Sending(x)
  BY DEF Sending
<1>12. Follow(Waiting', <<i, h + (Len(b) + n)>>, given)
  <2>1. CASE n = 0
    <3>1. SubSeq(w, n + 1, Len(w)) = w
      BY <1>3, <2>1
    <3>2. Len(b) + n = Len(b)
      BY <1>2, <2>1
    <3> QED BY <1>4, <1>9, <3>1, <3>2
  <2>2. CASE n # 0
    <3>1. n \in 1..Len(w)
      BY <1>3, <1>8, <2>2
    <3>2. w[n] = <<i, h + (Len(b) + n)>>
      BY <1>5, <1>15, <3>1
    <3>3. Follow(SubSeq(w, n + 1, Len(w)), w[n], given)
      <4> HIDE DEF t
      <4> QED BY <1>3, <1>4, <3>1, FollowRest
    <3> QED BY <1>9, <3>2, <3>3
  <2> QED BY <2>1, <2>2
<1>13. CASE n + Len(b) = l
  <2>1. dispatched' \in Seq(Call) /\ Served' = i /\ CallsAsSent'
    BY <1>1, <1>7, <1>13, OneMoreCall DEF FieldsOK, Collected
  <2>2. parser' = Reset /\ body' = <<>>
    BY <1>7, <1>13 DEF Collected
  <2>3. Taken' = EndOf(i)
    <3>1. (parser.header)' = None
      BY <2>2 DEF Reset
    <3> QED BY <2>1, <3>1 DEF Taken, Served
  <2>4. EndOf(i) = <<i, h + (Len(b) + n)>>
    <3>1. Len(b) + n = l
      BY <1>2, <1>8, <1>13
    <3> QED BY <1>1, <3>1, AfterFacts
  <2>5. FieldsOK'
    BY <1>10, <1>11, <2>1 DEF FieldsOK
  <2>6. Follow(Waiting, Taken, given)'
    BY <1>12, <2>3, <2>4 DEF Follow
  <2> QED BY <2>1, <2>2, <2>5, <2>6 DEF ServedInv, ParserOK
<1>14. CASE n + Len(b) # l
  <2>1. /\ UNCHANGED dispatched
        /\ body' \in Seq(Byte) /\ Len(body') = n + Len(b)
        /\ \A k \in 1..Len(body') : body'[k] = <<i, h + k>>
        /\ parser' = [p EXCEPT !.bodyRead = n + Len(b)]
    BY <1>7, <1>14 DEF Collected
  <2>2. Served' = Served /\ CallsAsSent'
    BY <2>1 DEF Served, CallsAsSent
  <2>3. /\ parser' = [state |-> "kExpectBody", header |-> i, headerLen |-> h,
                      contentLength |-> l, bodyRead |-> n + Len(b)]
        /\ (parser.header)' = i
    BY <2>1
  <2>4. Len(body') < l /\ Len(body') = Len(b) + n
    <3>1. \A x, y, z \in Nat : x + y <= z /\ x + y # z => x + y < z /\ x + y = y + x
      OBVIOUS
    <3> HIDE DEF l
    <3> QED BY <1>2, <1>15, <1>8, <1>14, <2>1, <3>1
  <2>5. FieldsOK'
    BY <1>10, <1>11, <2>1, <2>2 DEF FieldsOK
  <2>6. InBody'
    BY <2>1, <2>2, <2>3, <2>4 DEF InBody
  <2>7. Taken' = <<i, h + (Len(b) + n)>>
    BY <1>1, <2>3, <2>4 DEF Taken, None
  <2>8. Follow(Waiting, Taken, given)'
    BY <1>12, <2>7 DEF Follow
  <2> QED BY <2>2, <2>5, <2>6, <2>8 DEF ServedInv, ParserOK
<1> QED BY <1>13, <1>14

(* One read event, between the requests: the stream goes on.               *)
LEMMA HeadStep ==
  ASSUME FieldsOK, CallsAsSent, parser = Reset, body = <<>>,
         Follow(Waiting, Taken, given),
         NEW buf \in Seq(Byte), NEW rest \in Seq(Byte), buf # <<>>, Waiting = buf \o rest,
         MessageHead(buf) \/ MessagePartial(buf) \/ MessageMalformed(buf),
         kernel' = rest, UNCHANGED <<given, pipelined>>
  PROVE  ServedInv'
<1> DEFINE i == Served + 1
           h == Sent[i].head
           l == Sent[i].body
<1>1. Served \in Nat /\ i \in Nat \ {0} /\ i - 1 = Served /\ Len(Sent) \in Nat
  <2>1. dispatched \in Seq(Call)
    BY DEF FieldsOK
  <2>2. Len(dispatched) \in Nat /\ Len(Sent) \in Nat
    BY <2>1, SentAssumption
  <2>3. Served \in Nat
    BY <2>2 DEF Served
  <2> HIDE DEF Served
  <2> QED BY <2>2, <2>3
<1>2. Taken = EndOf(i - 1)
  BY <1>1 DEF Taken, Reset, Served
<1>3. /\ Waiting \in Seq(Byte) /\ Len(Waiting) = Len(buf) + Len(rest)
      /\ Len(buf) \in Nat \ {0} /\ Len(rest) \in Nat
      /\ \A j \in 1..Len(buf) : Waiting[j] = buf[j]
      /\ \A j \in 1..Len(rest) : Waiting[Len(buf) + j] = rest[j]
  <2>1. Len(buf) # 0
    OBVIOUS
  <2> QED BY <2>1, Joined
<1>4. Waiting # <<>> /\ 1 \in 1..Len(Waiting) /\ 1 \in 1..Len(buf)
  <2>1. Len(Waiting) # 0
    BY <1>3
  <2> QED BY <1>3, <2>1
<1>5. /\ buf[1] = <<i, 1>> /\ Waiting[1] = <<i, 1>>
      /\ \A j \in 1..Len(Waiting) : Waiting[j][1] \in Nat /\ Waiting[j][1] >= i
  <2> HIDE DEF i
  <2> QED BY <1>1, <1>2, <1>3, <1>4, FollowFrom, ZenonT(60)
<1>6. /\ given \in 0..Len(Sent) /\ i \in 1..given /\ i \in 1..Len(Sent)
      /\ \A j \in 1..Len(Waiting) : Sending(Waiting[j])
  <2>1. given \in 0..Len(Sent) /\ \A j \in 1..Len(Waiting) : Sending(Waiting[j])
    BY DEF FieldsOK
  <2>2. Sending(Waiting[1])
    BY <1>4, <2>1
  <2>3. i \in 1..given
    BY <1>5, <2>2 DEF Sending
  <2> HIDE DEF i
  <2> QED BY <1>1, <2>1, <2>3
<1>7. h \in Nat \ {0} /\ l \in Nat
  BY <1>6, MessageFacts
<1>8. \A x : Sending(x)' = Sending(x)
  BY DEF Sending
<1> DEFINE all == Waiting
<1> HIDE DEF i, h, l, all
<1>9. CASE MessageHead(buf)
  <2> DEFINE p == ParseHead(parser, buf)
             more == SubSeq(buf, h + 1, Len(buf))
  <2>1. Sent[i].wellFormed /\ ~(Len(buf) < h)
    BY <1>5, <1>9, VerdictFacts DEF MessageHead, h
  <2>2. h \in 1..Len(buf) /\ h \in 0..Len(buf) /\ h \in 1..Len(Waiting)
    BY <1>3, <1>7, <2>1
  <2>3. more \in Seq(Byte)
    BY <1>3, <2>2
  <2>4. more \o rest = SubSeq(all, h + 1, Len(all))
    BY <2>2, RestJoined DEF all
  <2>5. Waiting[h] = <<i, h>>
    <3>1. Waiting # <<>> => Waiting[1] = <<i, 0 + 1>>
      BY <1>5
    <3>2. h \in Nat /\ h <= Len(Waiting) /\ 0 + h <= Sent[i].head + Sent[i].body /\ 0 + h = h
          /\ h \in 1..h
      BY <1>3, <1>7, <2>2 DEF h, l
    <3>3. \A j \in 1..h : Waiting[j] = <<i, 0 + j>>
      <4> DEFINE t == Taken
                 g == given
      <4>1. Follow(all, t, g) /\ all \in Seq(Byte) /\ i \in 1..Len(Sent)
        BY <1>3, <1>6 DEF all
      <4>2. all # <<>> => all[1] = <<i, 0 + 1>>
        BY <3>1 DEF all
      <4>3. 0 \in Nat /\ h \in Nat /\ h <= Len(all) /\ 0 + h <= Sent[i].head + Sent[i].body
        BY <3>2 DEF all
      <4> HIDE DEF t, g
      <4>4. \A j \in 1..h : all[j] = <<i, 0 + j>>
        BY ONLY <4>1, <4>2, <4>3, FollowInside
      <4> QED BY <4>4 DEF all
    <3> QED BY <3>2, <3>3
  <2>6. Follow(more \o rest, <<i, h>>, given)
    <3>1. Follow(SubSeq(Waiting, h + 1, Len(Waiting)), Waiting[h], given)
      BY <1>3, <2>2, FollowRest
    <3> QED BY <2>4, <2>5, <3>1 DEF all
  <2>7. \A j \in 1..Len(more \o rest) : Sending((more \o rest)[j])
    <3>0. \A s \in Seq(Byte), n \in Nat : n <= Len(s) =>
            \A j \in 1..Len(SubSeq(s, n + 1, Len(s))) :
              SubSeq(s, n + 1, Len(s))[j] = s[n + j] /\ n + j \in 1..Len(s)
      OBVIOUS
    <3>1. \A j \in 1..Len(SubSeq(Waiting, h + 1, Len(Waiting))) :
            SubSeq(Waiting, h + 1, Len(Waiting))[j] = Waiting[h + j]
              /\ h + j \in 1..Len(Waiting)
      <4>1. h \in Nat /\ h <= Len(Waiting) /\ Waiting \in Seq(Byte)
        BY <1>3, <2>2
      <4> QED BY <3>0, <4>1, Zenon
    <3> DEFINE y == SubSeq(Waiting, h + 1, Len(Waiting))
    <3>2. \A j \in 1..Len(y) : Sending(y[j])
      BY <1>6, <3>1
    <3> HIDE DEF y
    <3>3. more \o rest = y
      BY <2>4 DEF y, all
    <3> HIDE DEF more
    <3> QED BY <3>2, <3>3
  <2>8. /\ p.header = i /\ p.headerLen = h
        /\ l > 0 => p = [state |-> "kExpectBody", header |-> i, headerLen |-> h,
                          contentLength |-> l, bodyRead |-> 0]
        /\ ~(l > 0) => p.state = "kGotAll"
    <3>1. buf[1][1] = i
      BY <1>5
    <3>2. p = [parser EXCEPT !.header = i, !.headerLen = h,
                             !.state = IF l > 0 THEN "kExpectBody" ELSE "kGotAll",
                             !.contentLength = IF l > 0 THEN l ELSE @]
      BY <3>1 DEF ParseHead, h, l
    <3> HIDE DEF p
    <3>3. parser = [state |-> "kExpectHeaders", header |-> None, headerLen |-> 0,
                    contentLength |-> 0, bodyRead |-> 0]
      BY DEF Reset
    <3>4. p.header = i /\ p.headerLen = h
      BY <3>2, <3>3
    <3>5. ASSUME l > 0
          PROVE  p = [state |-> "kExpectBody", header |-> i, headerLen |-> h,
                      contentLength |-> l, bodyRead |-> 0]
      <4> DEFINE R == [state : States, header : Nat, headerLen : Nat,
                       contentLength : Nat, bodyRead : Nat]
      <4>1. parser \in R /\ parser.bodyRead = 0
        BY <3>3 DEF States, None
      <4>2. p = [parser EXCEPT !.header = i, !.headerLen = h, !.state = "kExpectBody",
                               !.contentLength = l]
        BY <3>2, <3>5
      <4>3. p \in R
        BY <1>1, <1>7, <4>1, <4>2 DEF States
      <4>4. /\ p.state = "kExpectBody" /\ p.header = i /\ p.headerLen = h
            /\ p.contentLength = l /\ p.bodyRead = 0
        BY <4>1, <4>2
      <4>5. p = [state |-> p.state, header |-> p.header, headerLen |-> p.headerLen,
                 contentLength |-> p.contentLength, bodyRead |-> p.bodyRead]
        BY <4>3
      <4> QED BY <4>4, <4>5
    <3>6. ASSUME ~(l > 0) PROVE p.state = "kGotAll"
      BY <3>2, <3>3, <3>6
    <3> QED BY <3>4, <3>5, <3>6
  <2> HIDE DEF p
  <2>9. IF ExpectingBody(p) THEN CollectBody(p, body, more, TRUE)
                            ELSE Dispatch(p, body, TRUE) /\ buffer' = more
    BY <1>9, <2>8 DEF MessageHead, p
  <2> HIDE DEF more
  <2>10. CASE l > 0
    <3>1. CollectBody(p, <<>>, more, TRUE)
      <4>1. p.state = "kExpectBody"
        BY <2>8, <2>10
      <4>2. CollectBody(p, body, more, TRUE)
        BY <2>9, <4>1 DEF ExpectingBody
      <4> QED BY <4>2
    <3>2. <<>> \in Seq(Byte) /\ Len(<<>>) = 0 /\ Len(<<>>) < Sent[i].body
          /\ (\A k \in 1..Len(<<>>) : <<>>[k] = <<i, Sent[i].head + k>>)
      BY <1>7, <2>10 DEF l
    <3>3. Sent[i].head + Len(<<>>) = h
      BY <1>7, <3>2 DEF h
    <3>4. p = [state |-> "kExpectBody", header |-> i, headerLen |-> Sent[i].head,
               contentLength |-> Sent[i].body, bodyRead |-> Len(<<>>)]
      BY <2>8, <2>10, <3>2 DEF h, l
    <3>5. i <= given /\ i = Served + 1
      BY <1>6 DEF i
    <3>6. Follow(more \o rest, <<i, Sent[i].head + Len(<<>>)>>, given)
      BY <2>6, <3>3
    <3> QED BY <2>1, <2>3, <2>7, <3>1, <3>2, <3>4, <3>5, <3>6, CollectStep
  <2>11. CASE ~(l > 0)
    <3>1. Dispatch(p, <<>>, TRUE) /\ buffer' = more
      BY <2>8, <2>9, <2>11 DEF ExpectingBody
    <3>2. l = 0
      BY <1>7, <2>11
    <3>3. Body(i) = <<>>
      BY <1>6, <3>2, BodyFacts DEF l
    <3>4. /\ dispatched' = Append(dispatched,
                                 [request |-> i, body |-> Body(i), headers |-> TRUE])
          /\ body' = <<>> /\ parser' = Reset
      BY <2>8, <3>1, <3>3 DEF Dispatch
    <3>5. dispatched' \in Seq(Call) /\ Served' = i /\ CallsAsSent'
      BY <1>6, <3>4, OneMoreCall DEF FieldsOK, i
    <3>6. Taken' = <<i, h>>
      <4>1. (parser.header)' = None
        BY <3>4 DEF Reset
      <4>2. Taken' = EndOf(i)
        BY <3>5, <4>1 DEF Taken, Served
      <4>3. h + l = h
        BY <1>7, <3>2
      <4> QED BY <1>6, <4>2, <4>3, AfterFacts DEF h, l
    <3>7. Waiting' = more \o rest
      BY <3>1 DEF Waiting
    <3>8. Follow(Waiting, Taken, given)'
      BY <2>6, <3>6, <3>7 DEF Follow
    <3>9. FieldsOK'
      <4>1. \A j \in 1..Len(Waiting') : Sending((Waiting')[j])
        BY <2>7, <3>7
      <4>2. \A j \in 1..Len(Waiting') : Sending(Waiting[j])'
        BY <4>1 DEF Sending
      <4>3. given' = given /\ pipelined' = pipelined /\ pipelined \in BOOLEAN
        BY DEF FieldsOK
      <4>4. Served' <= given'
        BY <1>6, <3>5, <4>3
      <4> QED BY <1>6, <2>3, <3>1, <3>5, <4>2, <4>3, <4>4 DEF FieldsOK
    <3> QED BY <3>4, <3>5, <3>8, <3>9 DEF ServedInv, ParserOK
  <2> QED BY <2>10, <2>11
<1>10. CASE MessagePartial(buf)
  <2>1. buffer' = buf /\ UNCHANGED <<parser, body, dispatched>>
    BY <1>10 DEF MessagePartial
  <2>2. Waiting' = Waiting /\ Taken' = Taken /\ Served' = Served /\ CallsAsSent'
    BY <2>1 DEF Waiting, Taken, Served, CallsAsSent
  <2>3. FieldsOK'
    BY <1>8, <2>1, <2>2 DEF FieldsOK
  <2>4. Follow(Waiting, Taken, given)'
    BY <2>2 DEF Follow
  <2>5. ParserOK'
    BY <2>1 DEF ParserOK
  <2> QED BY <2>2, <2>3, <2>4, <2>5 DEF ServedInv
<1>11. CASE MessageMalformed(buf)
  <2>1. buffer' = <<>> /\ UNCHANGED <<parser, body, dispatched>>
    BY <1>11 DEF MessageMalformed
  <2>2. ~Sent[i].wellFormed
    BY <1>5, <1>11, VerdictFacts DEF MessageMalformed
  <2>3. i = Len(Sent) /\ i = given
    BY <1>1, <1>6, <2>2, SentAssumption
  <2>4. Waiting' = rest
    BY <2>1 DEF Waiting
  <2>5. \A j \in 1..Len(rest) : Len(buf) + j \in 1..Len(Waiting)
    BY <1>3
  <2>6. \A j \in 1..Len(rest) : Sending(rest[j]) /\ rest[j][1] = i
    <3> SUFFICES ASSUME NEW j \in 1..Len(rest) PROVE Sending(rest[j]) /\ rest[j][1] = i
      OBVIOUS
    <3>1. rest[j] = Waiting[Len(buf) + j] /\ Len(buf) + j \in 1..Len(Waiting)
      BY <1>3, <2>5
    <3>2. Sending(rest[j]) /\ rest[j][1] \in Nat /\ rest[j][1] >= i
      BY <1>5, <1>6, <3>1
    <3> QED BY <1>6, <2>3, <3>2 DEF Sending
  <2>7. Served' = Served /\ CallsAsSent'
    BY <2>1 DEF Served, CallsAsSent
  <2>8. FieldsOK'
    BY <1>8, <2>1, <2>4, <2>6, <2>7 DEF FieldsOK
  <2>9. Dropped'
    BY <2>1, <2>2, <2>3, <2>4, <2>6, <2>7 DEF Dropped, i
  <2>10. ParserOK'
    BY <2>1 DEF ParserOK
  <2> QED BY <2>7, <2>8, <2>9, <2>10 DEF ServedInv
<1> QED BY <1>9, <1>10, <1>11

(* One read event after bytes of no request were dropped: no way back.     *)
LEMMA DroppedStep ==
  ASSUME FieldsOK, CallsAsSent, ParserOK, Dropped,
         NEW buf \in Seq(Byte), NEW rest \in Seq(Byte), buf # <<>>, Waiting = buf \o rest,
         MessageInBody(buf) \/ MessageHead(buf) \/ MessagePartial(buf) \/ MessageMalformed(buf),
         kernel' = rest, UNCHANGED <<given, pipelined>>
  PROVE  ServedInv'
<1>1. /\ Waiting \in Seq(Byte) /\ Len(Waiting) = Len(buf) + Len(rest)
      /\ Len(buf) \in Nat \ {0} /\ Len(rest) \in Nat
      /\ \A j \in 1..Len(buf) : Waiting[j] = buf[j]
      /\ \A j \in 1..Len(rest) : Waiting[Len(buf) + j] = rest[j]
  <2>1. Len(buf) # 0
    OBVIOUS
  <2> QED BY <2>1, Joined
<1>2. buf[1][1] = given /\ ~Sent[given].wellFormed
  <2>1. 1 \in 1..Len(buf) /\ 1 \in 1..Len(Waiting)
    BY <1>1
  <2> QED BY <1>1, <2>1 DEF Dropped
<1>3. ~MessageInBody(buf) /\ ~MessageHead(buf)
  <2>1. ~ExpectingBody(parser)
    BY DEF Dropped, Reset, ExpectingBody
  <2> QED BY <1>2, <2>1, VerdictFacts DEF MessageInBody, MessageHead
<1>4. /\ UNCHANGED <<parser, body, dispatched>> /\ buffer' \in Seq(Byte)
      /\ Waiting' = Waiting \/ Waiting' = rest
  <2>1. CASE MessagePartial(buf)
    BY <2>1 DEF MessagePartial, Waiting
  <2>2. CASE MessageMalformed(buf)
    <3>1. buffer' = <<>> /\ UNCHANGED <<parser, body, dispatched>>
      BY <2>2 DEF MessageMalformed
    <3>2. Waiting' = rest
      BY <3>1 DEF Waiting
    <3> QED BY <3>1, <3>2
  <2> QED BY <1>3, <2>1, <2>2
<1>5. \A j \in 1..Len(Waiting) : Sending(Waiting[j]) /\ Waiting[j][1] = given
  BY DEF FieldsOK, Dropped
<1>6. \A j \in 1..Len(Waiting') : Sending((Waiting')[j]) /\ (Waiting')[j][1] = given
  <2>1. \A j \in 1..Len(rest) : Len(buf) + j \in 1..Len(Waiting)
    BY <1>1
  <2>2. \A j \in 1..Len(rest) : Sending(rest[j]) /\ rest[j][1] = given
    BY <1>1, <1>5, <2>1
  <2> QED BY <1>4, <1>5, <2>2
<1>7. Served' = Served /\ CallsAsSent'
  BY <1>4 DEF Served, CallsAsSent
<1>8. FieldsOK'
  <2>1. \A j \in 1..Len(Waiting') : Sending(Waiting[j])'
    BY <1>6 DEF Sending
  <2> QED BY <1>4, <1>7, <2>1 DEF FieldsOK
<1>9. Dropped'
  BY <1>4, <1>6, <1>7 DEF Dropped
<1>10. ParserOK'
  BY <1>4 DEF Dropped, ParserOK, InBody, Served
<1> QED BY <1>7, <1>8, <1>9, <1>10 DEF ServedInv

(* A read event, whatever is read. *)
LEMMA ReadStep ==
  ASSUME ServedInv, HandleRead
  PROVE  ServedInv'
<1>1. PICK k \in 1..Len(kernel) :
        LET buf == buffer \o SubSeq(kernel, 1, k) IN
        /\ kernel' = SubSeq(kernel, k + 1, Len(kernel))
        /\ \/ MessageInBody(buf) \/ MessageHead(buf)
           \/ MessagePartial(buf) \/ MessageMalformed(buf)
        /\ UNCHANGED <<given, pipelined>>
  BY DEF HandleRead
<1> DEFINE taken == SubSeq(kernel, 1, k)
           rest == SubSeq(kernel, k + 1, Len(kernel))
           buf == buffer \o taken
<1>2. buffer \in Seq(Byte) /\ kernel \in Seq(Byte) /\ FieldsOK /\ CallsAsSent /\ ParserOK
  BY DEF ServedInv, FieldsOK
<1>3. /\ taken \in Seq(Byte) /\ Len(taken) = k
      /\ rest \in Seq(Byte) /\ Len(rest) = Len(kernel) - k
      /\ \A j \in 1..k : taken[j] = kernel[j]
      /\ \A j \in 1..Len(rest) : rest[j] = kernel[k + j]
      /\ k \in Nat \ {0} /\ Len(kernel) \in Nat /\ k <= Len(kernel)
  BY <1>2
<1>4. /\ kernel' = rest /\ UNCHANGED <<given, pipelined>>
      /\ \/ MessageInBody(buf) \/ MessageHead(buf)
         \/ MessagePartial(buf) \/ MessageMalformed(buf)
  BY <1>1
<1> HIDE DEF taken, rest
<1>5. kernel = taken \o rest
  <2>1. /\ taken \o rest \in Seq(Byte) /\ Len(taken \o rest) = Len(kernel)
        /\ \A j \in 1..Len(taken) : (taken \o rest)[j] = taken[j]
        /\ \A j \in 1..Len(rest) : (taken \o rest)[Len(taken) + j] = rest[j]
    <3>1. Len(taken) + Len(rest) = Len(kernel)
      BY <1>3
    <3> QED BY <1>3, <3>1, Joined
  <2>2. ASSUME NEW j \in 1..Len(kernel) PROVE (taken \o rest)[j] = kernel[j]
    <3>1. CASE j <= k
      BY <1>3, <2>1, <3>1
    <3>2. CASE ~(j <= k)
      <4>1. j - k \in 1..Len(rest) /\ k + (j - k) = j
        BY <1>3, <3>2
      <4> QED BY <1>3, <2>1, <4>1
    <3> QED BY <3>1, <3>2
  <2> QED BY <1>2, <2>1, <2>2, SeqEqual
<1>6. taken # <<>>
  BY <1>3
<1>7. /\ buf \in Seq(Byte) /\ buf # <<>> /\ Waiting = buf \o rest
      /\ Waiting \in Seq(Byte)
  BY <1>2, <1>3, <1>5, <1>6, ReadFacts
<1> HIDE DEF buf
<1>8. CASE Dropped
  BY <1>2, <1>3, <1>4, <1>7, <1>8, DroppedStep
<1>9. CASE Follow(Waiting, Taken, given) /\ parser = Reset /\ body = <<>>
  <2>1. ~MessageInBody(buf)
    BY <1>9 DEF MessageInBody, ExpectingBody, Reset
  <2> QED BY <1>2, <1>3, <1>4, <1>7, <1>9, <2>1, HeadStep
<1>10. CASE Follow(Waiting, Taken, given) /\ InBody
  <2> DEFINE i == Served + 1
  <2>1. /\ i <= given /\ Sent[i].wellFormed
        /\ parser = [state |-> "kExpectBody", header |-> i, headerLen |-> Sent[i].head,
                     contentLength |-> Sent[i].body, bodyRead |-> Len(body)]
        /\ body \in Seq(Byte) /\ Len(body) < Sent[i].body
        /\ \A j \in 1..Len(body) : body[j] = <<i, Sent[i].head + j>>
    BY <1>10 DEF InBody
  <2>2. parser.header = i /\ ExpectingBody(parser)
    BY <2>1 DEF ExpectingBody
  <2>3. CollectBody(parser, body, buf, FALSE)
    BY <1>4, <2>2 DEF MessageInBody, MessageHead, MessagePartial, MessageMalformed
  <2>4. i # None
    <3>1. dispatched \in Seq(Call)
      BY <1>2 DEF FieldsOK
    <3>2. Len(dispatched) \in Nat
      BY <3>1
    <3> QED BY <3>2 DEF None, Served
  <2>5. Taken = <<i, Sent[i].head + Len(body)>>
    BY <2>2, <2>4 DEF Taken
  <2>6. Follow(buf \o rest, <<i, Sent[i].head + Len(body)>>, given)
    BY <1>7, <1>10, <2>5
  <2>7. \A j \in 1..Len(buf \o rest) : Sending((buf \o rest)[j])
    BY <1>2, <1>7 DEF FieldsOK
  <2>8. i = Served + 1
    OBVIOUS
  <2> HIDE DEF i
  <2> QED BY <1>2, <1>3, <1>4, <1>7, <2>1, <2>3, <2>6, <2>7, <2>8, CollectStep
<1> QED BY <1>8, <1>9, <1>10 DEF ServedInv, ParserOK

(* A message sent behind the others. *)
LEMMA SendStep ==
  ASSUME ServedInv, ClientSends
  PROVE  ServedInv'
<1>1. /\ given < Len(Sent) /\ given' = given + 1
      /\ pipelined' = (pipelined \/ Len(dispatched) < given)
      /\ kernel' = kernel \o Bytes(given + 1)
      /\ UNCHANGED <<parser, body, buffer, dispatched>>
  BY DEF ClientSends
<1>2. /\ given \in 0..Len(Sent) /\ buffer \in Seq(Byte) /\ kernel \in Seq(Byte)
      /\ dispatched \in Seq(Call) /\ Served <= given /\ CallsAsSent /\ ParserOK
      /\ \A j \in 1..Len(Waiting) : Sending(Waiting[j])
  BY DEF ServedInv, FieldsOK
<1>3. Len(Sent) \in Nat /\ given \in Nat /\ given + 1 \in 1..Len(Sent) /\ given + 1 \in 1..(given + 1)
  BY <1>1, <1>2, SentAssumption
<1> DEFINE b == Bytes(given + 1)
<1>4. /\ b \in Seq(Byte) /\ \A k \in 1..Len(b) : b[k] = <<given + 1, k>>
  BY <1>3, MessageFacts
<1>5. Waiting' = Waiting \o b
  <2>1. Waiting' = buffer \o (kernel \o b)
    BY <1>1 DEF Waiting
  <2> HIDE DEF b
  <2>2. buffer \o (kernel \o b) = (buffer \o kernel) \o b
    <3>1. b \in Seq(Byte) /\ buffer \in Seq(Byte) /\ kernel \in Seq(Byte)
      BY <1>2, <1>4
    <3> QED BY ONLY <3>1, ConcatAssociative
  <2> QED BY <2>1, <2>2 DEF Waiting
<1>6. Waiting \in Seq(Byte)
  BY <1>2, Joined DEF Waiting
<1>7. ~Dropped
  <2> SUFFICES ASSUME Dropped PROVE FALSE
    OBVIOUS
  <2>1. Served \in Nat
    <3>1. Len(dispatched) \in Nat
      BY <1>2
    <3> QED BY <3>1 DEF Served
  <2>2. Served + 1 = given /\ ~Sent[given].wellFormed
    BY DEF Dropped
  <2>3. given \in 1..Len(Sent)
    BY <1>2, <1>3, <2>1, <2>2
  <2>4. given = Len(Sent)
    BY <2>2, <2>3, SentAssumption
  <2> QED BY <1>1, <1>3, <2>4
<1>8. Follow(Waiting \o b, Taken, given + 1)
  BY <1>3, <1>6, <1>7, FollowMore DEF ServedInv
<1>9. Taken' = Taken /\ Served' = Served /\ CallsAsSent'
  BY <1>1, <1>2 DEF Taken, Served, CallsAsSent
<1>10. Follow(Waiting, Taken, given)'
  BY <1>1, <1>5, <1>8, <1>9 DEF Follow
<1>11. FieldsOK'
  <2> DEFINE A(x) == x[1] \in 1..(given + 1) /\ x[2] \in 1..Len(Bytes(x[1]))
  <2>1. \A x : Sending(x) => A(x)
    BY <1>3 DEF Sending
  <2>2. \A k \in 1..Len(b) : A(b[k])
    <3>1. Bytes(given + 1) = b
      OBVIOUS
    <3> HIDE DEF b
    <3>2. ASSUME NEW k \in 1..Len(b)
          PROVE  b[k][1] \in 1..(given + 1) /\ b[k][2] \in 1..Len(Bytes(b[k][1]))
      BY <1>3, <1>4, <3>1, <3>2
    <3> QED BY <3>2
  <2> HIDE DEF b, A
  <2>3. /\ Waiting \o b \in Seq(Byte) /\ Len(Waiting \o b) = Len(Waiting) + Len(b)
        /\ Len(Waiting) \in Nat /\ Len(b) \in Nat
        /\ \A j \in 1..Len(Waiting) : (Waiting \o b)[j] = Waiting[j]
        /\ \A j \in 1..Len(b) : (Waiting \o b)[Len(Waiting) + j] = b[j]
    BY <1>4, <1>6, Joined
  <2>4. ASSUME NEW j \in 1..Len(Waiting') PROVE A((Waiting')[j])
    <3>1. CASE j \in 1..Len(Waiting)
      <4>1. (Waiting')[j] = Waiting[j]
        BY <1>5, <2>3, <3>1
      <4> QED BY <1>2, <2>1, <3>1, <4>1
    <3>2. CASE j \notin 1..Len(Waiting)
      <4>1. j - Len(Waiting) \in 1..Len(b) /\ Len(Waiting) + (j - Len(Waiting)) = j
        BY <1>5, <2>3, <2>4, <3>2
      <4>2. (Waiting')[j] = b[j - Len(Waiting)]
        BY <1>5, <2>3, <4>1
      <4> QED BY <2>2, <4>1, <4>2
    <3> QED BY <3>1, <3>2
  <2>5. kernel' \in Seq(Byte)
    BY <1>1, <1>2, <1>4, Joined DEF b
  <2>6. pipelined' \in BOOLEAN
    BY <1>1 DEF ServedInv, FieldsOK
  <2>7. given' \in 0..Len(Sent) /\ Served' <= given'
    <3>1. Len(dispatched) \in Nat
      BY <1>2
    <3> QED BY <1>1, <1>2, <1>3, <1>9, <3>1 DEF Served
  <2>8. \A j \in 1..Len(Waiting') : Sending(Waiting[j])'
    BY <1>1, <2>4 DEF A, Sending
  <2> QED BY <1>1, <1>2, <2>5, <2>6, <2>7, <2>8 DEF FieldsOK
<1>12. ParserOK'
  <2>1. CASE parser = Reset /\ body = <<>>
    BY <1>1, <2>1 DEF ParserOK
  <2>2. CASE InBody
    <3>1. Served \in Nat
      <4>1. Len(dispatched) \in Nat
        BY <1>2
      <4> QED BY <4>1 DEF Served
    <3>2. Served + 1 <= given'
      BY <1>1, <1>3, <2>2, <3>1 DEF InBody
    <3>3. InBody'
      BY <1>1, <1>9, <2>2, <3>2 DEF InBody
    <3> QED BY <3>3 DEF ParserOK
  <2> QED BY <1>2, <2>1, <2>2 DEF ParserOK
<1> QED BY <1>9, <1>10, <1>11, <1>12 DEF ServedInv

-----------------------------------------------------------------------------
(* The theorem.                                                            *)

LEMMA ServedInit == Init => ServedInv
<1> SUFFICES ASSUME Init PROVE ServedInv
  OBVIOUS
<1>1. /\ parser = Reset /\ body = <<>> /\ buffer = <<>> /\ kernel = <<>>
      /\ given = 0 /\ dispatched = <<>> /\ pipelined = FALSE
  BY DEF Init
<1>2. Waiting = <<>> /\ Served = 0
  BY <1>1 DEF Waiting, Served
<1>3. Taken = EndOf(0)
  BY <1>1 DEF Taken, Reset
<1>4. Follow(Waiting, Taken, given)
  BY <1>1, <1>2, <1>3 DEF Follow
<1>5. FieldsOK
  <2>1. Len(Sent) \in Nat
    BY SentAssumption
  <2>2. <<>> \in Seq(Byte) /\ <<>> \in Seq(Call)
    OBVIOUS
  <2>3. \A j \in 1..Len(Waiting) : Sending(Waiting[j])
    BY <1>2
  <2>4. buffer \in Seq(Byte) /\ kernel \in Seq(Byte) /\ dispatched \in Seq(Call)
    BY <1>1, <2>2
  <2>5. given \in 0..Len(Sent) /\ Served <= given /\ pipelined \in BOOLEAN
    <3>1. 0 \in 0..Len(Sent) /\ 0 <= 0
      BY <2>1
    <3>2. given = 0 /\ Served = 0 /\ pipelined = FALSE
      BY <1>1, <1>2
    <3>3. given \in 0..Len(Sent) /\ Served <= given
      BY <3>1, <3>2, Zenon
    <3> QED BY <3>2, <3>3, Zenon
  <2> QED BY <2>3, <2>4, <2>5 DEF FieldsOK
<1>6. CallsAsSent /\ ParserOK
  BY <1>1 DEF CallsAsSent, ParserOK
<1> QED BY <1>4, <1>5, <1>6 DEF ServedInv

LEMMA ServedStep == ServedInv /\ [Next]_vars => ServedInv'
<1> SUFFICES ASSUME ServedInv, [Next]_vars PROVE ServedInv'
  OBVIOUS
<1>1. CASE UNCHANGED vars
  BY <1>1 DEF vars, ServedInv, FieldsOK, CallsAsSent, ParserOK, InBody, Dropped, Follow,
              Waiting, Taken, Served, Sending
<1> QED BY <1>1, ReadStep, SendStep DEF Next

(* What waits, after what was taken, is one stream. *)
LEMMA ServedAsSent == ServedInv => RequestsAsSent
<1> SUFFICES ASSUME ServedInv PROVE RequestsAsSent
  OBVIOUS
<1>1. /\ given \in 0..Len(Sent) /\ pipelined \in BOOLEAN
      /\ buffer \in Seq(Byte) /\ kernel \in Seq(Byte)
      /\ dispatched \in Seq(Call) /\ Served <= given
      /\ \A j \in 1..Len(Waiting) : Sending(Waiting[j])
      /\ CallsAsSent /\ ParserOK
  BY DEF ServedInv, FieldsOK
<1>2. /\ Len(Sent) \in Nat /\ given \in Nat /\ Served \in Nat
  <2>1. Len(Sent) \in Nat /\ Len(dispatched) \in Nat
    BY <1>1, SentAssumption
  <2> QED BY <1>1, <2>1 DEF Served
<1>3. \A i \in 1..given : i \in 1..Len(Sent)
  BY <1>1, <1>2
<1>4. /\ Waiting \in Seq(Byte) /\ Len(Waiting) = Len(buffer) + Len(kernel)
      /\ Len(buffer) \in Nat /\ Len(kernel) \in Nat
      /\ \A j \in 1..Len(buffer) : Waiting[j] = buffer[j]
      /\ \A j \in 1..Len(kernel) : Waiting[Len(buffer) + j] = kernel[j]
  BY <1>1, Joined DEF Waiting
<1> DEFINE All == UNION {ToSet(Bytes(i)) : i \in 1..given}
<1>5. ASSUME NEW x \in Byte, Sending(x) PROVE x \in All
  <2>1. x[1] \in 1..given /\ x[2] \in 1..Len(Bytes(x[1])) /\ x = <<x[1], x[2]>>
    BY <1>5 DEF Sending, Byte
  <2>2. /\ Bytes(x[1]) \in Seq(Byte) /\ Bytes(x[1])[x[2]] = x
        /\ x[2] \in DOMAIN Bytes(x[1])
    <3>1. /\ Bytes(x[1]) \in Seq(Byte)
          /\ \A k \in 1..Len(Bytes(x[1])) : Bytes(x[1])[k] = <<x[1], k>>
      BY <1>3, <2>1, MessageFacts
    <3>2. DOMAIN Bytes(x[1]) = 1..Len(Bytes(x[1]))
      BY <3>1
    <3> QED BY <2>1, <3>1, <3>2
  <2>3. x \in ToSet(Bytes(x[1]))
    BY <2>2 DEF ToSet
  <2> QED BY <2>1, <2>3
<1> HIDE DEF All
<1>6. ToSet(buffer) \subseteq All /\ ToSet(kernel) \subseteq All
  <2>1. \A j \in 1..Len(buffer) : j \in 1..Len(Waiting) /\ buffer[j] \in Byte
    BY <1>1, <1>4
  <2>2. \A j \in 1..Len(kernel) : Len(buffer) + j \in 1..Len(Waiting) /\ kernel[j] \in Byte
    BY <1>1, <1>4
  <2>3. \A j \in 1..Len(buffer) : buffer[j] \in All
    BY <1>1, <1>4, <1>5, <2>1
  <2>4. \A j \in 1..Len(kernel) : kernel[j] \in All
    BY <1>1, <1>4, <1>5, <2>2
  <2>5. DOMAIN buffer = 1..Len(buffer) /\ DOMAIN kernel = 1..Len(kernel)
    BY <1>1
  <2> QED BY <2>3, <2>4, <2>5 DEF ToSet
<1>7. /\ ToSet(body) \subseteq All /\ parser.state \in States \ {"kGotAll"}
      /\ parser.bodyRead \in 0..parser.contentLength
  <2>1. CASE parser = Reset /\ body = <<>>
    BY <2>1 DEF Reset, States, ToSet
  <2>2. CASE InBody
    <3> DEFINE i == Served + 1
    <3>1. /\ i <= given
          /\ parser = [state |-> "kExpectBody", header |-> i, headerLen |-> Sent[i].head,
                       contentLength |-> Sent[i].body, bodyRead |-> Len(body)]
          /\ body \in Seq(Byte) /\ Len(body) < Sent[i].body
          /\ \A k \in 1..Len(body) : body[k] = <<i, Sent[i].head + k>>
      BY <2>2 DEF InBody
    <3>2. i \in 1..given /\ i \in 1..Len(Sent) /\ Len(body) \in Nat
      BY <1>1, <1>2, <3>1
    <3>3. /\ Sent[i].head \in Nat /\ Sent[i].body \in Nat
          /\ Len(Bytes(i)) = Sent[i].head + Sent[i].body
      BY <3>2, MessageFacts
    <3> HIDE DEF i
    <3>4. ASSUME NEW k \in 1..Len(body) PROVE body[k] \in All
      <4>1. body[k] \in Byte /\ body[k] = <<i, Sent[i].head + k>>
        BY <3>1
      <4>2. Sent[i].head + k \in 1..Len(Bytes(i))
        BY <3>1, <3>2, <3>3, SMTT(40)
      <4>3. Sending(body[k])
        BY <3>2, <4>1, <4>2 DEF Sending
      <4> QED BY <1>5, <4>1, <4>3
    <3>5. DOMAIN body = 1..Len(body)
      BY <3>1
    <3>6. Len(body) \in 0..Sent[i].body
      BY <3>1, <3>2, <3>3
    <3> QED BY <3>1, <3>4, <3>5, <3>6 DEF States, ToSet
  <2> QED BY <1>1, <2>1, <2>2 DEF ParserOK
<1>8. TypeOK
  BY <1>1, <1>6, <1>7 DEF TypeOK, All
<1>9. BytesAccounted
  <2> SUFFICES ASSUME \A i \in 1..given : Sent[i].wellFormed
               PROVE  LET stream == <<Taken>> \o buffer \o kernel IN
                      /\ \A j \in 2..Len(stream) : stream[j] = After(stream[j - 1])
                      /\ Last(stream) = EndOf(given)
    BY DEF BytesAccounted
  <2>1. ~Dropped
    <3>1. Served + 1 = given => given \in 1..given
      BY <1>2
    <3> QED BY <3>1 DEF Dropped
  <2>2. Follow(Waiting, Taken, given)
    BY <2>1 DEF ServedInv
  <2>3. Taken \in Byte
    <3>1. CASE parser = Reset
      <4>1. Taken = EndOf(Served)
        BY <3>1 DEF Taken, Reset, Served
      <4>2. CASE Served = 0
        BY <4>1, <4>2 DEF EndOf, Byte
      <4>3. CASE Served # 0
        <5>1. Served \in 1..Len(Sent)
          BY <1>1, <1>2, <4>3
        <5>2. Len(Bytes(Served)) \in Nat
          BY <5>1, MessageFacts
        <5> QED BY <1>2, <4>1, <4>3, <5>2 DEF EndOf, Byte
      <4> QED BY <4>2, <4>3
    <3>2. CASE InBody
      <4> DEFINE i == Served + 1
      <4>1. /\ i <= given /\ i # 0 /\ i \in Nat /\ parser.header = i /\ Len(body) \in Nat
        BY <1>2, <3>2 DEF InBody
      <4>2. i \in 1..Len(Sent)
        BY <1>1, <1>2, <4>1
      <4>3. Sent[i].head \in Nat
        BY <4>2, MessageFacts
      <4> HIDE DEF i
      <4> QED BY <4>1, <4>3 DEF Taken, None, Byte
    <3> QED BY <1>1, <3>1, <3>2 DEF ParserOK
  <2> DEFINE stream == <<Taken>> \o buffer \o kernel
             t == <<Taken>>
  <2>4. /\ t \in Seq(Byte) /\ Len(t) = 1 /\ t[1] = Taken /\ 1 \in 1..Len(t)
    BY <2>3
  <2> HIDE DEF t
  <2>5. stream = t \o Waiting
    BY <1>1, <2>4, ConcatAssociative DEF Waiting, t
  <2> HIDE DEF stream
  <2>6. /\ stream \in Seq(Byte) /\ Len(stream) = 1 + Len(Waiting) /\ Len(Waiting) \in Nat
        /\ stream[1] = Taken
        /\ \A j \in 1..Len(Waiting) : stream[1 + j] = Waiting[j]
    <3>1. /\ t \o Waiting \in Seq(Byte) /\ Len(t \o Waiting) = Len(t) + Len(Waiting)
          /\ Len(Waiting) \in Nat
          /\ \A j \in 1..Len(t) : (t \o Waiting)[j] = t[j]
          /\ \A j \in 1..Len(Waiting) : (t \o Waiting)[Len(t) + j] = Waiting[j]
      BY <1>4, <2>4, Joined
    <3> QED BY <2>4, <2>5, <3>1
  <2>7. ASSUME NEW j \in 2..Len(stream) PROVE stream[j] = After(stream[j - 1])
    <3>1. j - 1 \in 1..Len(Waiting) /\ 1 + (j - 1) = j
      BY <2>6
    <3>2. stream[j] = Waiting[j - 1]
      BY <2>6, <3>1
    <3>3. CASE j - 1 = 1
      BY <2>2, <2>6, <3>1, <3>2, <3>3 DEF Follow
    <3>4. CASE j - 1 # 1
      <4>1. (j - 1) - 1 \in 1..Len(Waiting) /\ 1 + ((j - 1) - 1) = j - 1
        BY <2>6, <3>1, <3>4
      <4>2. stream[j - 1] = Waiting[(j - 1) - 1]
        BY <2>6, <4>1
      <4>3. Waiting[j - 1] = After(Waiting[(j - 1) - 1])
        BY <2>2, <3>1, <3>4 DEF Follow
      <4> QED BY <3>2, <4>2, <4>3
    <3> QED BY <3>3, <3>4
  <2>8. Last(stream) = EndOf(given)
    <3>1. CASE Waiting = <<>>
      <4>1. Len(stream) = 1
        BY <2>6, <3>1
      <4> QED BY <2>2, <2>6, <3>1, <4>1 DEF Follow, Last
    <3>2. CASE Waiting # <<>>
      <4>1. Len(Waiting) \in 1..Len(Waiting)
        BY <1>4, <2>6, <3>2
      <4> QED BY <2>2, <2>6, <3>2, <4>1 DEF Follow, Last
    <3> QED BY <3>1, <3>2
  <2> QED BY <2>7, <2>8 DEF stream
<1> QED BY <1>1, <1>8, <1>9 DEF RequestsAsSent

(* The user of a connection is called with the requests the client sent,   *)
(* whole, in their order and each with its own body, and what is not yet   *)
(* dispatched waits, unbroken, behind it (HttpServer.h:88-127): for any    *)
(* messages and any cut of the stream into reads.                          *)
THEOREM RequestsReachTheUser == Spec => []RequestsAsSent
<1>1. ServedInv /\ [Next]_vars => ServedInv'
  BY ServedStep
<1>2. Spec => []ServedInv
  BY <1>1, ServedInit, PTL DEF Spec
<1> QED BY <1>2, ServedAsSent, PTL
=============================================================================
