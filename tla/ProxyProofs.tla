------------------------------ MODULE ProxyProofs -----------------------------
(***************************************************************************)
(* Proofs about two components of the proxies that many threads use with   *)
(* little or no locking.                                                   *)
(*                                                                         *)
(* TokenBucket.tla, for any number of requesters and updates, any          *)
(* capacities and any length of time below the wrap of the clock.          *)
(*                                                                         *)
(* Selector.tla: the selector keeps the list, the ring and the weights     *)
(* together, for any finite set of nodes, any weights, places and keys,    *)
(* any threads that hash, and any number of changes.                       *)
(***************************************************************************)
EXTENDS TokenBucket, Selector, SequenceTheorems, FiniteSetTheorems, WellFoundedInduction, TLAPS

States == [ts : Nat, tokens : Nat]
AllConfigs == {Start} \cup Configs

(* The time it takes to produce whole tokens is a whole number of          *)
(* milliseconds: true of the rates that divide 1000 or that 1000 divides.  *)
Exact(rate) ==
  rate > 0 => \A e \in Nat : (((e * rate) \div 1000) * 1000) % rate = 0

LEMMA Division ==
  ASSUME NEW a \in Nat, NEW b \in Nat \ {0}
  PROVE  /\ a \div b \in Nat
         /\ (a \div b) * b <= a
         /\ a < (a \div b) * b + b
         /\ a % b = 0 => (a \div b) * b = a
<1>1. a \div b \in Nat
  OBVIOUS
<1>2. (a \div b) * b <= a
  OBVIOUS
<1>3. a < (a \div b) * b + b
  OBVIOUS
<1>4. a % b = 0 => (a \div b) * b = a
  OBVIOUS
<1>5. QED
  BY <1>1, <1>2, <1>3, <1>4

LEMMA Wrapping ==
  ASSUME NEW a \in Nat, NEW b \in Nat \ {0}, a < b
  PROVE  a % b = a /\ (a + b) % b = a
<1>1. a % b = a
  OBVIOUS
<1>2. (a + b) % b = a
  OBVIOUS
<1>3. QED
  BY <1>1, <1>2

LEMMA Products ==
  ASSUME NEW a \in Nat, NEW b \in Nat, NEW c \in Nat
  PROVE  /\ a * c \in Nat /\ a * c = c * a
         /\ a <= b => a * c <= b * c
         /\ c > 0 /\ a * c <= b * c => a <= b
         /\ (a + b) * c = a * c + b * c
<1>1. a * c \in Nat /\ a * c = c * a
  OBVIOUS
<1>2. a <= b => a * c <= b * c
  OBVIOUS
<1>3. c > 0 /\ a * c <= b * c => a <= b
  OBVIOUS
<1>4. (a + b) * c = a * c + b * c
  OBVIOUS
<1>5. QED
  BY <1>1, <1>2, <1>3, <1>4

LEMMA DivisorsAreExact ==
  ASSUME NEW rate \in Nat, NEW k \in Nat, rate * k = 1000 \/ rate = 1000 * k
  PROVE  Exact(rate)
<1> SUFFICES ASSUME rate > 0, NEW e \in Nat
             PROVE  (((e * rate) \div 1000) * 1000) % rate = 0
  BY DEF Exact
<1> DEFINE p == (e * rate) \div 1000
<1>1. p \in Nat
  BY Division, Products
<1>2. CASE rate * k = 1000
  <2>1. p * 1000 = (p * k) * rate /\ p * k \in Nat
    BY <1>1, <1>2
  <2>2. ((p * k) * rate) % rate = 0
    BY <2>1
  <2>3. QED
    BY <2>1, <2>2
<1>3. CASE rate = 1000 * k
  <2>1. e * rate = (e * k) * 1000 /\ e * k \in Nat
    BY <1>3
  <2>2. ((e * k) * 1000) \div 1000 = e * k
    BY <2>1
  <2>3. p * 1000 = e * rate
    <3>1. p = ((e * k) * 1000) \div 1000
      BY <2>1
    <3>2. QED
      BY <2>1, <2>2, <3>1
  <2>4. (e * rate) % rate = 0
    OBVIOUS
  <2>5. QED
    BY <2>3, <2>4
<1>4. QED
  BY <1>2, <1>3

-----------------------------------------------------------------------------
(* Settling.                                                               *)

LEMMA ElapsedIsThePast ==
  ASSUME clock \in Nat, clock < Modulus, Modulus \in Nat, NEW ts \in Nat, ts <= clock
  PROVE  Elapsed(ts) = clock - ts /\ clock - ts \in Nat
<1>1. clock - ts \in Nat /\ clock - ts < Modulus /\ Modulus \in Nat \ {0}
  OBVIOUS
<1>2. clock + Modulus - ts = (clock - ts) + Modulus
  OBVIOUS
<1>3. ((clock - ts) + Modulus) % Modulus = clock - ts
  BY <1>1, Wrapping
<1>4. QED
  BY <1>1, <1>2, <1>3 DEF Elapsed

(* A settlement adds p tokens, up to the capacity, and q milliseconds,     *)
(* never beyond the present.  What p tokens take is at most the time that  *)
(* has passed; q is that time when the rate is exact, and at least half of *)
(* it for the others up to 1000 per second (TokenBucket.cc:34-42).         *)
Settlement(cur, cfg, p, q) ==
  /\ p = Produced(cur.ts, cfg.rate)
  /\ Settled(cur, cfg) =
       [ts     |-> cur.ts + q,
        tokens |-> IF p = 0 THEN cur.tokens ELSE Least(cur.tokens + p, cfg.capacity)]
  /\ cur.ts + q <= clock
  /\ p * 1000 <= (clock - cur.ts) * cfg.rate
  /\ Exact(cfg.rate) => p * 1000 = q * cfg.rate
  /\ cfg.rate <= 1000 => p * 1000 <= q * (2 * cfg.rate)

LEMMA ProducedIs ==
  ASSUME clock \in Nat, clock < Modulus, Modulus \in Nat,
         NEW ts \in Nat, NEW rate \in Nat, ts <= clock
  PROVE  /\ Produced(ts, rate) \in Nat
         /\ Produced(ts, rate) = ((clock - ts) * rate) \div 1000
         /\ Produced(ts, rate) * 1000 <= (clock - ts) * rate
         /\ (clock - ts) * rate \in Nat
         /\ Produced(ts, rate) # 0 => rate > 0
<1> DEFINE e == clock - ts
           p == Produced(ts, rate)
<1>1. e \in Nat /\ e * rate \in Nat /\ p = (e * rate) \div 1000
  BY ElapsedIsThePast, Products DEF Produced
<1> HIDE DEF e, p
<1>2. p \in Nat /\ p * 1000 <= e * rate
  BY <1>1, Division
<1>3. ASSUME p # 0
      PROVE  rate > 0
  <2> SUFFICES ASSUME rate = 0 PROVE FALSE
    OBVIOUS
  <2>1. e * rate = 0
    BY <1>1
  <2>2. QED
    BY <1>2, <1>3, <2>1
<1>4. QED
  BY <1>1, <1>2, <1>3 DEF e, p

LEMMA SettledIs ==
  ASSUME clock \in Nat, clock < Modulus, Modulus \in Nat,
         NEW cur \in States, NEW cfg \in Config, cur.ts <= clock
  PROVE  \E p, q \in Nat : Settlement(cur, cfg, p, q)
<1>1. cur.ts \in Nat /\ cur.tokens \in Nat /\ cfg.rate \in Nat /\ cfg.capacity \in Nat
      /\ cur = [ts |-> cur.ts, tokens |-> cur.tokens]
  BY DEF States, Config
<1>2. PICK rate \in Nat : rate = cfg.rate
  BY <1>1
<1>3. PICK e \in Nat : e = clock - cur.ts
  BY <1>1
<1>4. PICK p \in Nat : /\ p = Produced(cur.ts, cfg.rate) /\ p = (e * rate) \div 1000
                       /\ p * 1000 <= e * rate /\ e * rate \in Nat
                       /\ p # 0 => rate > 0
  BY <1>1, <1>2, <1>3, ProducedIs
<1>5. CASE p = 0
  <2>1. Settled(cur, cfg) = cur
    BY <1>4, <1>5 DEF Settled
  <2>2. cur.ts + 0 = cur.ts /\ 0 * cfg.rate = 0 /\ 0 * (2 * cfg.rate) = 0
    BY <1>1
  <2>3. Settled(cur, cfg) = [ts |-> cur.ts + 0, tokens |-> cur.tokens]
    BY <1>1, <2>1, <2>2
  <2>4. Settlement(cur, cfg, p, 0)
    BY <1>1, <1>2, <1>3, <1>4, <1>5, <2>2, <2>3 DEF Settlement
  <2>5. QED
    BY <2>4
<1>6. CASE p # 0
  <2>1. rate \in Nat \ {0} /\ p * 1000 \in Nat
    BY <1>4, <1>6
  <2>2. PICK q \in Nat : /\ q = (p * 1000) \div rate
                         /\ q * rate <= p * 1000 /\ p * 1000 < q * rate + rate
                         /\ (p * 1000) % rate = 0 => q * rate = p * 1000
    <3> DEFINE t == (p * 1000) \div rate
    <3>1. /\ t \in Nat /\ t * rate <= p * 1000 /\ p * 1000 < t * rate + rate
          /\ (p * 1000) % rate = 0 => t * rate = p * 1000
      BY <2>1, Division
    <3>2. t = (p * 1000) \div rate
      OBVIOUS
    <3> HIDE DEF t
    <3>3. QED
      BY <3>1, <3>2
  <2>3. q <= e
    <3>1. q * rate \in Nat
      BY <2>1, Products
    <3>2. q * rate <= e * rate
      BY <1>4, <2>1, <2>2, <3>1
    <3>3. QED
      BY <2>1, <3>2, Products
  <2>4. cur.ts + q \in Nat /\ cur.ts + q <= clock /\ cur.ts + q < Modulus
        /\ Modulus \in Nat \ {0}
    BY <1>1, <1>3, <2>3
  <2>5. (cur.ts + q) % Modulus = cur.ts + q
    BY <2>4, Wrapping
  <2>6. Settled(cur, cfg) = [ts |-> cur.ts + q, tokens |-> Least(cur.tokens + p, cfg.capacity)]
    BY <1>2, <1>4, <1>6, <2>2, <2>5 DEF Settled
  <2>7. ASSUME Exact(rate)
        PROVE  p * 1000 = q * rate
    <3>1. (((e * rate) \div 1000) * 1000) % rate = 0
      BY <2>1, <2>7 DEF Exact
    <3>2. (p * 1000) % rate = 0
      BY <1>4, <3>1
    <3>3. QED
      BY <2>2, <3>2
  <2>8. ASSUME rate <= 1000
        PROVE  p * 1000 <= q * (2 * rate)
    <3>1. q >= 1
      <4> SUFFICES ASSUME q = 0 PROVE FALSE
        OBVIOUS
      <4>1. q * rate = 0 /\ p * 1000 >= 1000
        BY <1>6, <2>1
      <4>2. QED
        BY <2>1, <2>2, <2>8, <4>1
    <3>2. rate <= q * rate /\ q * rate \in Nat
      BY <2>1, <3>1, Products
    <3>3. q * (2 * rate) = q * rate + q * rate
      BY <2>1
    <3>4. QED
      BY <2>1, <2>2, <3>2, <3>3
  <2>9. Settlement(cur, cfg, p, q)
    BY <1>2, <1>3, <1>4, <1>6, <2>4, <2>6, <2>7, <2>8 DEF Settlement
  <2>10. QED
    BY <2>9
<1>7. QED
  BY <1>5, <1>6

-----------------------------------------------------------------------------
(* No timestamp is ahead of the clock, not even one that is about to be    *)
(* stored: only so is the unsigned difference the time that has passed.    *)

Calls ==
  {Idle}
    \cup [at : {"load"}, need : Needs, cfg : AllConfigs, version : Nat]
    \cup [at : {"settle"}, need : Needs, cfg : AllConfigs, version : Nat, cur : States]
    \cup [at : {"swap"}, need : Needs, cfg : AllConfigs, version : Nat, cur : States,
          clips : BOOLEAN, next : States]

Updates ==
  {Idle}
    \cup [at : {"load"}, new : AllConfigs, old : AllConfigs]
    \cup [at : {"settle"}, new : AllConfigs, old : AllConfigs, cur : States]
    \cup [at : {"swap"}, new : AllConfigs, old : AllConfigs, cur : States, next : States]
    \cup [at : {"store"}, new : AllConfigs]

BucketTypeOK ==
  /\ clock \in 0..MaxTime
  /\ config \in AllConfigs /\ state \in States
  /\ call \in [Requesters -> Calls] /\ updating \in Updates
  /\ granted \in Nat /\ clipped \in BOOLEAN /\ version \in Nat

NextNotAhead ==
  /\ \A r \in Requesters : call[r].at = "swap" => call[r].next.ts <= clock
  /\ updating.at = "swap" => updating.next.ts <= clock

TimeInv == BucketTypeOK /\ NoTimestampAhead /\ NextNotAhead

LEMMA ConfigsAreTyped == AllConfigs \subseteq Config
  BY BucketAssumption DEF AllConfigs

(* The locals of a requester or of update, by where it is. *)
LEMMA CallFields ==
  ASSUME NEW c \in Calls
  PROVE  /\ c.at \in {"idle", "load", "settle", "swap"}
         /\ c.at # "idle" => c.need \in Nat \ {0} /\ c.need \in Needs /\ c.cfg \in AllConfigs
                             /\ c.version \in Nat
         /\ c.at \in {"settle", "swap"} => c.cur \in States
         /\ c.at = "swap" => c.next \in States /\ c.clips \in BOOLEAN
<1>1. Needs \subseteq Nat \ {0}
  BY BucketAssumption
<1>2. CASE c = Idle
  BY <1>2 DEF Idle
<1>3. CASE c \in [at : {"load"}, need : Needs, cfg : AllConfigs, version : Nat]
  BY <1>1, <1>3
<1>4. CASE c \in [at : {"settle"}, need : Needs, cfg : AllConfigs, version : Nat, cur : States]
  BY <1>1, <1>4
<1>5. CASE c \in [at : {"swap"}, need : Needs, cfg : AllConfigs, version : Nat, cur : States,
                  clips : BOOLEAN, next : States]
  BY <1>1, <1>5
<1>6. QED
  BY <1>2, <1>3, <1>4, <1>5 DEF Calls

LEMMA UpdateFields ==
  ASSUME NEW u \in Updates
  PROVE  /\ u.at \in {"idle", "load", "settle", "swap", "store"}
         /\ u.at # "idle" => u.new \in AllConfigs
         /\ u.at \in {"load", "settle", "swap"} => u.old \in AllConfigs
         /\ u.at \in {"settle", "swap"} => u.cur \in States
         /\ u.at = "swap" => u.next \in States
  BY DEF Updates, Idle

LEMMA ClockIsBelowModulus ==
  ASSUME BucketTypeOK
  PROVE  clock \in Nat /\ clock < Modulus /\ Modulus \in Nat
  BY BucketAssumption DEF BucketTypeOK

(* ProducedIs and its bounds for a time that is given a name. *)
LEMMA ProducedFor ==
  ASSUME TimeInv, NEW ts \in Nat, ts <= clock, NEW rate \in Nat
  PROVE  \E e, p \in Nat :
           /\ e = clock - ts /\ p = Produced(ts, rate)
           /\ p * 1000 <= e * rate /\ e * rate < p * 1000 + 1000
<1>1. clock \in Nat /\ clock < Modulus /\ Modulus \in Nat
  BY ClockIsBelowModulus DEF TimeInv
<1>2. PICK e \in Nat : e = clock - ts
  BY <1>1
<1>3. e * rate \in Nat
  BY Products
<1>4. Elapsed(ts) = e
  BY <1>1, <1>2, ElapsedIsThePast
<1>5. PICK p \in Nat : p = (e * rate) \div 1000
  BY <1>3, Division
<1>6. p * 1000 <= e * rate /\ e * rate < p * 1000 + 1000
  BY <1>3, <1>5, Division
<1>7. p = Produced(ts, rate)
  BY <1>4, <1>5 DEF Produced
<1>8. QED
  BY <1>2, <1>6, <1>7

(* What a requester is about to store. *)
LEMMA SettlesInTime ==
  ASSUME TimeInv, NEW r \in Requesters, call[r].at = "settle"
  PROVE  \E p, q \in Nat :
           /\ Settlement(call[r].cur, call[r].cfg, p, q)
           /\ Settled(call[r].cur, call[r].cfg) \in States
<1>1. call[r].cur \in States /\ call[r].cfg \in Config /\ call[r].cur.ts <= clock
  BY CallFields, ConfigsAreTyped DEF TimeInv, BucketTypeOK, NoTimestampAhead
<1>2. PICK p, q \in Nat : Settlement(call[r].cur, call[r].cfg, p, q)
  BY <1>1, ClockIsBelowModulus, SettledIs DEF TimeInv
<1>3. Settled(call[r].cur, call[r].cfg) \in States
  BY <1>1, <1>2 DEF Settlement, States, Config, Least
<1>4. QED
  BY <1>2, <1>3

(* What a step of one requester does to its call. *)
LEMMA CallStepIsTyped ==
  ASSUME TimeInv, NEW r \in Requesters, Request(r)
  PROVE  /\ call' = [call EXCEPT ![r] = call'[r]]
         /\ call'[r] \in Calls
         /\ call'[r].at \in {"settle", "swap"} =>
              call'[r].cur = state \/ (call[r].at = "settle" /\ call'[r].cur = call[r].cur)
         /\ call'[r].at = "swap" => call'[r].next.ts <= clock
         /\ UNCHANGED <<clock, config, updating, version>>
<1> USE DEF TimeInv, BucketTypeOK
<1>1. call[r] \in Calls
  OBVIOUS
<1>2. ASSUME NEW need \in Needs, LoadConfig(r, need)
      PROVE  call'[r] \in Calls /\ call'[r].at = "load"
  BY <1>2 DEF LoadConfig, Calls
<1>3. CASE LoadState(r) \/ SwapFails(r)
  <2>1. /\ call[r].need \in Needs /\ call[r].cfg \in AllConfigs /\ call[r].version \in Nat
        /\ call'[r] = Iterate(r, state)
    BY <1>1, <1>3, CallFields DEF LoadState, SwapFails
  <2>2. call'[r] \in Calls /\ call'[r].at = "settle" /\ call'[r].cur = state
    BY <2>1 DEF Iterate, Calls
  <2>3. QED
    BY <1>3, <2>2 DEF LoadState, SwapFails
<1>4. CASE Refuse(r) \/ Swap(r)
  <2>1. call'[r] = Idle
    BY <1>4 DEF Refuse, Swap
  <2>2. QED
    BY <1>4, <2>1 DEF Refuse, Swap, Calls, Idle
<1>5. CASE Settle(r)
  <2>1. PICK p, q \in Nat :
          /\ Settlement(call[r].cur, call[r].cfg, p, q)
          /\ Settled(call[r].cur, call[r].cfg) \in States
    BY <1>5, SettlesInTime DEF Settle
  <2>2. PICK settled \in States : settled = Settled(call[r].cur, call[r].cfg)
    BY <2>1
  <2>3. /\ call[r].need \in Needs /\ call[r].cfg \in AllConfigs /\ call[r].version \in Nat
        /\ call[r].cur \in States /\ call[r].need \in Nat
    BY <1>1, <1>5, CallFields DEF Settle
  <2>4. settled.tokens >= call[r].need /\ settled.ts <= clock
    <3>1. settled.ts = call[r].cur.ts + q
      BY <2>1, <2>2 DEF Settlement
    <3>2. QED
      BY <1>5, <2>1, <2>2, <3>1 DEF Settle, Settlement
  <2>5. PICK next \in States : /\ next = [settled EXCEPT !.tokens = @ - call[r].need]
                               /\ next.ts <= clock
    <3>1. settled.tokens - call[r].need \in Nat
      BY <2>2, <2>3, <2>4 DEF States
    <3>2. /\ [settled EXCEPT !.tokens = @ - call[r].need] \in States
          /\ [settled EXCEPT !.tokens = @ - call[r].need].ts = settled.ts
      BY <2>2, <3>1 DEF States
    <3>3. QED
      BY <2>4, <3>2
  <2>6. call'[r] = [at |-> "swap", need |-> call[r].need, cfg |-> call[r].cfg,
                    version |-> call[r].version, cur |-> call[r].cur,
                    clips |-> Clips(call[r].cur, call[r].cfg), next |-> next]
    BY <1>5, <2>2, <2>5 DEF Settle
  <2>7. Clips(call[r].cur, call[r].cfg) \in BOOLEAN
    BY DEF Clips
  <2>8. call'[r] \in Calls
    BY <2>3, <2>5, <2>6, <2>7 DEF Calls
  <2>9. QED
    BY <1>5, <2>5, <2>6, <2>8 DEF Settle
<1>6. /\ call' = [call EXCEPT ![r] = call'[r]]
      /\ UNCHANGED <<clock, config, updating, version>>
  BY DEF Request, LoadConfig, LoadState, Refuse, Settle, Swap, SwapFails
<1>7. QED
  BY <1>2, <1>3, <1>4, <1>5, <1>6 DEF Request

LEMMA UpdateStepIsTyped ==
  ASSUME TimeInv, Update
  PROVE  /\ updating' \in Updates
         /\ updating'.at \in {"settle", "swap"} =>
              updating'.cur = state \/ (updating.at = "settle" /\ updating'.cur = updating.cur)
         /\ updating'.at = "swap" => updating'.next.ts <= clock
         /\ config' \in AllConfigs /\ version' \in Nat
         /\ UNCHANGED <<clock, call, granted>>
<1>0. \A ts, rate \in Nat : ts <= clock => Produced(ts, rate) \in Nat
  BY ProducedFor
<1> USE DEF TimeInv, BucketTypeOK
<1>1. ASSUME NEW new \in Configs, UpdateBegins(new)
      PROVE  updating' \in Updates /\ updating'.at = "load" /\ UNCHANGED <<config, version>>
  BY <1>1 DEF UpdateBegins, Updates, AllConfigs
<1>2. CASE UpdateLoads \/ UpdateSwapFails
  <2>1. updating.new \in AllConfigs /\ updating.old \in AllConfigs
    BY <1>2, UpdateFields DEF UpdateLoads, UpdateSwapFails
  <2>2. updating' = [at |-> "settle", new |-> updating.new, old |-> updating.old, cur |-> state]
    BY <1>2 DEF UpdateLoads, UpdateSwapFails
  <2>3. updating' \in Updates /\ updating'.at = "settle" /\ updating'.cur = state
    BY <2>1, <2>2 DEF Updates
  <2>4. QED
    BY <1>2, <2>3 DEF UpdateLoads, UpdateSwapFails
<1>3. CASE UpdateSettles
  <2>1. updating.new \in AllConfigs /\ updating.old \in AllConfigs /\ updating.cur \in States
    BY <1>3, UpdateFields DEF UpdateSettles
  <2>2. updating.cur.ts <= clock
    BY <1>3 DEF UpdateSettles, NoTimestampAhead
  <2>3. Produced(updating.cur.ts, updating.old.rate) \in Nat
    <3>1. updating.cur.ts \in Nat /\ updating.old.rate \in Nat
      BY <2>1, ConfigsAreTyped DEF States, Config
    <3>2. QED
      BY <1>0, <2>2, <3>1
  <2>4. PICK next \in States :
          next = [ts |-> clock,
                  tokens |-> Least(Available(updating.cur, updating.old), updating.new.capacity)]
    <3>1. /\ updating.new.capacity \in Nat /\ updating.old.capacity \in Nat
          /\ updating.cur.tokens \in Nat /\ clock \in Nat
      BY <2>1, ConfigsAreTyped, ClockIsBelowModulus DEF Config, States
    <3>2. Available(updating.cur, updating.old) \in Nat
      BY <2>3, <3>1 DEF Available, Least
    <3>3. Least(Available(updating.cur, updating.old), updating.new.capacity) \in Nat
      BY <3>1, <3>2 DEF Least
    <3>4. QED
      BY <3>1, <3>3 DEF States
  <2>5. updating' = [at |-> "swap", new |-> updating.new, old |-> updating.old,
                     cur |-> updating.cur, next |-> next]
    BY <1>3, <2>4 DEF UpdateSettles
  <2>6. updating' \in Updates /\ updating'.next.ts <= clock /\ updating'.cur = updating.cur
    BY <2>1, <2>4, <2>5 DEF Updates
  <2>7. QED
    BY <1>3, <2>5, <2>6 DEF UpdateSettles
<1>4. CASE UpdateSwaps
  <2>1. updating.new \in AllConfigs
    BY <1>4, UpdateFields DEF UpdateSwaps
  <2>2. updating' \in Updates /\ updating'.at = "store"
    BY <1>4, <2>1 DEF UpdateSwaps, Updates
  <2>3. QED
    BY <1>4, <2>2 DEF UpdateSwaps
<1>5. CASE UpdateStores
  <2>1. updating.new \in AllConfigs
    BY <1>5, UpdateFields DEF UpdateStores
  <2>2. updating' \in Updates /\ updating'.at = "idle"
    BY <1>5 DEF UpdateStores, Updates, Idle
  <2>3. QED
    BY <1>5, <2>1, <2>2 DEF UpdateStores
<1>6. QED
  BY <1>1, <1>2, <1>3, <1>4, <1>5 DEF Update, UpdateBegins

(* What becomes of the state: it is kept, or replaced by a compare-and-    *)
(* swap.                                                                   *)
LEMMA StateStep ==
  ASSUME TimeInv, [BucketNext]_bucketVars
  PROVE  \/ UNCHANGED <<state, granted, clipped>>
         \/ \E r \in Requesters : Swap(r)
         \/ UpdateSwaps
  BY DEF BucketNext, bucketVars, Tick, Update, UpdateBegins, UpdateLoads, UpdateSettles,
         UpdateSwapFails, UpdateStores, Request, LoadConfig, LoadState, Refuse, Settle, SwapFails

LEMMA TimeStep ==
  ASSUME TimeInv, [BucketNext]_bucketVars
  PROVE  TimeInv'
<1> USE DEF TimeInv, BucketTypeOK
<1>1. state' \in States /\ state'.ts <= clock /\ granted' \in Nat /\ clipped' \in BOOLEAN
  <2>1. CASE UNCHANGED <<state, granted, clipped>>
    <3>1. state' = state /\ granted' = granted /\ clipped' = clipped
      BY <2>1
    <3>2. QED
      BY <3>1 DEF NoTimestampAhead
  <2>2. ASSUME NEW r \in Requesters, Swap(r)
        PROVE  state' \in States /\ state'.ts <= clock /\ granted' \in Nat /\ clipped' \in BOOLEAN
    <3>1. /\ call[r].next \in States /\ call[r].need \in Nat /\ call[r].clips \in BOOLEAN
          /\ call[r].next.ts <= clock
      BY <2>2, CallFields DEF Swap, NextNotAhead
    <3>2. clipped' \in BOOLEAN
      BY <2>2 DEF Swap
    <3>3. QED
      BY <2>2, <3>1, <3>2 DEF Swap
  <2>3. CASE UpdateSwaps
    BY <2>3, UpdateFields DEF UpdateSwaps, NextNotAhead
  <2>4. QED
    BY <2>1, <2>2, <2>3, StateStep
<1>2. clock \in Nat /\ \A r \in Requesters : call[r] \in Calls
  BY ClockIsBelowModulus
<1>3. CASE Tick
  <2>1. clock' \in 0..MaxTime /\ clock' = clock + 1
    BY <1>2, <1>3, BucketAssumption DEF Tick
  <2>2. UNCHANGED <<config, state, call, updating, granted, clipped, version>>
    BY <1>3 DEF Tick
  <2>3. \A s \in States : s.ts <= clock => s.ts <= clock'
    BY <1>2, <2>1 DEF States
  <2>4. (NoTimestampAhead /\ NextNotAhead)'
    BY <1>2, <2>2, <2>3, CallFields, UpdateFields DEF NoTimestampAhead, NextNotAhead
  <2>5. QED
    BY <2>1, <2>2, <2>4
<1>4. ASSUME NEW r \in Requesters, Request(r)
      PROVE  TimeInv'
  <2>1. /\ call' = [call EXCEPT ![r] = call'[r]]
        /\ call'[r] \in Calls
        /\ call'[r].at \in {"settle", "swap"} =>
             call'[r].cur = state \/ (call[r].at = "settle" /\ call'[r].cur = call[r].cur)
        /\ call'[r].at = "swap" => call'[r].next.ts <= clock
        /\ UNCHANGED <<clock, config, updating, version>>
    BY <1>4, CallStepIsTyped
  <2>2. \A x \in Requesters : x # r => call'[x] = call[x]
    BY <2>1
  <2>3. call' \in [Requesters -> Calls]
    BY <2>1
  <2>4. (NoTimestampAhead /\ NextNotAhead)'
    BY <1>1, <2>1, <2>2 DEF NoTimestampAhead, NextNotAhead
  <2>5. QED
    BY <1>1, <2>1, <2>3, <2>4
<1>5. CASE Update
  <2>1. /\ updating' \in Updates
        /\ updating'.at \in {"settle", "swap"} =>
             updating'.cur = state \/ (updating.at = "settle" /\ updating'.cur = updating.cur)
        /\ updating'.at = "swap" => updating'.next.ts <= clock
        /\ config' \in AllConfigs /\ version' \in Nat
        /\ UNCHANGED <<clock, call, granted>>
    BY <1>5, UpdateStepIsTyped
  <2>2. (NoTimestampAhead /\ NextNotAhead)'
    BY <1>1, <2>1 DEF NoTimestampAhead, NextNotAhead
  <2>3. QED
    BY <1>1, <2>1, <2>2
<1>6. CASE UNCHANGED bucketVars
  BY <1>6 DEF bucketVars, NoTimestampAhead, NextNotAhead
<1>7. QED
  BY <1>3, <1>4, <1>5, <1>6 DEF BucketNext

LEMMA TimeInvHolds == BucketSpec => []TimeInv
<1>1. BucketInit => TimeInv
  <2> SUFFICES ASSUME BucketInit PROVE TimeInv
    OBVIOUS
  <2>1. Start \in AllConfigs /\ Start.capacity \in Nat /\ 0 \in 0..MaxTime
    BY BucketAssumption DEF AllConfigs, Config
  <2>2. state \in States /\ state.ts = 0 /\ clock = 0
    BY <2>1 DEF BucketInit, States
  <2>3. call \in [Requesters -> Calls] /\ \A r \in Requesters : call[r].at = "idle"
    BY DEF BucketInit, Calls, Idle
  <2>4. updating \in Updates /\ updating.at = "idle"
    BY DEF BucketInit, Updates, Idle
  <2>5. BucketTypeOK
    BY <2>1, <2>2, <2>3, <2>4 DEF BucketInit, BucketTypeOK
  <2>6. NoTimestampAhead /\ NextNotAhead
    BY <2>2, <2>3, <2>4 DEF NoTimestampAhead, NextNotAhead
  <2>7. QED
    BY <2>5, <2>6 DEF TimeInv
<1>2. TimeInv /\ [BucketNext]_bucketVars => TimeInv'
  BY TimeStep
<1>3. QED
  BY <1>1, <1>2, PTL DEF BucketSpec

(* Time is never settled before it has passed, whatever the rates          *)
(* (TokenBucket.cc:28-35, 76-79).                                          *)
THEOREM TimestampsAreNotAhead == BucketSpec => []NoTimestampAhead
<1>1. TimeInv => NoTimestampAhead
  BY DEF TimeInv
<1>2. QED
  BY <1>1, TimeInvHolds, PTL

-----------------------------------------------------------------------------
(* The limit.  Whatever is stored, its tokens and those granted with it    *)
(* are paid for by the time its timestamp advances, at R tokens a second;  *)
(* so the bucket never holds more than R tokens a second up to its own     *)
(* timestamp, which is not ahead of the clock.                             *)

(* R is a rate that no settlement exceeds: at least every rate configured, *)
(* and twice those of which a token's time is rounded down.                *)
Paces(R) ==
  \A c \in AllConfigs :
    c.rate <= R /\ (Exact(c.rate) \/ (c.rate <= 1000 /\ 2 * c.rate <= R))

(* The time from one state to the other pays for its tokens and the spent. *)
Pays(from, to, spent, R) ==
  1000 * (to.tokens + spent) + R * from.ts <= 1000 * from.tokens + R * to.ts

PaidFor(R) ==
  /\ 1000 * (granted + state.tokens) <= 1000 * Start.capacity + R * state.ts
  /\ \A r \in Requesters :
       call[r].at = "swap" => Pays(call[r].cur, call[r].next, call[r].need, R)
  /\ updating.at = "swap" => Pays(updating.cur, updating.next, 0, R)

LEMMA TimeOfTokens ==
  ASSUME NEW R \in Nat, NEW rate \in Nat, NEW p \in Nat, NEW q \in Nat,
         \/ rate <= R /\ p * 1000 = q * rate
         \/ 2 * rate <= R /\ p * 1000 <= q * (2 * rate)
  PROVE  p * 1000 <= R * q
<1>1. rate <= R => q * rate <= R * q
  BY Products
<1>2. 2 * rate \in Nat /\ (2 * rate <= R => q * (2 * rate) <= R * q)
  BY Products
<1>3. q * rate \in Nat /\ R * q \in Nat /\ p * 1000 \in Nat /\ q * (2 * rate) \in Nat
  BY <1>2, Products
<1>4. QED
  BY <1>1, <1>2, <1>3

(* What Settle is about to store is paid for. *)
LEMMA SettlePays ==
  ASSUME NEW R \in Nat, Paces(R), TimeInv, NEW r \in Requesters, Settle(r)
  PROVE  Pays(call'[r].cur, call'[r].next, call'[r].need, R)
<1>1. /\ call[r] \in Calls /\ call[r].at = "settle"
      /\ Settled(call[r].cur, call[r].cfg).tokens >= call[r].need
  BY DEF TimeInv, BucketTypeOK, Settle
<1>2. PICK cur \in States, cfg \in AllConfigs, need \in Nat :
        cur = call[r].cur /\ cfg = call[r].cfg /\ need = call[r].need
  BY <1>1, CallFields
<1>3. PICK p, q \in Nat : Settlement(cur, cfg, p, q)
  BY <1>1, <1>2, SettlesInTime
<1>4. PICK tokens \in Nat : /\ Settled(cur, cfg) = [ts |-> cur.ts + q, tokens |-> tokens]
                            /\ tokens <= cur.tokens + p /\ tokens >= need
  <2>1. cur.tokens \in Nat /\ cfg.capacity \in Nat
    BY ConfigsAreTyped DEF States, Config
  <2>2. PICK t : t = IF p = 0 THEN cur.tokens ELSE Least(cur.tokens + p, cfg.capacity)
    OBVIOUS
  <2>3. t \in Nat /\ t <= cur.tokens + p
    BY <2>1, <2>2 DEF Least
  <2>4. Settled(cur, cfg) = [ts |-> cur.ts + q, tokens |-> t]
    BY <1>3, <2>2 DEF Settlement
  <2>5. QED
    BY <1>1, <1>2, <2>3, <2>4
<1>5. /\ call'[r].cur = cur /\ call'[r].need = need
      /\ call'[r].next.ts = cur.ts + q /\ call'[r].next.tokens = tokens - need
  <2>1. call'[r].next = [Settled(cur, cfg) EXCEPT !.tokens = @ - need]
        /\ call'[r].cur = cur /\ call'[r].need = need
    BY <1>2 DEF Settle, TimeInv, BucketTypeOK
  <2>2. QED
    BY <1>4, <2>1
<1>6. p * 1000 <= R * q
  <2>1. cfg.rate \in Nat
    BY ConfigsAreTyped DEF Config
  <2>2. \/ cfg.rate <= R /\ p * 1000 = q * cfg.rate
        \/ 2 * cfg.rate <= R /\ p * 1000 <= q * (2 * cfg.rate)
    BY <1>3 DEF Paces, Settlement
  <2>3. QED
    BY <2>1, <2>2, TimeOfTokens
<1>7. /\ cur.ts \in Nat /\ cur.tokens \in Nat /\ R * cur.ts \in Nat /\ R * q \in Nat
      /\ R * (cur.ts + q) = R * cur.ts + R * q
  BY DEF States
<1>8. QED
  BY <1>4, <1>5, <1>6, <1>7 DEF Pays

(* So is what update is about to store, whose timestamp is the present. *)
LEMMA UpdatePays ==
  ASSUME NEW R \in Nat, Paces(R), TimeInv, UpdateSettles
  PROVE  Pays(updating'.cur, updating'.next, 0, R)
<1>1. PICK cur \in States, old \in AllConfigs, new \in AllConfigs :
        cur = updating.cur /\ old = updating.old /\ new = updating.new
  BY UpdateFields DEF UpdateSettles, TimeInv, BucketTypeOK
<1>2. cur.ts \in Nat /\ cur.tokens \in Nat /\ old.rate \in Nat /\ old.capacity \in Nat
      /\ new.capacity \in Nat /\ clock \in Nat /\ cur.ts <= clock
  BY <1>1, ConfigsAreTyped, ClockIsBelowModulus
     DEF States, Config, TimeInv, NoTimestampAhead, UpdateSettles
<1>3. PICK e \in Nat : e = clock - cur.ts
  BY <1>2
<1>4. PICK p \in Nat : p = Produced(cur.ts, old.rate) /\ p * 1000 <= e * old.rate
  <2>1. clock \in Nat /\ clock < Modulus /\ Modulus \in Nat
    BY ClockIsBelowModulus DEF TimeInv
  <2>2. PICK ts \in Nat, rate \in Nat : ts = cur.ts /\ rate = old.rate
    BY <1>2
  <2>3. Produced(ts, rate) \in Nat /\ Produced(ts, rate) * 1000 <= (clock - ts) * rate
    <3>1. ts <= clock
      BY <1>2, <2>2
    <3>2. QED
      BY <2>1, <3>1, ProducedIs
  <2>4. QED
    BY <1>3, <2>2, <2>3
<1>5. p * 1000 <= R * e
  <2>1. old.rate <= R
    BY DEF Paces
  <2>2. e * old.rate <= R * e /\ e * old.rate \in Nat /\ R * e \in Nat
    BY <1>2, <2>1, Products
  <2>3. QED
    BY <1>4, <2>2
<1>6. PICK tokens \in Nat :
        /\ tokens = Least(Available(cur, old), new.capacity) /\ tokens <= cur.tokens + p
  BY <1>2, <1>4 DEF Available, Least
<1>7. updating'.cur = cur /\ updating'.next = [ts |-> clock, tokens |-> tokens]
  BY <1>1, <1>6 DEF UpdateSettles
<1>8. /\ R * cur.ts \in Nat /\ R * clock = R * cur.ts + R * e
  <2>1. clock = cur.ts + e
    BY <1>2, <1>3
  <2>2. QED
    BY <1>2, <2>1
<1>9. QED
  BY <1>2, <1>5, <1>6, <1>7, <1>8 DEF Pays

(* A compare-and-swap that succeeds puts what it stores in the place of    *)
(* what it was computed from.                                              *)
LEMMA PaidStateStep ==
  ASSUME NEW R \in Nat, TimeInv, TimeInv', [BucketNext]_bucketVars, PaidFor(R)
  PROVE  1000 * (granted' + state'.tokens) <= 1000 * Start.capacity + R * state'.ts
<1>1. CASE UNCHANGED <<state, granted, clipped>>
  BY <1>1 DEF PaidFor
<1>2. PICK s \in Nat : s = Start.capacity
  BY BucketAssumption DEF Config
<1>3. /\ granted \in Nat
      /\ state.tokens \in Nat /\ R * state.ts \in Nat
      /\ state'.tokens \in Nat /\ R * state'.ts \in Nat
  BY BucketAssumption DEF Config, TimeInv, BucketTypeOK, States
<1>4. 1000 * (granted + state.tokens) <= 1000 * s + R * state.ts
  BY <1>2 DEF PaidFor
<1>5. ASSUME NEW r \in Requesters, Swap(r)
      PROVE  1000 * (granted' + state'.tokens) <= 1000 * s + R * state'.ts
  <2>1. PICK need \in Nat : need = call[r].need
    BY <1>5, CallFields DEF Swap, TimeInv, BucketTypeOK
  <2>2. Pays(state, state', need, R) /\ granted' = granted + need
    BY <1>5, <2>1 DEF Swap, PaidFor
  <2>3. 1000 * (state'.tokens + need) + R * state.ts <= 1000 * state.tokens + R * state'.ts
    BY <2>2 DEF Pays
  <2>4. QED
    BY <1>2, <1>3, <1>4, <2>2, <2>3
<1>6. CASE UpdateSwaps
  <2>1. Pays(state, state', 0, R) /\ granted' = granted
    BY <1>6 DEF UpdateSwaps, PaidFor
  <2>2. 1000 * (state'.tokens + 0) + R * state.ts <= 1000 * state.tokens + R * state'.ts
    BY <2>1 DEF Pays
  <2>3. QED
    BY <1>2, <1>3, <1>4, <2>1, <2>2
<1>7. QED
  BY <1>1, <1>2, <1>5, <1>6, StateStep

LEMMA PaidForStep ==
  ASSUME NEW R \in Nat, Paces(R), TimeInv, TimeInv', [BucketNext]_bucketVars, PaidFor(R)
  PROVE  PaidFor(R)'
<1>1. 1000 * (granted' + state'.tokens) <= 1000 * Start.capacity + R * state'.ts
  BY PaidStateStep
<1>2. ASSUME NEW r \in Requesters, call'[r].at = "swap"
      PROVE  Pays(call'[r].cur, call'[r].next, call'[r].need, R)
  <2>1. call'[r] = call[r] \/ Settle(r)
    <3>1. CASE Tick \/ Update \/ UNCHANGED bucketVars
      BY <3>1, UpdateStepIsTyped DEF Tick, bucketVars
    <3>2. ASSUME NEW x \in Requesters, Request(x)
          PROVE  call'[r] = call[r] \/ Settle(r)
      <4>1. x # r => call'[r] = call[r]
        <5>1. call' = [call EXCEPT ![x] = call'[x]] /\ call \in [Requesters -> Calls]
          BY <3>2, CallStepIsTyped DEF TimeInv, BucketTypeOK
        <5>2. QED
          BY <5>1
      <4>2. CASE x = r
        BY <1>2, <3>2, <4>2 DEF Request, LoadConfig, LoadState, Refuse, Swap, SwapFails, Iterate,
                                Idle, TimeInv, BucketTypeOK
      <4>3. QED
        BY <4>1, <4>2
    <3>3. QED
      BY <3>1, <3>2 DEF BucketNext
  <2>2. QED
    BY <1>2, <2>1, SettlePays DEF PaidFor
<1>3. ASSUME updating'.at = "swap"
      PROVE  Pays(updating'.cur, updating'.next, 0, R)
  <2>1. updating' = updating \/ UpdateSettles
    <3>1. CASE Tick \/ UNCHANGED bucketVars \/ \E r \in Requesters : Request(r)
      BY <3>1, CallStepIsTyped DEF Tick, bucketVars
    <3>2. CASE Update
      BY <1>3, <3>2 DEF Update, UpdateBegins, UpdateLoads, UpdateSwaps, UpdateSwapFails,
                        UpdateStores, Idle
    <3>3. QED
      BY <3>1, <3>2 DEF BucketNext
  <2>2. QED
    BY <1>3, <2>1, UpdatePays DEF PaidFor
<1>4. QED
  BY <1>1, <1>2, <1>3 DEF PaidFor, Pays

LEMMA PaidForInit ==
  ASSUME NEW R \in Nat, BucketInit
  PROVE  PaidFor(R)
<1>1. Start.capacity \in Nat /\ R * 0 = 0
  BY BucketAssumption DEF Config
<1>2. granted = 0 /\ state.tokens = Start.capacity /\ state.ts = 0
  BY DEF BucketInit
<1>3. updating.at = "idle" /\ \A r \in Requesters : call[r].at = "idle"
  BY DEF BucketInit, Idle
<1>4. QED
  BY <1>1, <1>2, <1>3 DEF PaidFor

(* The time up to the state's timestamp is at most the time up to now.     *)
LEMMA PaidForLimits ==
  ASSUME NEW R \in Nat, TimeInv, PaidFor(R)
  PROVE  granted * 1000 <= Start.capacity * 1000 + R * clock
<1>1. /\ granted \in Nat /\ state.tokens \in Nat /\ Start.capacity \in Nat
      /\ state.ts \in Nat /\ clock \in Nat /\ state.ts <= clock
  BY BucketAssumption, ClockIsBelowModulus
     DEF Config, TimeInv, BucketTypeOK, States, NoTimestampAhead
<1>2. R * state.ts <= R * clock /\ R * state.ts \in Nat /\ R * clock \in Nat
  BY <1>1, Products
<1>3. 1000 * (granted + state.tokens) <= 1000 * Start.capacity + R * state.ts
  BY DEF PaidFor
<1>4. QED
  BY <1>1, <1>2, <1>3

(* However the requests, the settlements and the updates interleave, no    *)
(* more is handed out than the initial tokens and what the highest rate    *)
(* produces in the time that has passed, if every rate is exact, as the    *)
(* 5000 tokens a second of the gateway's im_limiter_ are                   *)
(* (TokenBucket.cc:26-56, LB_Server.h:201).                                *)
THEOREM ExactRatesLimit ==
  ASSUME \A rate \in Rates : Exact(rate),
         NEW highest \in Rates, \A rate \in Rates : rate <= highest
  PROVE  BucketSpec => []RateLimited
<1>1. highest \in Nat /\ Paces(highest)
  BY ConfigsAreTyped DEF Rates, AllConfigs, Config, Paces
<1>2. BucketInit => PaidFor(highest)
  BY <1>1, PaidForInit
<1>3. TimeInv /\ TimeInv' /\ [BucketNext]_bucketVars /\ PaidFor(highest) => PaidFor(highest)'
  BY <1>1, PaidForStep
<1>4. TimeInv /\ PaidFor(highest) => RateLimited
  BY <1>1, PaidForLimits DEF RateLimited, TimeInv
<1>5. QED
  BY <1>2, <1>3, <1>4, TimeInvHolds, PTL DEF BucketSpec

(* The im_limiter_ of the gateway, 10000 tokens and 5000 a second, as long *)
(* as nobody reconfigures it (LB_Server.h:201).                            *)
COROLLARY ImLimiterLimits ==
  ASSUME Start = [capacity |-> 10000, rate |-> 5000], Configs = {}
  PROVE  BucketSpec => []RateLimited
<1>1. Rates = {5000} /\ 5000 \in Nat
  BY DEF Rates
<1>2. Exact(5000)
  BY 5000 = 1000 * 5, DivisorsAreExact
<1>3. QED
  BY <1>1, <1>2, ExactRatesLimit

(* Whatever whole rate up to 1000 a second: the time of a token is rounded *)
(* down to milliseconds, and never below half of it, so that no more than  *)
(* twice the highest rate is handed out (TokenBucket.cc:34-42).            *)
THEOREM SlowRatesAtMostDouble ==
  ASSUME NEW highest \in 0..1000, \A rate \in Rates : rate <= highest
  PROVE  BucketSpec => [](granted * 1000 <= Start.capacity * 1000 + (2 * highest) * clock)
<1>1. PICK R \in Nat : R = 2 * highest
  OBVIOUS
<1>2. Paces(R)
  <2> SUFFICES ASSUME NEW c \in AllConfigs
               PROVE  c.rate <= R /\ c.rate <= 1000 /\ 2 * c.rate <= R
    BY DEF Paces
  <2>1. c.rate \in Nat
    BY ConfigsAreTyped DEF Config
  <2>2. c.rate <= highest
    BY DEF Rates, AllConfigs
  <2>3. QED
    BY <1>1, <2>1, <2>2
<1>3. BucketInit => PaidFor(R)
  BY PaidForInit
<1>4. TimeInv /\ TimeInv' /\ [BucketNext]_bucketVars /\ PaidFor(R) => PaidFor(R)'
  BY <1>2, PaidForStep
<1>5. TimeInv /\ PaidFor(R)
        => granted * 1000 <= Start.capacity * 1000 + (2 * highest) * clock
  BY <1>1, PaidForLimits
<1>6. QED
  BY <1>3, <1>4, <1>5, TimeInvHolds, PTL DEF BucketSpec

-----------------------------------------------------------------------------
(* Nothing is lost.  While the bucket is neither full nor reconfigured,    *)
(* every call works with the constructor's configuration, and what it is   *)
(* about to store costs exactly the time its timestamp advances.           *)

Costs(from, to, spent, rate) ==
  1000 * (to.tokens + spent) + rate * from.ts = 1000 * from.tokens + rate * to.ts

Accounted ==
  ~clipped =>
    /\ config = Start /\ updating.at # "store"
    /\ 1000 * (granted + state.tokens) = 1000 * Start.capacity + Start.rate * state.ts
    /\ \A r \in Requesters :
         /\ call[r].at # "idle" => call[r].cfg = Start
         /\ call[r].at = "swap" /\ ~call[r].clips =>
              Costs(call[r].cur, call[r].next, call[r].need, Start.rate)

LEMMA SettleCosts ==
  ASSUME TimeInv, NEW r \in Requesters, Settle(r), call[r].cfg = Start, Exact(Start.rate),
         ~call'[r].clips
  PROVE  Costs(call'[r].cur, call'[r].next, call'[r].need, Start.rate)
<1>1. /\ call[r] \in Calls /\ call[r].at = "settle"
      /\ Settled(call[r].cur, call[r].cfg).tokens >= call[r].need
  BY DEF TimeInv, BucketTypeOK, Settle
<1>2. PICK cur \in States, need \in Nat : cur = call[r].cur /\ need = call[r].need
  BY <1>1, CallFields
<1>3. PICK p, q \in Nat : Settlement(cur, Start, p, q)
  BY <1>1, <1>2, SettlesInTime
<1>4. PICK R \in Nat, cap \in Nat : R = Start.rate /\ cap = Start.capacity
  BY BucketAssumption DEF Config
<1>5. cur.ts \in Nat /\ cur.tokens \in Nat /\ cur.tokens + p <= cap
  <2>1. ~Clips(cur, Start)
    BY <1>2 DEF Settle, TimeInv, BucketTypeOK
  <2>2. cur.ts \in Nat /\ cur.tokens \in Nat
    BY DEF States
  <2>3. QED
    BY <1>3, <1>4, <2>1, <2>2 DEF Clips, Settlement
<1>6. Settled(cur, Start) = [ts |-> cur.ts + q, tokens |-> cur.tokens + p]
  <2>1. (IF p = 0 THEN cur.tokens ELSE Least(cur.tokens + p, cap)) = cur.tokens + p
    BY <1>5 DEF Least
  <2>2. QED
    BY <1>3, <1>4, <2>1 DEF Settlement
<1>7. /\ call'[r].cur = cur /\ call'[r].need = need
      /\ call'[r].next.ts = cur.ts + q /\ call'[r].next.tokens = (cur.tokens + p) - need
  <2>1. call'[r].next = [Settled(cur, Start) EXCEPT !.tokens = @ - need]
        /\ call'[r].cur = cur /\ call'[r].need = need
    BY <1>2 DEF Settle, TimeInv, BucketTypeOK
  <2>2. QED
    BY <1>6, <2>1
<1>8. p * 1000 = R * q
  BY <1>3, <1>4, Products DEF Settlement
<1>9. R * cur.ts \in Nat /\ R * q \in Nat /\ R * (cur.ts + q) = R * cur.ts + R * q
  BY <1>5
<1>10. Costs(call'[r].cur, call'[r].next, call'[r].need, R)
  <2>1. 1000 * (((cur.tokens + p) - need) + need) = 1000 * cur.tokens + p * 1000
    BY <1>5
  <2>2. PICK k, h \in Nat : k = R * cur.ts /\ h = R * q
    BY <1>9
  <2>3. 1000 * (((cur.tokens + p) - need) + need) + k = 1000 * cur.tokens + (k + h)
    <3>1. p * 1000 = h
      BY <1>8, <2>2
    <3> QED BY <1>5, <2>1, <3>1
  <2>4. R * (cur.ts + q) = k + h
    BY <1>9, <2>2
  <2> QED BY <1>4, <1>7, <2>2, <2>3, <2>4 DEF Costs
<1>11. QED
  BY <1>4, <1>10

LEMMA AccountedState ==
  ASSUME TimeInv, TimeInv', [BucketNext]_bucketVars, Accounted, ~clipped'
  PROVE  /\ ~clipped
         /\ 1000 * (granted' + state'.tokens) = 1000 * Start.capacity + Start.rate * state'.ts
<1>1. clipped \in BOOLEAN /\ granted \in Nat
  BY DEF TimeInv, BucketTypeOK
<1>2. CASE UNCHANGED <<state, granted, clipped>>
  BY <1>2 DEF Accounted
<1>3. ASSUME NEW r \in Requesters, Swap(r)
      PROVE  /\ ~clipped
             /\ 1000 * (granted' + state'.tokens)
                  = 1000 * Start.capacity + Start.rate * state'.ts
  <2>1. ~clipped /\ ~call[r].clips
    <3>1. call[r].clips \in BOOLEAN
      BY <1>3, CallFields DEF Swap, TimeInv, BucketTypeOK
    <3>2. clipped' = (clipped \/ call[r].clips)
      BY <1>3 DEF Swap
    <3>3. QED
      BY <1>1, <3>1, <3>2
  <2>2. PICK need \in Nat : need = call[r].need
    BY <1>3, CallFields DEF Swap, TimeInv, BucketTypeOK
  <2>3. Costs(state, state', need, Start.rate) /\ granted' = granted + need
    BY <1>3, <2>1, <2>2 DEF Swap, Accounted
  <2>4. PICK R \in Nat, s \in Nat : R = Start.rate /\ s = Start.capacity
    BY BucketAssumption DEF Config
  <2>5. /\ state.tokens \in Nat /\ R * state.ts \in Nat
        /\ state'.tokens \in Nat /\ R * state'.ts \in Nat
    BY DEF TimeInv, BucketTypeOK, States
  <2>6. 1000 * (state'.tokens + need) + R * state.ts = 1000 * state.tokens + R * state'.ts
    BY <2>3, <2>4 DEF Costs
  <2>7. 1000 * (granted + state.tokens) = 1000 * s + R * state.ts
    BY <2>1, <2>4 DEF Accounted
  <2>8. 1000 * (granted' + state'.tokens) = 1000 * s + R * state'.ts
    BY <1>1, <2>3, <2>5, <2>6, <2>7
  <2>9. QED
    BY <2>1, <2>4, <2>8
<1>4. CASE UpdateSwaps
  BY <1>4 DEF UpdateSwaps
<1>5. QED
  BY <1>2, <1>3, <1>4, StateStep

LEMMA AccountedStep ==
  ASSUME Exact(Start.rate), TimeInv, TimeInv', [BucketNext]_bucketVars, Accounted
  PROVE  Accounted'
<1> SUFFICES ASSUME ~clipped' PROVE Accounted'
  BY DEF Accounted
<1>1. /\ ~clipped
      /\ 1000 * (granted' + state'.tokens) = 1000 * Start.capacity + Start.rate * state'.ts
  BY AccountedState
<1>2. config = Start /\ updating.at # "store"
  BY <1>1 DEF Accounted
<1>3. config' = Start /\ updating'.at # "store"
  <2>1. CASE Tick \/ UNCHANGED bucketVars \/ \E r \in Requesters : Request(r)
    BY <1>2, <2>1, CallStepIsTyped DEF Tick, bucketVars
  <2>2. CASE Update
    BY <1>2, <2>2 DEF Update, UpdateBegins, UpdateLoads, UpdateSettles, UpdateSwaps,
                      UpdateSwapFails, UpdateStores
  <2>3. QED
    BY <2>1, <2>2 DEF BucketNext
<1>4. ASSUME NEW r \in Requesters
      PROVE  /\ call'[r].at # "idle" => call'[r].cfg = Start
             /\ call'[r].at = "swap" /\ ~call'[r].clips =>
                  Costs(call'[r].cur, call'[r].next, call'[r].need, Start.rate)
  <2>1. CASE call'[r] = call[r]
    BY <1>1, <2>1 DEF Accounted
  <2>2. CASE Settle(r)
    <3>1. call[r].cfg = Start
      BY <1>1, <2>2 DEF Settle, Accounted
    <3>2. call'[r].cfg = Start
      BY <2>2, <3>1 DEF Settle, TimeInv, BucketTypeOK
    <3>3. QED
      BY <2>2, <3>1, <3>2, SettleCosts
  <2>3. CASE call'[r] # call[r] /\ Request(r) /\ ~Settle(r)
    <3>1. ASSUME NEW need \in Needs, LoadConfig(r, need)
          PROVE  call'[r].cfg = Start /\ call'[r].at = "load"
      BY <1>2, <3>1 DEF LoadConfig, TimeInv, BucketTypeOK
    <3>2. CASE LoadState(r) \/ SwapFails(r)
      <4>1. call[r].cfg = Start
        BY <1>1, <3>2 DEF LoadState, SwapFails, Accounted
      <4>2. call'[r] = Iterate(r, state)
        BY <3>2 DEF LoadState, SwapFails, TimeInv, BucketTypeOK
      <4>3. QED
        BY <4>1, <4>2 DEF Iterate
    <3>3. CASE Refuse(r) \/ Swap(r)
      <4>1. call'[r] = Idle
        BY <3>3 DEF Refuse, Swap, TimeInv, BucketTypeOK
      <4>2. QED
        BY <4>1 DEF Idle
    <3>4. QED
      BY <2>3, <3>1, <3>2, <3>3 DEF Request
  <2>4. call'[r] = call[r] \/ Request(r)
    <3>1. CASE Tick \/ UNCHANGED bucketVars \/ Update
      BY <3>1, UpdateStepIsTyped DEF Tick, bucketVars
    <3>2. ASSUME NEW x \in Requesters, Request(x), x # r
          PROVE  call'[r] = call[r]
      <4>1. call' = [call EXCEPT ![x] = call'[x]] /\ call \in [Requesters -> Calls]
        BY <3>2, CallStepIsTyped DEF TimeInv, BucketTypeOK
      <4>2. QED
        BY <3>2, <4>1
    <3>3. QED
      BY <3>1, <3>2 DEF BucketNext
  <2>5. QED
    BY <2>1, <2>2, <2>3, <2>4
<1>5. QED
  BY <1>1, <1>3, <1>4 DEF Accounted, Costs

(* As long as the bucket has been neither full nor reconfigured, no        *)
(* fraction of a token is lost between the calls, if the constructor's     *)
(* rate is exact (TokenBucket.cc:34-42).                                   *)
THEOREM FractionsAreKept == ASSUME Exact(Start.rate) PROVE BucketSpec => []NothingLost
<1>1. BucketInit => Accounted
  <2> SUFFICES ASSUME BucketInit PROVE Accounted
    OBVIOUS
  <2>1. Start.rate * 0 = 0 /\ Start.capacity \in Nat
    BY BucketAssumption DEF Config
  <2>2. granted = 0 /\ state.tokens = Start.capacity /\ state.ts = 0 /\ config = Start
    BY DEF BucketInit
  <2>3. updating.at = "idle" /\ \A r \in Requesters : call[r].at = "idle"
    BY DEF BucketInit, Idle
  <2>4. QED
    BY <2>1, <2>2, <2>3 DEF Accounted
<1>2. TimeInv /\ TimeInv' /\ [BucketNext]_bucketVars /\ Accounted => Accounted'
  BY AccountedStep
<1>3. TimeInv /\ Accounted => NothingLost
  <2> SUFFICES ASSUME TimeInv, ~clipped,
                      1000 * (granted + state.tokens)
                        = 1000 * Start.capacity + Start.rate * state.ts
               PROVE  NothingLost
    BY DEF Accounted, NothingLost
  <2>1. PICK ts \in Nat : ts = state.ts /\ ts <= clock /\ Elapsed(ts) = clock - ts
    BY ElapsedIsThePast, ClockIsBelowModulus
       DEF TimeInv, NoTimestampAhead, BucketTypeOK, States
  <2>2. PICK R \in Nat, s \in Nat, e \in Nat :
          R = Start.rate /\ s = Start.capacity /\ e = clock - ts
    BY <2>1, BucketAssumption, ClockIsBelowModulus DEF TimeInv, Config
  <2>3. clock = ts + e /\ granted \in Nat /\ state.tokens \in Nat
    BY <2>1, <2>2, ClockIsBelowModulus DEF TimeInv, BucketTypeOK, States
  <2>4. e * R \in Nat /\ R * ts \in Nat /\ (ts + e) * R = R * ts + e * R
    OBVIOUS
  <2>5. 1000 * (granted + state.tokens) + e * R = 1000 * s + (ts + e) * R
    BY <2>1, <2>2, <2>3, <2>4
  <2>6. QED
    BY <2>1, <2>2, <2>3, <2>5 DEF NothingLost
<1>4. QED
  BY <1>1, <1>2, <1>3, TimeInvHolds, PTL DEF BucketSpec

-----------------------------------------------------------------------------
(* Nobody is refused by a bucket that could serve.  As long as all work    *)
(* with one configuration, the tokens a state will yield by any later time *)
(* only become fewer: a settlement at an exact rate is worth what it       *)
(* replaces or less, and what is taken from it is gone.                    *)

NoRicher(from, to, rate) ==
  1000 * to.tokens + rate * from.ts <= 1000 * from.tokens + rate * to.ts

Current(r) == call[r].version = version

Worth(r) ==
  call[r].at # "idle" =>
    /\ call[r].version <= version
    /\ Current(r) => call[r].cfg = config
    /\ call[r].at = "swap" => NoRicher(call[r].cur, call[r].next, call[r].cfg.rate)
    /\ call[r].at \in {"settle", "swap"} /\ Current(r) /\ r \notin misled =>
         NoRicher(call[r].cur, state, config.rate)

WorthInv ==
  /\ \A r \in Requesters : Worth(r)
  /\ updating.at \in {"load", "settle", "swap"} => updating.old = config
  /\ updating.at = "swap" => NoRicher(updating.cur, updating.next, updating.old.rate)

LEMMA NoRicherIsAnOrder ==
  ASSUME NEW a \in States, NEW b \in States, NEW c \in States, NEW rate \in Nat
  PROVE  /\ NoRicher(a, a, rate)
         /\ NoRicher(a, b, rate) /\ NoRicher(b, c, rate) => NoRicher(a, c, rate)
<1>1. /\ a.tokens \in Nat /\ b.tokens \in Nat /\ c.tokens \in Nat
      /\ rate * a.ts \in Nat /\ rate * b.ts \in Nat /\ rate * c.ts \in Nat
  BY DEF States
<1>2. QED
  BY <1>1 DEF NoRicher

(* What a requester is about to store is not worth more than what it saw,  *)
(* if the rate it works with is exact (TokenBucket.cc:34-50).              *)
LEMMA SettleIsNoRicher ==
  ASSUME TimeInv, NEW r \in Requesters, Settle(r), Exact(call[r].cfg.rate)
  PROVE  /\ call'[r].cur = call[r].cur /\ call'[r].cfg = call[r].cfg
         /\ call'[r].version = call[r].version /\ call'[r].at = "swap"
         /\ NoRicher(call'[r].cur, call'[r].next, call'[r].cfg.rate)
<1>1. /\ call[r] \in Calls /\ call[r].at = "settle"
      /\ Settled(call[r].cur, call[r].cfg).tokens >= call[r].need
  BY DEF TimeInv, BucketTypeOK, Settle
<1>2. PICK cur \in States, need \in Nat, cfg \in Config :
        cur = call[r].cur /\ need = call[r].need /\ cfg = call[r].cfg
  BY <1>1, CallFields, ConfigsAreTyped
<1>3. PICK p, q \in Nat : Settlement(cur, cfg, p, q)
  BY <1>1, <1>2, SettlesInTime
<1>4. PICK R \in Nat, cap \in Nat : R = cfg.rate /\ cap = cfg.capacity
  BY DEF Config
<1>5. cur.ts \in Nat /\ cur.tokens \in Nat
  BY DEF States
<1>6. PICK t \in Nat : /\ Settled(cur, cfg) = [ts |-> cur.ts + q, tokens |-> t]
                       /\ t <= cur.tokens + p
  <2>1. Least(cur.tokens + p, cap) \in Nat /\ Least(cur.tokens + p, cap) <= cur.tokens + p
    BY <1>4, <1>5 DEF Least
  <2>2. QED
    BY <1>3, <1>4, <1>5, <2>1 DEF Settlement
<1>7. /\ call'[r].cur = cur /\ call'[r].cfg = cfg /\ call'[r].version = call[r].version
      /\ call'[r].at = "swap"
      /\ call'[r].next.ts = cur.ts + q /\ call'[r].next.tokens = t - need
  <2>1. /\ call'[r].next = [Settled(cur, cfg) EXCEPT !.tokens = @ - need]
        /\ call'[r].cur = cur /\ call'[r].cfg = cfg /\ call'[r].version = call[r].version
        /\ call'[r].at = "swap"
    BY <1>2 DEF Settle, TimeInv, BucketTypeOK
  <2>2. QED
    BY <1>6, <2>1
<1>8. p * 1000 = R * q
  BY <1>2, <1>3, <1>4, Products DEF Settlement
<1>9. R * cur.ts \in Nat /\ R * q \in Nat /\ R * (cur.ts + q) = R * cur.ts + R * q
  BY <1>5
<1>10. NoRicher(call'[r].cur, call'[r].next, R)
  BY <1>5, <1>6, <1>7, <1>8, <1>9 DEF NoRicher
<1>11. QED
  BY <1>2, <1>4, <1>7, <1>10

(* Nor is what update is about to store: it counts whole tokens only and   *)
(* the time up to the present (TokenBucket.cc:70-94).                      *)
LEMMA UpdateIsNoRicher ==
  ASSUME TimeInv, UpdateSettles
  PROVE  NoRicher(updating'.cur, updating'.next, updating'.old.rate)
<1>1. /\ updating.at = "settle" /\ updating \in Updates /\ updating.cur.ts <= clock
      /\ clock \in Nat
  BY ClockIsBelowModulus DEF TimeInv, BucketTypeOK, NoTimestampAhead, UpdateSettles
<1>2. PICK cur \in States, old \in Config, new \in Config :
        cur = updating.cur /\ old = updating.old /\ new = updating.new
  BY <1>1, UpdateFields, ConfigsAreTyped
<1>3. PICK R \in Nat, ts \in Nat : R = old.rate /\ ts = cur.ts
  BY DEF Config, States
<1>4. PICK e, p \in Nat :
        /\ e = clock - ts /\ p = Produced(ts, R)
        /\ p * 1000 <= e * R /\ e * R < p * 1000 + 1000
  <2>1. ts <= clock
    BY <1>1, <1>2, <1>3
  <2>2. QED
    BY <2>1, ProducedFor
<1>5. cur.tokens \in Nat /\ old.capacity \in Nat /\ new.capacity \in Nat
  BY DEF States, Config
<1>6. PICK t \in Nat : /\ t = Least(Available(cur, old), new.capacity)
                       /\ t <= cur.tokens + p
  <2>1. /\ Available(cur, old) \in Nat /\ Available(cur, old) <= cur.tokens + p
    BY <1>3, <1>4, <1>5 DEF Available, Least
  <2>2. QED
    BY <1>5, <2>1 DEF Least
<1>7. updating'.cur = cur /\ updating'.old = old
      /\ updating'.next.ts = clock /\ updating'.next.tokens = t
  BY <1>2, <1>6 DEF UpdateSettles
<1>8. R * ts \in Nat /\ R * clock \in Nat /\ e * R = R * clock - R * ts
  BY <1>1, <1>4
<1>9. NoRicher(cur, updating'.next, R)
  BY <1>3, <1>4, <1>5, <1>6, <1>7, <1>8 DEF NoRicher
<1>10. QED
  BY <1>3, <1>7, <1>9

(* A state that is not worth more than the one a requester saw yields no   *)
(* more at the same moment.                                                *)
LEMMA NoRicherYieldsNoMore ==
  ASSUME TimeInv, NEW cur \in States, cur.ts <= clock, NEW cfg \in Config,
         NoRicher(cur, state, cfg.rate), NEW need \in Nat,
         Settled(cur, cfg).tokens < need
  PROVE  Available(state, cfg) < need
<1>1. /\ state \in States /\ state.ts <= clock
      /\ clock \in Nat /\ clock < Modulus /\ Modulus \in Nat
  BY ClockIsBelowModulus DEF TimeInv, BucketTypeOK, NoTimestampAhead
<1>2. PICK R \in Nat, cap \in Nat : R = cfg.rate /\ cap = cfg.capacity
  BY DEF Config
<1>3. PICK ts \in Nat, tokens \in Nat : ts = cur.ts /\ tokens = cur.tokens
  BY DEF States
<1>4. PICK ts2 \in Nat, tokens2 \in Nat : ts2 = state.ts /\ tokens2 = state.tokens
  BY <1>1 DEF States
<1>5. PICK e, p \in Nat :
        /\ e = clock - ts /\ p = Produced(ts, R)
        /\ p * 1000 <= e * R /\ e * R < p * 1000 + 1000
  BY <1>3, ProducedFor
<1>6. PICK e2, m \in Nat :
        /\ e2 = clock - ts2 /\ m = Produced(ts2, R)
        /\ m * 1000 <= e2 * R /\ e2 * R < m * 1000 + 1000
  <2>1. ts2 <= clock
    BY <1>1, <1>4
  <2>2. QED
    BY <2>1, ProducedFor
<1>7. /\ R * ts \in Nat /\ R * ts2 \in Nat /\ R * clock \in Nat
      /\ e * R = R * clock - R * ts /\ e2 * R = R * clock - R * ts2
  BY <1>1, <1>5, <1>6
<1>8. 1000 * tokens2 + R * ts <= 1000 * tokens + R * ts2
  BY <1>2, <1>3, <1>4 DEF NoRicher
<1>9. tokens2 + m <= tokens + p
  BY <1>5, <1>6, <1>7, <1>8
<1>10. Available(state, cfg) = Least(tokens2 + m, cap)
  BY <1>2, <1>4, <1>6 DEF Available
<1>11. cap < need \/ tokens + p < need
  <2>1. CASE p = 0
    BY <1>2, <1>3, <1>5, <2>1 DEF Settled
  <2>2. CASE p # 0
    <3>1. Settled(cur, cfg).tokens = Least(tokens + p, cap)
      BY <1>2, <1>3, <1>5, <2>2 DEF Settled
    <3>2. QED
      BY <3>1 DEF Least
  <2>3. QED
    BY <2>1, <2>2
<1>12. QED
  BY <1>9, <1>10, <1>11 DEF Least

(* What a step that replaces the state by one that is not worth more, or   *)
(* keeps it, leaves of a requester that does not take part.                *)
LEMMA OthersSeeNoRicher ==
  ASSUME TimeInv, state' \in States, NEW r \in Requesters, call'[r] = call[r],
         Worth(r), UNCHANGED <<config, version>>,
         r \notin misled' => r \notin misled /\ NoRicher(state, state', config.rate)
  PROVE  Worth(r)'
<1>1. SUFFICES ASSUME call[r].at \in {"settle", "swap"}, Current(r), r \notin misled'
               PROVE  NoRicher(call[r].cur, state', config.rate)
  BY DEF Worth, Current
<1>2. /\ call[r].cur \in States /\ state \in States /\ config.rate \in Nat
  BY <1>1, CallFields, ConfigsAreTyped DEF TimeInv, BucketTypeOK, Config
<1>3. NoRicher(call[r].cur, state, config.rate)
  BY <1>1 DEF Worth
<1>4. QED
  BY <1>1, <1>2, <1>3, NoRicherIsAnOrder

LEMMA RequestKeepsWorth ==
  ASSUME TimeInv, TimeInv', WorthInv, \A rate \in Rates : Exact(rate),
         NEW x \in Requesters, Request(x)
  PROVE  WorthInv'
<1>1. /\ call' = [call EXCEPT ![x] = call'[x]] /\ call[x] \in Calls
      /\ call \in [Requesters -> Calls] /\ state \in States /\ state' \in States
      /\ UNCHANGED <<clock, config, updating, version>>
      /\ config.rate \in Nat
  BY CallStepIsTyped, ConfigsAreTyped DEF TimeInv, BucketTypeOK, Config
<1>2. \A r \in Requesters : r # x => call'[r] = call[r]
  BY <1>1
<1>3. SUFFICES \A r \in Requesters : Worth(r)'
  BY <1>1 DEF WorthInv
<1>4. \A r \in Requesters : Worth(r)
  BY DEF WorthInv
<1>5. NoRicher(state, state, config.rate)
  BY <1>1, NoRicherIsAnOrder
<1>6. ASSUME NEW r \in Requesters, r # x, UNCHANGED state, misled' \in {misled, misled \ {x}}
      PROVE  Worth(r)'
  <2>1. r \notin misled' => r \notin misled /\ NoRicher(state, state', config.rate)
    BY <1>5, <1>6
  <2>2. QED
    BY <1>1, <1>2, <1>4, <1>6, <2>1, OthersSeeNoRicher
<1>7. ASSUME NEW need \in Needs, LoadConfig(x, need)
      PROVE  \A r \in Requesters : Worth(r)'
  <2>1. /\ call'[x].at = "load" /\ call'[x].version = version /\ call'[x].cfg = config
        /\ UNCHANGED <<state, misled>>
    BY <1>1, <1>7 DEF LoadConfig
  <2>2. version' \in Nat
    BY DEF TimeInv, BucketTypeOK
  <2>3. Worth(x)'
    BY <1>1, <2>1, <2>2 DEF Worth, Current
  <2>4. QED
    BY <1>6, <2>1, <2>3
<1>8. CASE LoadState(x) \/ SwapFails(x)
  <2>1. /\ call'[x] = Iterate(x, state) /\ call[x].at # "idle"
        /\ misled' = misled \ {x} /\ UNCHANGED state
    BY <1>1, <1>8 DEF LoadState, SwapFails
  <2>2. /\ call'[x].at = "settle" /\ call'[x].version = call[x].version
        /\ call'[x].cfg = call[x].cfg /\ call'[x].cur = state
    BY <2>1 DEF Iterate
  <2>3. Worth(x)'
    BY <1>1, <1>4, <1>5, <2>1, <2>2 DEF Worth, Current
  <2>4. QED
    BY <1>6, <2>1, <2>3
<1>9. CASE Refuse(x)
  <2>1. call'[x].at = "idle" /\ UNCHANGED <<state, misled>>
    BY <1>1, <1>9 DEF Refuse, Idle
  <2>2. QED
    BY <1>6, <2>1 DEF Worth
<1>10. CASE Settle(x)
  <2>1. UNCHANGED <<state, misled>> /\ call[x].at = "settle"
    BY <1>10 DEF Settle
  <2>2. Exact(call[x].cfg.rate)
    BY <1>1, <2>1, CallFields DEF AllConfigs, Rates
  <2>3. /\ call'[x].cur = call[x].cur /\ call'[x].cfg = call[x].cfg
        /\ call'[x].version = call[x].version /\ call'[x].at = "swap"
        /\ NoRicher(call'[x].cur, call'[x].next, call'[x].cfg.rate)
    BY <1>10, <2>2, SettleIsNoRicher
  <2>4. Worth(x)'
    BY <1>1, <1>4, <2>1, <2>3 DEF Worth, Current
  <2>5. QED
    BY <1>6, <2>1, <2>4
<1>11. CASE Swap(x)
  <2>1. /\ call'[x].at = "idle" /\ call[x].at = "swap" /\ call[x].cur = state
        /\ state' = call[x].next
        /\ misled' = IF Current(x) THEN misled ELSE Requesters
    BY <1>1, <1>11 DEF Swap, Idle, Current
  <2>2. Current(x) => NoRicher(state, state', config.rate)
    BY <1>4, <2>1 DEF Worth
  <2>3. ASSUME NEW r \in Requesters, r # x
        PROVE  Worth(r)'
    <3>1. r \notin misled' => r \notin misled /\ NoRicher(state, state', config.rate)
      BY <2>1, <2>2
    <3>2. QED
      BY <1>1, <1>2, <1>4, <2>3, <3>1, OthersSeeNoRicher
  <2>4. QED
    BY <2>1, <2>3 DEF Worth
<1>12. QED
  BY <1>7, <1>8, <1>9, <1>10, <1>11 DEF Request

LEMMA UpdateKeepsWorth ==
  ASSUME TimeInv, TimeInv', WorthInv, Update
  PROVE  WorthInv'
<1>1. /\ call' = call /\ misled' = misled
      /\ \A r \in Requesters : call[r] \in Calls /\ Worth(r)
      /\ state \in States /\ state' \in States /\ config.rate \in Nat
  BY UpdateStepIsTyped, ConfigsAreTyped
     DEF TimeInv, BucketTypeOK, Config, WorthInv, Update, UpdateBegins, UpdateLoads,
         UpdateSettles, UpdateSwaps, UpdateSwapFails, UpdateStores
<1>2. NoRicher(state, state, config.rate)
  BY <1>1, NoRicherIsAnOrder
<1>3. ASSUME UNCHANGED <<config, version>>, NoRicher(state, state', config.rate)
      PROVE  \A r \in Requesters : Worth(r)'
  BY <1>1, <1>3, OthersSeeNoRicher
<1>4. ASSUME NEW new \in Configs, UpdateBegins(new)
      PROVE  WorthInv'
  <2>1. updating'.at = "load" /\ updating'.old = config /\ UNCHANGED <<config, version, state>>
    BY <1>4 DEF UpdateBegins
  <2>2. QED
    BY <1>2, <1>3, <2>1 DEF WorthInv
<1>5. CASE UpdateLoads \/ UpdateSwapFails
  <2>1. /\ updating'.at = "settle" /\ updating'.old = updating.old
        /\ updating.at \in {"load", "swap"} /\ UNCHANGED <<config, version, state>>
    BY <1>5 DEF UpdateLoads, UpdateSwapFails
  <2>2. QED
    BY <1>2, <1>3, <2>1 DEF WorthInv
<1>6. CASE UpdateSettles
  <2>1. /\ updating'.at = "swap" /\ updating'.old = updating.old
        /\ updating.at = "settle" /\ UNCHANGED <<config, version, state>>
    BY <1>6 DEF UpdateSettles
  <2>2. NoRicher(updating'.cur, updating'.next, updating'.old.rate)
    BY <1>6, UpdateIsNoRicher
  <2>3. QED
    BY <1>2, <1>3, <2>1, <2>2 DEF WorthInv
<1>7. CASE UpdateSwaps
  <2>1. /\ updating'.at = "store" /\ updating.at = "swap" /\ updating.cur = state
        /\ state' = updating.next /\ UNCHANGED <<config, version>>
    BY <1>7 DEF UpdateSwaps
  <2>2. NoRicher(state, state', config.rate)
    BY <2>1 DEF WorthInv
  <2>3. QED
    BY <1>3, <2>1, <2>2 DEF WorthInv
<1>8. CASE UpdateStores
  <2>1. updating'.at = "idle" /\ version' = version + 1 /\ version \in Nat
    BY <1>8 DEF UpdateStores, Idle, TimeInv, BucketTypeOK
  <2>2. ASSUME NEW r \in Requesters
        PROVE  Worth(r)'
    <3>1. call[r].at # "idle" => call[r].version <= version /\ call[r].version \in Nat
      BY <1>1, CallFields DEF Worth
    <3>2. call[r].at # "idle" => call[r].version <= version' /\ call[r].version # version'
      BY <2>1, <3>1
    <3>3. call[r].at = "swap" => NoRicher(call[r].cur, call[r].next, call[r].cfg.rate)
      BY <1>1 DEF Worth
    <3>4. QED
      BY <1>1, <3>2, <3>3 DEF Worth, Current
  <2>3. QED
    BY <2>1, <2>2 DEF WorthInv
<1>9. QED
  BY <1>4, <1>5, <1>6, <1>7, <1>8 DEF Update

(* A request is refused only by a bucket that holds too little at that     *)
(* moment, however the threads and the updates interleave, when the rates  *)
(* are exact; at others a settlement makes tokens out of no time, and the  *)
(* next request may see them (TokenBucket.cc:22-46).                       *)
THEOREM NoneIsRefusedInVain ==
  ASSUME \A rate \in Rates : Exact(rate)
  PROVE  BucketSpec => RefusedOnlyWhenShort
<1> DEFINE A == \A r \in Requesters :
                  call[r].at = "settle" /\ call'[r] = Idle
                    /\ call[r].version = version /\ r \notin misled
                    => Available(state, config) < call[r].need
<1>1. BucketInit => WorthInv
  BY DEF BucketInit, WorthInv, Worth, Idle
<1>2. TimeInv /\ TimeInv' /\ WorthInv /\ [BucketNext]_bucketVars => WorthInv'
  <2> SUFFICES ASSUME TimeInv, TimeInv', WorthInv, [BucketNext]_bucketVars PROVE WorthInv'
    OBVIOUS
  <2>1. CASE Tick \/ UNCHANGED bucketVars
    <3>1. UNCHANGED <<config, state, call, updating, version, misled>>
      BY <2>1 DEF Tick, bucketVars
    <3>2. QED
      BY <3>1 DEF WorthInv, Worth, Current
  <2>2. QED
    BY <2>1, RequestKeepsWorth, UpdateKeepsWorth DEF BucketNext
<1>3. TimeInv /\ WorthInv /\ [BucketNext]_bucketVars => [A]_bucketVars
  <2> SUFFICES ASSUME TimeInv, WorthInv, [BucketNext]_bucketVars, NEW r \in Requesters,
                      call[r].at = "settle", call'[r] = Idle, Current(r), r \notin misled
               PROVE  Available(state, config) < call[r].need
    BY DEF Current
  <2>1. call'[r].at = "idle" /\ call'[r] # call[r]
    BY DEF Idle
  <2>2. call \in [Requesters -> Calls] /\ call[r] \in Calls
    BY DEF TimeInv, BucketTypeOK
  <2>3. Request(r)
    <3>1. CASE Tick \/ UNCHANGED bucketVars \/ Update
      BY <2>1, <3>1, UpdateStepIsTyped DEF Tick, bucketVars
    <3>2. ASSUME NEW x \in Requesters, Request(x), x # r
          PROVE  call'[r] = call[r]
      <4>1. call' = [call EXCEPT ![x] = call'[x]]
        BY <3>2, CallStepIsTyped
      <4>2. QED
        BY <2>2, <3>2, <4>1
    <3>3. QED
      BY <2>1, <3>1, <3>2 DEF BucketNext
  <2>4. Refuse(r)
    <3>1. ~Settle(r)
      BY <2>1, <2>2 DEF Settle
    <3>2. QED
      BY <2>3, <3>1 DEF Request, LoadConfig, LoadState, Swap, SwapFails, Idle
  <2>5. /\ call[r].cur \in States /\ call[r].cur.ts <= clock /\ call[r].need \in Nat
        /\ call[r].cfg = config /\ config \in Config
        /\ NoRicher(call[r].cur, state, config.rate)
    BY <2>2, CallFields, ConfigsAreTyped
       DEF WorthInv, Worth, TimeInv, BucketTypeOK, NoTimestampAhead
  <2>6. Settled(call[r].cur, config).tokens < call[r].need
    BY <2>4, <2>5 DEF Refuse
  <2>7. QED
    BY <2>5, <2>6, NoRicherYieldsNoMore
<1>4. QED
  BY <1>1, <1>2, <1>3, TimeInvHolds, PTL DEF BucketSpec, RefusedOnlyWhenShort

-----------------------------------------------------------------------------
(* The selector.                                                           *)

(* A set of numbers that has 0 and, with each number, the next has all.    *)
(* What is proved by induction below is said of such a set.                *)
LEMMA SetInduction ==
  ASSUME NEW T, 0 \in T, \A n \in Nat : n \in T => n + 1 \in T
  PROVE  \A n \in Nat : n \in T
<1> DEFINE U == Nat \ T
<1>1. ASSUME U # {} PROVE \E x \in U : \A y \in U : ~(y < x)
  <2>1. \E x \in U : \A y \in U : <<y, x>> \notin OpToRel(<, Nat)
    BY <1>1, NatLessThanWellFounded, WFMin
  <2> QED BY <2>1 DEF OpToRel
<1>2. ASSUME NEW x \in U, \A y \in U : ~(y < x) PROVE FALSE
  <2>1. x \in Nat /\ x # 0 /\ x - 1 \in Nat /\ x - 1 < x
    BY <1>2
  <2>2. x - 1 \in T
    BY <1>2, <2>1
  <2> QED BY <2>1, <2>2
<1> QED BY <1>1, <1>2

(* An element of a set.                                                    *)
Any(s) == CHOOSE x \in s : TRUE

(* it is the function by which f is summed over subsets of S.              *)
IsFold(it, f, S) ==
  it = [s \in SUBSET S |-> IF s = {} THEN 0 ELSE f[Any(s)] + it[s \ {Any(s)}]]

(* Sum is the value of the recursive function that the fold of the         *)
(* community modules chooses (FiniteSetsExt, Folds), at the whole set.     *)
LEMMA SumIsFold ==
  ASSUME NEW S, NEW f \in [S -> Int]
  PROVE  Sum(f) = (CHOOSE it : IsFold(it, f, S))[S]
<1>1. DOMAIN f = S
  OBVIOUS
<1> QED BY <1>1 DEF Sum, MapThenSumSet, MapThenFoldSet, IsFold, Any

(* A nonempty set has what is chosen from it.                              *)
LEMMA AnyOne ==
  ASSUME NEW s, s # {} PROVE Any(s) \in s
  BY DEF Any

(* There is such a function, so that what is chosen is one: built set by   *)
(* set, by the number of elements.                                         *)
LEMMA FoldExists ==
  ASSUME NEW S, IsFiniteSet(S), NEW f \in [S -> Int]
  PROVE  \E it \in [SUBSET S -> Int] : IsFold(it, f, S)
<1> DEFINE D(n) == {s \in SUBSET S : Cardinality(s) <= n}
           Folds(g, n) == /\ g \in [D(n) -> Int]
                          /\ \A s \in D(n) :
                               g[s] = IF s = {} THEN 0 ELSE f[Any(s)] + g[s \ {Any(s)}]
           T == {n \in Nat : \E g : Folds(g, n)}
<1>1. \A s \in SUBSET S : IsFiniteSet(s) /\ Cardinality(s) \in Nat
  BY FS_Subset, FS_CardinalityType
<1>2. \A s \in SUBSET S : s # {} =>
        /\ Any(s) \in S /\ s \ {Any(s)} \in SUBSET S
        /\ Cardinality(s \ {Any(s)}) = Cardinality(s) - 1
  BY <1>1, AnyOne, FS_RemoveElement
<1>3. 0 \in T
  <2> DEFINE g == [s \in D(0) |-> 0]
  <2>1. \A s \in D(0) : s = {}
    BY <1>1, FS_EmptySet
  <2>2. Folds(g, 0)
    BY <2>1
  <2> QED BY <2>2
<1>4. ASSUME NEW n \in Nat, n \in T PROVE n + 1 \in T
  <2>1. PICK g : Folds(g, n)
    BY <1>4
  <2> DEFINE h == [s \in D(n + 1) |-> IF s = {} THEN 0 ELSE f[Any(s)] + g[s \ {Any(s)}]]
  <2>2. \A s \in D(n + 1) : s # {} => s \ {Any(s)} \in D(n) /\ f[Any(s)] \in Int
    BY <1>1, <1>2
  <2>3. \A s \in D(n) : s \in D(n + 1) /\ h[s] = g[s]
    <3>1. ASSUME NEW s \in D(n) PROVE s \in D(n + 1)
      BY <1>1
    <3> QED BY <2>1, <3>1
  <2>4. h \in [D(n + 1) -> Int]
    BY <2>1, <2>2
  <2>5. \A s \in D(n + 1) :
          h[s] = IF s = {} THEN 0 ELSE f[Any(s)] + h[s \ {Any(s)}]
    BY <2>2, <2>3
  <2> HIDE DEF h
  <2>6. Folds(h, n + 1)
    BY <2>4, <2>5
  <2> HIDE DEF Folds
  <2> QED BY <2>6
<1>5. Cardinality(S) \in T
  <2> HIDE DEF T
  <2>1. \A n \in Nat : n \in T
    BY <1>3, <1>4, SetInduction
  <2> QED BY <2>1, FS_CardinalityType
<1>6. PICK g : Folds(g, Cardinality(S))
  BY <1>5
<1>7. D(Cardinality(S)) = SUBSET S
  BY FS_Subset
<1> QED BY <1>6, <1>7 DEF IsFold

(* What f sums to over s. *)
Over(f, S, s) == (CHOOSE it : IsFold(it, f, S))[s]

(* The equations that Sum and Over satisfy.                                *)
LEMMA OverFacts ==
  ASSUME NEW S, IsFiniteSet(S), NEW f \in [S -> Int]
  PROVE  /\ Sum(f) = Over(f, S, S)
         /\ Over(f, S, {}) = 0
         /\ \A s \in SUBSET S : Over(f, S, s) \in Int
         /\ \A s \in SUBSET S : s # {} =>
              Over(f, S, s) = f[Any(s)] + Over(f, S, s \ {Any(s)})
<1> DEFINE it == CHOOSE g : IsFold(g, f, S)
<1>1. IsFold(it, f, S)
  BY FoldExists
<1>2. PICK g \in [SUBSET S -> Int] : IsFold(g, f, S)
  BY FoldExists
<1> HIDE DEF it
<1>3. \A s \in SUBSET S : IsFiniteSet(s) /\ Cardinality(s) \in Nat
  BY FS_Subset, FS_CardinalityType
<1>4. \A s \in SUBSET S : s # {} =>
        /\ Any(s) \in S /\ s \ {Any(s)} \in SUBSET S
        /\ Cardinality(s \ {Any(s)}) = Cardinality(s) - 1
  BY <1>3, AnyOne, FS_RemoveElement
<1>5. /\ it[{}] = 0
      /\ \A s \in SUBSET S : s # {} => it[s] = f[Any(s)] + it[s \ {Any(s)}]
  BY <1>1 DEF IsFold
<1>6. \A s \in SUBSET S : it[s] \in Int
  <2> DEFINE T == {n \in Nat : \A s \in SUBSET S : Cardinality(s) = n => it[s] \in Int}
  <2>1. 0 \in T
    <3>1. ASSUME NEW s \in SUBSET S, Cardinality(s) = 0 PROVE it[s] \in Int
      <4>1. s = {}
        BY <1>3, <3>1, FS_EmptySet
      <4> QED BY <1>5, <4>1
    <3> QED BY <3>1
  <2>2. ASSUME NEW n \in Nat, n \in T PROVE n + 1 \in T
    <3>1. ASSUME NEW s \in SUBSET S, Cardinality(s) = n + 1 PROVE it[s] \in Int
      <4>1. s # {}
        BY <3>1, FS_EmptySet
      <4>2. Cardinality(s \ {Any(s)}) = n /\ s \ {Any(s)} \in SUBSET S
        BY <1>4, <3>1, <4>1
      <4>3. it[s \ {Any(s)}] \in Int
        BY <2>2, <4>2
      <4>4. f[Any(s)] \in Int
        BY <1>4, <4>1
      <4>5. it[s] = f[Any(s)] + it[s \ {Any(s)}]
        BY <1>5, <4>1
      <4> QED BY <4>3, <4>4, <4>5
    <3> QED BY <3>1
  <2> HIDE DEF T
  <2>3. \A n \in Nat : n \in T
    BY <2>1, <2>2, SetInduction
  <2> QED BY <1>3, <2>3 DEF T
<1>7. \A s : Over(f, S, s) = it[s]
  BY DEF Over, it
<1> QED BY <1>5, <1>6, <1>7, SumIsFold DEF Over

(* Any element may be taken first.                                         *)
LEMMA OverSplit ==
  ASSUME NEW S, IsFiniteSet(S), NEW f \in [S -> Int], NEW r \in SUBSET S, NEW e \in r
  PROVE  Over(f, S, r) = f[e] + Over(f, S, r \ {e})
<1> DEFINE Split(s) == \A x \in s : Over(f, S, s) = f[x] + Over(f, S, s \ {x})
           T == {n \in Nat : \A s \in SUBSET S : Cardinality(s) = n => Split(s)}
<1>1. \A s \in SUBSET S : IsFiniteSet(s) /\ Cardinality(s) \in Nat
  BY FS_Subset, FS_CardinalityType
<1>2. 0 \in T
  <2>1. ASSUME NEW s \in SUBSET S, Cardinality(s) = 0 PROVE Split(s)
    <3>1. s = {}
      BY <1>1, <2>1, FS_EmptySet
    <3> QED BY <3>1
  <2> HIDE DEF Split
  <2> QED BY <2>1
<1>3. ASSUME NEW n \in Nat, n \in T PROVE n + 1 \in T
  <2>1. ASSUME NEW s \in SUBSET S, Cardinality(s) = n + 1 PROVE Split(s)
    <3> SUFFICES ASSUME NEW x \in s
                 PROVE  Over(f, S, s) = f[x] + Over(f, S, s \ {x})
      OBVIOUS
    <3> DEFINE c == Any(s)
    <3>1. c \in s /\ Over(f, S, s) = f[c] + Over(f, S, s \ {c})
      BY AnyOne, OverFacts
    <3> HIDE DEF c
    <3>2. CASE x = c
      BY <3>1, <3>2
    <3>3. CASE x # c
      <4>1. /\ s \ {c} \in SUBSET S /\ x \in s \ {c}
            /\ s \ {x} \in SUBSET S /\ c \in s \ {x}
        BY <3>1, <3>3
      <4>2. Cardinality(s \ {c}) = n /\ Cardinality(s \ {x}) = n
        <5>1. \A y \in s : Cardinality(s \ {y}) = Cardinality(s) - 1
          BY <1>1, FS_RemoveElement
        <5> QED BY <2>1, <3>1, <5>1
      <4>3. Over(f, S, s \ {c}) = f[x] + Over(f, S, (s \ {c}) \ {x})
        BY <1>3, <4>1, <4>2
      <4>4. Over(f, S, s \ {x}) = f[c] + Over(f, S, (s \ {x}) \ {c})
        BY <1>3, <4>1, <4>2
      <4>5. (s \ {x}) \ {c} = (s \ {c}) \ {x}
        OBVIOUS
      <4>6. f[x] \in Int /\ f[c] \in Int
        BY <3>1
      <4>7. PICK o \in Int : o = Over(f, S, (s \ {c}) \ {x})
        BY OverFacts
      <4>8. Over(f, S, s \ {c}) = f[x] + o /\ Over(f, S, s \ {x}) = f[c] + o
        BY <4>3, <4>4, <4>5, <4>7
      <4>9. Over(f, S, s) = f[c] + (f[x] + o)
        BY <3>1, <4>8
      <4> QED BY <4>6, <4>8, <4>9
    <3> QED BY <3>2, <3>3
  <2> HIDE DEF Split
  <2> QED BY <2>1
<1> HIDE DEF T
<1>4. \A n \in Nat : n \in T
  BY <1>2, <1>3, SetInduction
<1> QED BY <1>1, <1>4 DEF T

(* A new element adds its value.                                           *)
LEMMA OverGrows ==
  ASSUME NEW S, IsFiniteSet(S), NEW f \in [S -> Int], NEW r \in SUBSET S,
         NEW e \in S, e \notin r
  PROVE  Over(f, S, r \cup {e}) = f[e] + Over(f, S, r)
<1> DEFINE q == r \cup {e}
<1>1. q \in SUBSET S /\ e \in q /\ q \ {e} = r
  OBVIOUS
<1> HIDE DEF q
<1>2. Over(f, S, q) = f[e] + Over(f, S, q \ {e})
  BY <1>1, OverSplit
<1> QED BY <1>1, <1>2 DEF q

(* Sums follow what they are taken of.                                     *)
LEMMA OverCompare ==
  ASSUME NEW S, IsFiniteSet(S), NEW f \in [S -> Int],
         NEW R, IsFiniteSet(R), NEW g \in [R -> Int],
         NEW r \in SUBSET (S \cap R)
  PROVE  /\ (\A x \in r : f[x] = g[x]) => Over(f, S, r) = Over(g, R, r)
         /\ (\A x \in r : f[x] <= g[x]) => Over(f, S, r) <= Over(g, R, r)
<1> DEFINE Same(s) == (\A x \in s : f[x] = g[x]) => Over(f, S, s) = Over(g, R, s)
           Less(s) == (\A x \in s : f[x] <= g[x]) => Over(f, S, s) <= Over(g, R, s)
           T == {n \in Nat : \A s \in SUBSET (S \cap R) :
                              Cardinality(s) = n => Same(s) /\ Less(s)}
<1>1. \A s \in SUBSET (S \cap R) : IsFiniteSet(s) /\ Cardinality(s) \in Nat
  BY FS_Subset, FS_CardinalityType
<1>2. 0 \in T
  <2>1. ASSUME NEW s \in SUBSET (S \cap R), Cardinality(s) = 0 PROVE Same(s) /\ Less(s)
    <3>1. s = {}
      BY <1>1, <2>1, FS_EmptySet
    <3> QED BY <3>1, OverFacts
  <2> HIDE DEF Same, Less
  <2> QED BY <2>1
<1>3. ASSUME NEW n \in Nat, n \in T PROVE n + 1 \in T
  <2>1. ASSUME NEW s \in SUBSET (S \cap R), Cardinality(s) = n + 1
        PROVE  Same(s) /\ Less(s)
    <3> DEFINE c == Any(s)
               t == s \ {c}
    <3>1. c \in s
      BY <2>1, FS_EmptySet, AnyOne
    <3>2. /\ Over(f, S, s) = f[c] + Over(f, S, t)
          /\ Over(g, R, s) = g[c] + Over(g, R, t)
      BY <3>1, OverFacts
    <3> HIDE DEF c
    <3>3. t \in SUBSET (S \cap R) /\ t \subseteq s /\ Cardinality(t) = n
      BY <1>1, <2>1, <3>1, FS_RemoveElement
    <3> HIDE DEF t
    <3>4. Same(t) /\ Less(t)
      BY <1>3, <3>3
    <3>5. /\ f[c] \in Int /\ g[c] \in Int
          /\ Over(f, S, t) \in Int /\ Over(g, R, t) \in Int
      BY <3>1, <3>3, OverFacts
    <3>6. Same(s)
      BY <3>1, <3>2, <3>3, <3>4
    <3>7. Less(s)
      <4> SUFFICES ASSUME \A x \in s : f[x] <= g[x]
                   PROVE  Over(f, S, s) <= Over(g, R, s)
        OBVIOUS
      <4>1. f[c] <= g[c] /\ Over(f, S, t) <= Over(g, R, t)
        BY <3>1, <3>3, <3>4
      <4> QED BY <3>2, <3>5, <4>1
    <3> QED BY <3>6, <3>7
  <2> HIDE DEF Same, Less
  <2> QED BY <2>1
<1> HIDE DEF T
<1>4. \A n \in Nat : n \in T
  BY <1>2, <1>3, SetInduction
<1> QED BY <1>1, <1>4 DEF T

(* A change of one value changes the sum by as much.                       *)
LEMMA SumShifted ==
  ASSUME NEW S, IsFiniteSet(S), NEW f \in [S -> Int], NEW n \in S, NEW d \in Int
  PROVE  Sum(f) \in Int /\ Sum([f EXCEPT ![n] = @ + d]) = Sum(f) + d
<1> DEFINE g == [f EXCEPT ![n] = @ + d]
<1>1. g \in [S -> Int] /\ (\A x \in S \ {n} : f[x] = g[x]) /\ g[n] = f[n] + d
  OBVIOUS
<1> HIDE DEF g
<1>2. /\ Sum(f) = Over(f, S, S) /\ Sum(g) = Over(g, S, S)
      /\ S \in SUBSET S /\ S \ {n} \in SUBSET S /\ S \ {n} \in SUBSET (S \cap S)
  BY <1>1, OverFacts
<1>3. /\ Over(f, S, S) = f[n] + Over(f, S, S \ {n})
      /\ Over(g, S, S) = g[n] + Over(g, S, S \ {n})
  BY <1>1, <1>2, OverSplit
<1>4. Over(f, S, S \ {n}) = Over(g, S, S \ {n})
  BY <1>1, <1>2, OverCompare
<1>5. PICK o \in Int : o = Over(f, S, S \ {n})
  BY <1>2, OverFacts
<1>6. Sum(f) = f[n] + o /\ Sum(g) = f[n] + d + o
  BY <1>1, <1>2, <1>3, <1>4, <1>5
<1>7. Sum(f) \in Int /\ Sum(g) = Sum(f) + d
  BY <1>5, <1>6
<1> QED BY <1>7 DEF g

(* Zeros sum to zero.                                                      *)
LEMMA SumZero ==
  ASSUME NEW S, IsFiniteSet(S), NEW f \in [S -> Int], \A x \in S : f[x] = 0
  PROVE  Sum(f) = 0
<1> DEFINE Zero(s) == Over(f, S, s) = 0
           T == {n \in Nat : \A s \in SUBSET S : Cardinality(s) = n => Zero(s)}
<1>1. \A s \in SUBSET S : IsFiniteSet(s) /\ Cardinality(s) \in Nat
  BY FS_Subset, FS_CardinalityType
<1>2. 0 \in T
  <2>1. ASSUME NEW s \in SUBSET S, Cardinality(s) = 0 PROVE Zero(s)
    <3>1. s = {}
      BY <1>1, <2>1, FS_EmptySet
    <3> QED BY <3>1, OverFacts
  <2> HIDE DEF Zero
  <2> QED BY <2>1
<1>3. ASSUME NEW n \in Nat, n \in T PROVE n + 1 \in T
  <2>1. ASSUME NEW s \in SUBSET S, Cardinality(s) = n + 1 PROVE Zero(s)
    <3>1. Any(s) \in s
      <4>1. s # {}
        BY <2>1, FS_EmptySet, SMTT(30)
      <4> QED BY <4>1, AnyOne
    <3>2. PICK c \in s : Over(f, S, s) = f[c] + Over(f, S, s \ {c})
      BY <3>1, OverFacts
    <3>3. s \ {c} \in SUBSET S /\ Cardinality(s \ {c}) = n
      BY <1>1, <2>1, FS_RemoveElement, SMTT(30)
    <3>4. Over(f, S, s \ {c}) = 0
      BY <1>3, <3>3
    <3> QED BY <3>2, <3>4
  <2> HIDE DEF Zero
  <2> QED BY <2>1
<1> HIDE DEF T
<1>4. \A n \in Nat : n \in T
  BY <1>2, <1>3, SetInduction
<1>5. Zero(S)
  BY <1>1, <1>4 DEF T
<1> QED BY <1>5, OverFacts

(* Of two functions one of which is nowhere above the other, the sums are  *)
(* equal only if the functions are.                                        *)
LEMMA SumStrict ==
  ASSUME NEW S, IsFiniteSet(S), NEW f \in [S -> Int], NEW g \in [S -> Int],
         \A x \in S : f[x] <= g[x]
  PROVE  /\ Sum(f) \in Int /\ Sum(g) \in Int /\ Sum(f) <= Sum(g)
         /\ Sum(f) = Sum(g) => \A x \in S : f[x] = g[x]
<1>1. /\ Sum(f) = Over(f, S, S) /\ Sum(g) = Over(g, S, S)
      /\ Sum(f) \in Int /\ Sum(g) \in Int
  BY OverFacts
<1>2. Sum(f) <= Sum(g)
  BY <1>1, OverCompare
<1>3. ASSUME NEW n \in S, f[n] # g[n] PROVE Sum(f) # Sum(g)
  <2>1. S \ {n} \in SUBSET S /\ S \ {n} \in SUBSET (S \cap S)
    OBVIOUS
  <2>2. /\ Over(f, S, S) = f[n] + Over(f, S, S \ {n})
        /\ Over(g, S, S) = g[n] + Over(g, S, S \ {n})
    BY OverSplit
  <2>3. PICK o \in Int : o = Over(f, S, S \ {n})
    BY <2>1, OverFacts
  <2>4. PICK q \in Int : q = Over(g, S, S \ {n})
    BY <2>1, OverFacts
  <2>5. o <= q
    BY <2>1, <2>3, <2>4, OverCompare
  <2>6. f[n] < g[n]
    BY <1>3
  <2> QED BY <1>1, <2>2, <2>3, <2>4, <2>5, <2>6
<1> QED BY <1>1, <1>2, <1>3

(* A positive sum has a positive part.                                     *)
LEMMA SumPositive ==
  ASSUME NEW S, IsFiniteSet(S), NEW f \in [S -> Int], Sum(f) > 0
  PROVE  \E x \in S : f[x] > 0
<1> SUFFICES ASSUME \A x \in S : f[x] <= 0 PROVE FALSE
  OBVIOUS
<1> DEFINE z == [x \in S |-> 0]
<1>1. z \in [S -> Int] /\ (\A x \in S : z[x] = 0) /\ (\A x \in S : f[x] <= z[x])
  OBVIOUS
<1> HIDE DEF z
<1>2. Sum(z) = 0 /\ Sum(f) <= Sum(z) /\ Sum(f) \in Int
  BY <1>1, SumZero, SumStrict
<1> QED BY <1>2

-----------------------------------------------------------------------------
(* What is left of a list without a node.                                  *)
Keep(q, x, n) == IF x = n THEN q ELSE Append(q, x)

(* k is the function by which the first m of s are looked through for n.   *)
IsKept(k, s, n, m) ==
  k = [i \in 0..m |-> IF i = 0 THEN <<>> ELSE Keep(k[i - 1], s[i], n)]

(* The recursive function in Without exists.                               *)
LEMMA KeptExists ==
  ASSUME NEW S, NEW s \in Seq(S), NEW n
  PROVE  \E k : IsKept(k, s, n, Len(s))
<1> DEFINE T == {m \in Nat : \E k : IsKept(k, s, n, m)}
<1>1. 0 \in T
  <2> DEFINE k == [i \in 0..0 |-> <<>>]
  <2>1. IsKept(k, s, n, 0)
    BY DEF IsKept
  <2> QED BY <2>1
<1>2. ASSUME NEW m \in Nat, m \in T PROVE m + 1 \in T
  <2>1. PICK k : IsKept(k, s, n, m)
    BY <1>2
  <2>2. \A i \in 0..m : k[i] = IF i = 0 THEN <<>> ELSE Keep(k[i - 1], s[i], n)
    BY <2>1 DEF IsKept
  <2> DEFINE h == [i \in 0..(m + 1) |-> IF i = 0 THEN <<>> ELSE Keep(k[i - 1], s[i], n)]
  <2>3. \A i \in 0..(m + 1) : h[i] = IF i = 0 THEN <<>> ELSE Keep(k[i - 1], s[i], n)
    OBVIOUS
  <2>4. h = [i \in 0..(m + 1) |-> h[i]]
    OBVIOUS
  <2> HIDE DEF h
  <2>5. \A i \in 0..m : h[i] = k[i]
    <3>1. ASSUME NEW i \in 0..m PROVE h[i] = k[i]
      <4>1. i \in 0..(m + 1)
        OBVIOUS
      <4> QED BY <2>2, <2>3, <4>1
    <3> QED BY <3>1
  <2>6. \A i \in 0..(m + 1) : h[i] = IF i = 0 THEN <<>> ELSE Keep(h[i - 1], s[i], n)
    <3>1. ASSUME NEW i \in 0..(m + 1), i # 0 PROVE h[i - 1] = k[i - 1]
      <4>1. i - 1 \in 0..m
        BY <3>1
      <4> QED BY <2>5, <4>1
    <3> QED BY <2>3, <3>1
  <2>7. IsKept(h, s, n, m + 1)
    BY <2>4, <2>6 DEF IsKept
  <2> QED BY <2>7
<1> HIDE DEF T
<1>3. \A m \in Nat : m \in T
  BY <1>1, <1>2, SetInduction
<1>4. Len(s) \in T
  BY <1>3
<1> QED BY <1>4 DEF T

(* A list with one more has one more listed (Selector.cc:16).              *)
LEMMA AppendListed ==
  ASSUME NEW S, NEW s \in Seq(S), NEW n \in S
  PROVE  Append(s, n) \in Seq(S) /\ Listed(Append(s, n)) = Listed(s) \cup {n}
<1> DEFINE a == Append(s, n)
<1>1. /\ a \in Seq(S) /\ Len(a) = Len(s) + 1 /\ a[Len(s) + 1] = n
      /\ \A i \in 1..Len(s) : a[i] = s[i]
  BY AppendProperties
<1> HIDE DEF a
<1>2. Listed(a) = Listed(s) \cup {n}
  BY <1>1 DEF Listed
<1> QED BY <1>1, <1>2 DEF a

(* What std::remove and erase leave: a list of all but n (Selector.cc:36). *)
LEMMA WithoutFacts ==
  ASSUME NEW S, NEW s \in Seq(S), NEW n
  PROVE  Without(s, n) \in Seq(S) /\ Listed(Without(s, n)) = Listed(s) \ {n}
<1> DEFINE k == CHOOSE g : IsKept(g, s, n, Len(s))
<1>1. IsKept(k, s, n, Len(s))
  BY KeptExists
<1>2. Without(s, n) = k[Len(s)]
  BY DEF Without, IsKept, Keep
<1> HIDE DEF k
<1>3. \A i \in 0..Len(s) : k[i] = IF i = 0 THEN <<>> ELSE Keep(k[i - 1], s[i], n)
  BY <1>1 DEF IsKept
<1> DEFINE Good(m) == /\ k[m] \in Seq(S)
                      /\ Listed(k[m]) = {s[j] : j \in 1..m} \ {n}
           T == {m \in Nat : m <= Len(s) => Good(m)}
<1>4. 0 \in T
  <2>1. k[0] = <<>>
    <3>1. 0 \in 0..Len(s)
      OBVIOUS
    <3> HIDE DEF T, Good
    <3> QED BY <1>3, <3>1, Zenon
  <2>2. Listed(<<>>) = {} /\ <<>> \in Seq(S)
    BY DEF Listed
  <2>3. {s[j] : j \in 1..0} = {}
    OBVIOUS
  <2> QED BY <2>1, <2>2, <2>3
<1>5. ASSUME NEW m \in Nat, m \in T PROVE m + 1 \in T
  <2> SUFFICES ASSUME m + 1 <= Len(s) PROVE Good(m + 1)
    OBVIOUS
  <2>1. m <= Len(s) /\ m + 1 \in 0..Len(s) /\ m + 1 \in 1..Len(s) /\ (m + 1) - 1 = m
    OBVIOUS
  <2>2. PICK x \in S : x = s[m + 1]
    BY <2>1
  <2>3. PICK q \in Seq(S) : q = k[m] /\ Listed(q) = {s[j] : j \in 1..m} \ {n}
    BY <1>5, <2>1
  <2>4. k[m + 1] = Keep(q, x, n)
    BY <1>3, <2>1, <2>2, <2>3
  <2>5. {s[j] : j \in 1..(m + 1)} = {s[j] : j \in 1..m} \cup {x}
    BY <2>2
  <2>6. CASE x = n
    BY <2>3, <2>4, <2>5, <2>6 DEF Keep
  <2>7. CASE x # n
    <3>1. k[m + 1] = Append(q, x)
      BY <2>4, <2>7 DEF Keep
    <3>2. Append(q, x) \in Seq(S) /\ Listed(Append(q, x)) = Listed(q) \cup {x}
      BY AppendListed
    <3> QED BY <2>3, <2>5, <2>7, <3>1, <3>2
  <2> QED BY <2>6, <2>7
<1> HIDE DEF T
<1>6. \A m \in Nat : m \in T
  BY <1>4, <1>5, SetInduction
<1>7. Len(s) \in T
  BY <1>6
<1>8. Listed(s) = {s[j] : j \in 1..Len(s)}
  BY DEF Listed
<1> QED BY <1>2, <1>7, <1>8 DEF T

-----------------------------------------------------------------------------
(* What every step leaves of the list, the ring and the books.             *)
SelectorTypeOK ==
  /\ group \in Seq(Nodes) /\ nodes \in Seq(Nodes) /\ shared \in BOOLEAN
  /\ phase \in {"idle", "count", "visit"} /\ at \in Nat
  /\ alive \in [Nodes -> BOOLEAN]
  /\ current \in [Nodes -> Int] /\ total \in Int
  /\ best \in Nodes \cup {None}
  /\ tally \in [Nodes -> Nat] \cup {NoTally}
  /\ phase = "visit" => at > 0
  /\ phase = "count" => at > 0

(* The weight that was given and not taken back is total's, and no node is *)
(* the best before one was given any (Selector.cc:76-85).                  *)
BooksInv ==
  /\ WeightsBalance
  /\ phase # "visit" => best = None
  /\ best = None => total = 0

(* A reader's list is a list of nodes, and what it visits is one.          *)
LEMMA ListTyped ==
  ASSUME SelectorTypeOK
  PROVE  /\ List \in Seq(Nodes)
         /\ phase # "idle" /\ at <= Len(List) => List[at] \in Nodes
  BY DEF SelectorTypeOK, List

(* The tally stays a tally.                                                *)
LEMMA CountedTyped ==
  ASSUME SelectorTypeOK, NEW n \in Nodes
  PROVE  Counted(n) \in [Nodes -> Nat] \cup {NoTally}
<1>1. CASE tally = NoTally
  BY <1>1 DEF Counted
<1>2. CASE tally \in [Nodes -> Nat] /\ tally # NoTally
  <2>1. /\ [tally EXCEPT ![n] = @ + 1] \in [Nodes -> Nat]
        /\ [m \in Nodes |-> 0] \in [Nodes -> Nat]
    BY <1>2
  <2> QED BY <1>2, <2>1 DEF Counted
<1> QED BY <1>1, <1>2 DEF SelectorTypeOK

(* What Return leaves.                                                     *)
Returned ==
  /\ group' \in Seq(Nodes) /\ nodes' \in Seq(Nodes) /\ shared' = FALSE
  /\ phase' = "idle" /\ at' = 0 /\ alive' \in [Nodes -> BOOLEAN]
  /\ total' = 0 /\ best' = None

(* Returning leaves the locals as they were before a pick                  *)
(* (Selector.cc:86-95).                                                    *)
LEMMA ReturnTyped ==
  ASSUME SelectorTypeOK, NEW n, Return(n)
  PROVE  Returned
<1>1. <<>> \in Seq(Nodes)
  OBVIOUS
<1> QED BY <1>1 DEF SelectorTypeOK, Return, Returned, groupVars

(* Each action keeps the types.                                            *)
LEMMA StepSelectorTypes ==
  ASSUME SelectorAssumption, SelectorTypeOK, [Next]_vars
  PROVE  SelectorTypeOK'
<1> USE DEF SelectorTypeOK
<1>1. CASE \E n \in Nodes : addNode(n) \/ removeNode(n)
  <2>1. PICK n \in Nodes : addNode(n) \/ removeNode(n)
    BY <1>1
  <2>2. group' \in Seq(Nodes)
    <3>1. Append(group, n) \in Seq(Nodes) /\ Without(group, n) \in Seq(Nodes)
      BY AppendListed, WithoutFacts
    <3> QED BY <2>1, <3>1 DEF addNode, removeNode, Write
  <2>3. nodes' \in Seq(Nodes) /\ shared' \in BOOLEAN
    BY <2>1, ListTyped DEF addNode, removeNode, Write
  <2> QED BY <2>1, <2>2, <2>3 DEF addNode, removeNode, Changed
<1>2. CASE \E n \in Nodes : Flip(n)
  BY <1>2 DEF Flip, groupVars, pickVars
<1>3. CASE \E h \in Hashers : TakeRing(h) \/ LookUp(h)
  BY <1>3 DEF TakeRing, LookUp, groupVars, pickVars
<1>4. CASE TakeList
  BY <1>4 DEF TakeList, groupVars
<1>5. CASE PickFromNone \/ PickNobody
  <2>1. UNCHANGED <<current, tally>> /\ Return(None)
    BY <1>5 DEF PickFromNone, PickNobody
  <2>2. UNCHANGED <<current, tally>> /\ Returned
    BY <2>1, ReturnTyped
  <2>3. /\ current' \in [Nodes -> Int] /\ tally' \in [Nodes -> Nat] \cup {NoTally}
    BY <2>2
  <2>4. /\ group' \in Seq(Nodes) /\ nodes' \in Seq(Nodes) /\ shared' \in BOOLEAN
    BY <2>2 DEF Returned
  <2>5. /\ phase' = "idle" /\ at' = 0 /\ alive' \in [Nodes -> BOOLEAN]
        /\ total' = 0 /\ best' = None
    BY <2>2 DEF Returned
  <2> QED BY <2>3, <2>4, <2>5
<1>6. CASE CountNode \/ JudgePanic \/ SkipNode
  BY <1>6, SMTT(30) DEF CountNode, JudgePanic, SkipNode, groupVars
<1>7. CASE VisitNode
  <2>1. List[at] \in Nodes /\ Weight[List[at]] \in Int
    BY <1>7, ListTyped DEF VisitNode, Visiting, SelectorAssumption
  <2>2. /\ current' \in [Nodes -> Int] /\ total' \in Int /\ best' \in Nodes \cup {None}
    BY <1>7, <2>1 DEF VisitNode
  <2> QED BY <1>7, <2>2 DEF VisitNode, Visiting, groupVars
<1>8. CASE PickBest
  <2>1. best \in Nodes /\ total \in Int /\ Return(best)
    BY <1>8 DEF PickBest
  <2>2. tally' \in [Nodes -> Nat] \cup {NoTally} /\ current' \in [Nodes -> Int]
    BY <1>8, <2>1, CountedTyped DEF PickBest
  <2>3. Returned
    BY <2>1, ReturnTyped
  <2>4. /\ group' \in Seq(Nodes) /\ nodes' \in Seq(Nodes) /\ shared' \in BOOLEAN
    BY <2>3 DEF Returned
  <2>5. /\ phase' = "idle" /\ at' = 0 /\ alive' \in [Nodes -> BOOLEAN]
        /\ total' = 0 /\ best' = None
    BY <2>3 DEF Returned
  <2> QED BY <2>2, <2>4, <2>5
<1>9. CASE UNCHANGED vars
  BY <1>9 DEF vars, groupVars, pickVars
<1> QED
  BY <1>1, <1>2, <1>3, <1>4, <1>5, <1>6, <1>7, <1>8, <1>9 DEF Next, Pick

(* A weight given or taken back is a change of the sum of current_weight_  *)
(* (Selector.cc:79, 87).                                                   *)
LEMMA CurrentShifted ==
  ASSUME IsFiniteSet(Nodes), current \in [Nodes -> Int], NEW n \in Nodes, NEW d \in Int,
         current' = [current EXCEPT ![n] = @ + d]
  PROVE  Sum(current') = Sum(current) + d /\ Sum(current) \in Int
<1>1. Sum([current EXCEPT ![n] = @ + d]) = Sum(current) + d /\ Sum(current) \in Int
  BY SumShifted, ZenonT(60)
<1> QED BY <1>1

(* Giving adds to both sides of the books, taking back clears both, and    *)
(* nobody else writes in them (Selector.cc:76-87).                         *)
LEMMA StepBooks ==
  ASSUME SelectorAssumption, SelectorTypeOK, BooksInv, [Next]_vars
  PROVE  BooksInv'
<1> USE DEF SelectorTypeOK, BooksInv, WeightsBalance
<1>1. IsFiniteSet(Nodes) /\ None \notin Nodes /\ current' \in [Nodes -> Int]
  BY StepSelectorTypes DEF SelectorAssumption
<1>2. CASE \E n \in Nodes : addNode(n) \/ removeNode(n) \/ Flip(n)
  BY <1>2 DEF addNode, removeNode, Flip, Changed, pickVars
<1>3. CASE \E h \in Hashers : TakeRing(h) \/ LookUp(h)
  BY <1>3 DEF TakeRing, LookUp, pickVars
<1>4. CASE TakeList \/ PickFromNone \/ PickNobody \/ CountNode \/ JudgePanic \/ SkipNode
  BY <1>4 DEF TakeList, PickFromNone, PickNobody, Return, CountNode, JudgePanic, SkipNode
<1>5. CASE VisitNode
  <2>1. PICK n \in Nodes : n = List[at]
    BY <1>5, ListTyped DEF VisitNode, Visiting
  <2>2. PICK w \in Nat : w = Weight[n]
    BY DEF SelectorAssumption
  <2>3. /\ current' = [current EXCEPT ![n] = @ + w] /\ total' = total + w
        /\ best' \in {n, best} /\ (best = None => best' = n) /\ phase' = "visit"
    BY <1>5, <2>1, <2>2 DEF VisitNode, Visiting
  <2>4. w \in Int /\ current \in [Nodes -> Int]
    OBVIOUS
  <2>5. current' = [current EXCEPT ![n] = @ + w]
    BY <2>3
  <2>6. Sum(current') = Sum(current) + w
    BY <1>1, <2>4, <2>5, CurrentShifted
  <2> QED BY <1>1, <2>3, <2>6
<1>6. CASE PickBest
  <2>1. PICK d \in Int : d = 0 - total
    OBVIOUS
  <2>2. /\ best \in Nodes /\ current' = [current EXCEPT ![best] = @ - total]
        /\ total' = 0 /\ best' = None
    BY <1>6 DEF PickBest, Return
  <2>3. current' = [current EXCEPT ![best] = @ + d]
    <3>1. current[best] - total = current[best] + d
      BY <2>1, <2>2
    <3> QED BY <2>2, <3>1
  <2>4. Sum(current') = Sum(current) + d
    BY <1>1, <2>2, <2>3, CurrentShifted
  <2> QED BY <2>1, <2>2, <2>4
<1>7. CASE UNCHANGED vars
  BY <1>7 DEF vars, pickVars
<1> QED
  BY <1>2, <1>3, <1>4, <1>5, <1>6, <1>7 DEF Next, Pick

(* The selector starts with its books at zero and a ring of its list.      *)
LEMMA SelectorStarts ==
  ASSUME SelectorAssumption, Init
  PROVE  SelectorTypeOK /\ BooksInv /\ RingMatchesGroup
<1>1. /\ group \in Seq(Nodes) /\ nodes \in Seq(Nodes) /\ shared = FALSE
      /\ phase = "idle" /\ at = 0 /\ total = 0 /\ best = None
  <2>1. Initial \in Seq(Nodes) /\ <<>> \in Seq(Nodes)
    <3>1. Initial \in Seq(Nodes)
      BY DEF SelectorAssumption
    <3> QED BY <3>1
  <2>2. group = Initial \/ group = <<>>
    BY DEF Init
  <2>3. /\ nodes = <<>> /\ shared = FALSE
        /\ phase = "idle" /\ at = 0 /\ total = 0 /\ best = None
    BY DEF Init
  <2> QED BY <2>1, <2>2, <2>3
<1>2. /\ alive \in [Nodes -> BOOLEAN] /\ current \in [Nodes -> Int]
      /\ tally \in [Nodes -> Nat] /\ \A x \in Nodes : current[x] = 0
  <2>1. /\ alive = [x \in Nodes |-> TRUE] /\ current = [x \in Nodes |-> 0]
        /\ tally = [x \in Nodes |-> 0]
    BY DEF Init
  <2>2. alive \in [Nodes -> BOOLEAN]
    BY <2>1
  <2> QED BY <2>1, <2>2
<1>3. SelectorTypeOK
  <2>1. shared \in BOOLEAN
    BY <1>1
  <2>2. /\ phase \in {"idle", "count", "visit"} /\ phase # "visit" /\ phase # "count"
        /\ at \in Nat /\ total \in Int /\ best \in Nodes \cup {None}
    BY <1>1
  <2>3. tally \in [Nodes -> Nat] \cup {NoTally}
    BY <1>2
  <2> QED BY <1>1, <1>2, <2>1, <2>2, <2>3 DEF SelectorTypeOK
<1>4. Sum(current) = 0
  <2>1. IsFiniteSet(Nodes)
    BY DEF SelectorAssumption
  <2> QED BY <1>2, <2>1, SumZero
<1>5. RingMatchesGroup
  BY DEF Init, RingMatchesGroup
<1> QED BY <1>1, <1>3, <1>4, <1>5 DEF BooksInv, WeightsBalance

-----------------------------------------------------------------------------
(* The ring of some nodes: no two nodes have a point in common.            *)
LEMMA RingFacts ==
  ASSUME SelectorAssumption, NEW L \in SUBSET Nodes
  PROVE  /\ DOMAIN RingOf(L) = UNION {Place[n] : n \in L}
         /\ \A n \in L : \A p \in Place[n] : RingOf(L)[p] = n
         /\ \A p \in DOMAIN RingOf(L) :
              p \in Nat /\ RingOf(L)[p] \in L /\ p \in Place[RingOf(L)[p]]
<1>1. DOMAIN RingOf(L) = UNION {Place[n] : n \in L}
  BY DEF RingOf
<1>2. ASSUME NEW n \in L, NEW p \in Place[n] PROVE RingOf(L)[p] = n
  <2>1. \A m \in L : p \in Place[m] => m = n
    <3>1. \A m \in Nodes : m # n => Place[m] \cap Place[n] = {}
      BY DEF SelectorAssumption
    <3> QED BY <3>1
  <2>2. (CHOOSE m \in L : p \in Place[m]) = n
    BY <2>1
  <2>3. p \in UNION {Place[m] : m \in L}
    OBVIOUS
  <2> QED BY <2>2, <2>3 DEF RingOf
<1>3. ASSUME NEW p \in DOMAIN RingOf(L)
      PROVE  p \in Nat /\ RingOf(L)[p] \in L /\ p \in Place[RingOf(L)[p]]
  <2>1. PICK n \in L : p \in Place[n]
    BY <1>1
  <2>2. p \in Nat
    <3>1. Place[n] \in SUBSET Points /\ Points \subseteq Nat
      BY DEF SelectorAssumption
    <3> QED BY <2>1, <3>1
  <2> QED BY <1>2, <2>1, <2>2
<1> QED BY <1>1, <1>2, <1>3

(* A node added to the ring takes its own points (Selector.cc:24-28).      *)
LEMMA RingGrows ==
  ASSUME SelectorAssumption, NEW L \in SUBSET Nodes, NEW n \in Nodes
  PROVE  RingOf(L \cup {n})
           = [p \in DOMAIN RingOf(L) \cup Place[n] |->
                IF p \in Place[n] THEN n ELSE RingOf(L)[p]]
<1> DEFINE M == L \cup {n}
           g == [p \in DOMAIN RingOf(L) \cup Place[n] |->
                   IF p \in Place[n] THEN n ELSE RingOf(L)[p]]
<1>1. M \in SUBSET Nodes /\ n \in M /\ \A m \in M : m \in L \/ m = n
  OBVIOUS
<1>2. /\ DOMAIN RingOf(L) = UNION {Place[m] : m \in L}
      /\ \A m \in L : \A p \in Place[m] : RingOf(L)[p] = m
  BY RingFacts
<1>3. UNION {Place[m] : m \in M} = (UNION {Place[m] : m \in L}) \cup Place[n]
  OBVIOUS
<1> HIDE DEF M
<1>4. /\ DOMAIN RingOf(M) = UNION {Place[m] : m \in M}
      /\ \A m \in M : \A p \in Place[m] : RingOf(M)[p] = m
      /\ \A p \in DOMAIN RingOf(M) : RingOf(M)[p] \in M /\ p \in Place[RingOf(M)[p]]
  BY <1>1, RingFacts
<1>5. DOMAIN RingOf(M) = DOMAIN RingOf(L) \cup Place[n]
  BY <1>2, <1>3, <1>4
<1>6. ASSUME NEW p \in DOMAIN RingOf(M) PROVE RingOf(M)[p] = g[p]
  <2>1. CASE p \in Place[n]
    BY <1>1, <1>4, <1>5, <2>1
  <2>2. CASE p \notin Place[n]
    <3>1. PICK m \in M : p \in Place[m] /\ RingOf(M)[p] = m
      BY <1>4
    <3>2. m \in L
      BY <1>1, <2>2, <3>1
    <3>3. RingOf(L)[p] = m
      BY <1>2, <3>1, <3>2
    <3> QED BY <1>5, <2>2, <3>1, <3>3
  <2> QED BY <2>1, <2>2
<1>7. RingOf(M) = [p \in DOMAIN RingOf(M) |-> RingOf(M)[p]]
  BY DEF RingOf
<1>8. g = [p \in DOMAIN RingOf(M) |-> g[p]]
  BY <1>5
<1> HIDE DEF g
<1>9. RingOf(M) = g
  BY <1>6, <1>7, <1>8
<1> QED BY <1>9 DEF g, M

(* A node taken from the ring leaves no point behind (Selector.cc:43-47).  *)
LEMMA RingShrinks ==
  ASSUME SelectorAssumption, NEW L \in SUBSET Nodes, NEW n \in Nodes
  PROVE  RingOf(L \ {n}) = [p \in DOMAIN RingOf(L) \ Place[n] |-> RingOf(L)[p]]
<1> DEFINE M == L \ {n}
           g == [p \in DOMAIN RingOf(L) \ Place[n] |-> RingOf(L)[p]]
<1>1. M \in SUBSET Nodes /\ \A m \in M : m \in L
  OBVIOUS
<1>2. /\ DOMAIN RingOf(L) = UNION {Place[m] : m \in L}
      /\ \A m \in L : \A p \in Place[m] : RingOf(L)[p] = m
  BY RingFacts
<1>3. UNION {Place[m] : m \in M} = (UNION {Place[m] : m \in L}) \ Place[n]
  <2>1. \A m \in M : Place[m] \cap Place[n] = {}
    BY DEF SelectorAssumption
  <2>2. ASSUME NEW p PROVE (\E m \in M : p \in Place[m])
                             <=> (\E m \in L : p \in Place[m]) /\ p \notin Place[n]
    BY <2>1
  <2> QED BY <2>2
<1> HIDE DEF M
<1>4. /\ DOMAIN RingOf(M) = UNION {Place[m] : m \in M}
      /\ \A p \in DOMAIN RingOf(M) : RingOf(M)[p] \in M /\ p \in Place[RingOf(M)[p]]
  BY <1>1, RingFacts
<1>5. DOMAIN RingOf(M) = DOMAIN RingOf(L) \ Place[n]
  BY <1>2, <1>3, <1>4
<1>6. ASSUME NEW p \in DOMAIN RingOf(M) PROVE RingOf(M)[p] = g[p]
  <2>1. PICK m \in M : p \in Place[m] /\ RingOf(M)[p] = m
    BY <1>4
  <2>2. RingOf(L)[p] = m
    BY <1>1, <1>2, <2>1
  <2> QED BY <1>5, <2>1, <2>2
<1>7. RingOf(M) = [p \in DOMAIN RingOf(M) |-> RingOf(M)[p]]
  BY DEF RingOf
<1>8. g = [p \in DOMAIN RingOf(M) |-> g[p]]
  BY <1>5
<1> HIDE DEF g
<1>9. RingOf(M) = g
  BY <1>6, <1>7, <1>8
<1> QED BY <1>9 DEF g, M

(* What is listed are nodes.                                               *)
LEMMA ListedTyped ==
  ASSUME NEW S, NEW s \in Seq(S)
  PROVE  Listed(s) \in SUBSET S
  BY DEF Listed

(* Only addNode and removeNode write to the list and the ring.             *)
LEMMA OthersKeepTheList ==
  ASSUME [Next]_vars, ~(\E n \in Nodes : addNode(n) \/ removeNode(n))
  PROVE  UNCHANGED groupVars
<1>1. CASE Pick \/ TakeList
  BY <1>1 DEF Pick, PickFromNone, PickNobody, Return, CountNode, JudgePanic,
              SkipNode, VisitNode, Visiting, PickBest, TakeList
<1>2. CASE \E h \in Hashers : TakeRing(h) \/ LookUp(h)
  BY <1>2 DEF TakeRing, LookUp
<1>3. CASE \E n \in Nodes : Flip(n)
  BY <1>3 DEF Flip
<1> QED BY <1>1, <1>2, <1>3 DEF Next, vars

(* Each action keeps the ring the list's.                                  *)
LEMMA StepRing ==
  ASSUME SelectorAssumption, SelectorTypeOK, RingMatchesGroup, [Next]_vars
  PROVE  RingMatchesGroup'
<1> USE DEF RingMatchesGroup
<1>1. group \in Seq(Nodes) /\ Listed(group) \in SUBSET Nodes
  BY ListedTyped DEF SelectorTypeOK
<1>2. ASSUME NEW n \in Nodes, addNode(n) PROVE RingMatchesGroup'
  <2>1. Listed(group') = Listed(group) \cup {n}
    BY <1>1, <1>2, AppendListed DEF addNode, Write
  <2>2. ring' = [p \in DOMAIN RingOf(Listed(group)) \cup Place[n] |->
                   IF p \in Place[n] THEN n ELSE RingOf(Listed(group))[p]]
    BY <1>2 DEF addNode, Write
  <2> QED BY <1>1, <2>1, <2>2, RingGrows
<1>3. ASSUME NEW n \in Nodes, removeNode(n) PROVE RingMatchesGroup'
  <2>1. Listed(group') = Listed(group) \ {n}
    BY <1>1, <1>3, WithoutFacts DEF removeNode, Write
  <2>2. ring' = [p \in DOMAIN RingOf(Listed(group)) \ Place[n] |->
                   RingOf(Listed(group))[p]]
    BY <1>3 DEF removeNode, Write
  <2> QED BY <1>1, <2>1, <2>2, RingShrinks
<1>4. CASE ~(\E n \in Nodes : addNode(n) \/ removeNode(n))
  BY <1>4, OthersKeepTheList DEF groupVars
<1> QED BY <1>2, <1>3, <1>4

(* Whatever nodes come and go, the ring holds the virtual nodes of those   *)
(* that are listed and of no other (Selector.cc:16-28, 36-47).             *)
THEOREM TheRingMatches == Spec => []RingMatchesGroup
<1>1. Init => SelectorTypeOK /\ RingMatchesGroup
  BY SelectorAssumption, SelectorStarts
<1>2. SelectorTypeOK /\ RingMatchesGroup /\ [Next]_vars
        => (SelectorTypeOK /\ RingMatchesGroup)'
  BY SelectorAssumption, StepSelectorTypes, StepRing
<1> QED BY <1>1, <1>2, PTL DEF Spec

(* The weights add up, at every step of a pick and of what the others do   *)
(* meanwhile, to what the pick has given out and not yet taken back        *)
(* (Selector.cc:76-87).                                                    *)
THEOREM TheBooksBalance == Spec => []WeightsBalance
<1>1. Init => SelectorTypeOK /\ BooksInv
  BY SelectorAssumption, SelectorStarts
<1>2. SelectorTypeOK /\ BooksInv /\ [Next]_vars => (SelectorTypeOK /\ BooksInv)'
  BY SelectorAssumption, StepSelectorTypes, StepBooks
<1>3. BooksInv => WeightsBalance
  BY DEF BooksInv
<1> QED BY <1>1, <1>2, <1>3, PTL DEF Spec

-----------------------------------------------------------------------------
(* The types of what the threads that hash hold.                           *)
HashTypeOK ==
  /\ hashing \in [Hashers -> BOOLEAN] /\ sharedRing \in [Hashers -> BOOLEAN]
  /\ ringOf = [h \in Hashers |-> ringOf[h]]

(* Each thread has its own pointer to a ring.                              *)
LEMMA HashTypes ==
  /\ Init => HashTypeOK
  /\ HashTypeOK /\ [Next]_vars => HashTypeOK'
<1>1. Init => HashTypeOK
  BY DEF Init, HashTypeOK
<1>2. ASSUME HashTypeOK, [Next]_vars PROVE HashTypeOK'
  <2>1. CASE \E n \in Nodes : addNode(n) \/ removeNode(n)
    <3>1. /\ ringOf' = [h \in Hashers |-> Ring(h)] /\ hashing' = hashing
          /\ sharedRing' = [h \in Hashers |-> FALSE]
      BY <2>1 DEF addNode, removeNode, Write, Changed
    <3> QED BY <1>2, <3>1 DEF HashTypeOK
  <2>2. CASE \E g \in Hashers : TakeRing(g) \/ LookUp(g)
    BY <1>2, <2>2 DEF HashTypeOK, TakeRing, LookUp
  <2>3. ASSUME ~(\E n \in Nodes : addNode(n) \/ removeNode(n)),
               ~(\E g \in Hashers : TakeRing(g) \/ LookUp(g))
        PROVE  UNCHANGED hashVars
    BY <1>2, <2>3 DEF Next, Pick, TakeList, PickFromNone, PickNobody, PickBest, Return,
       CountNode, JudgePanic, SkipNode, VisitNode, Visiting, Flip, vars
  <2> QED BY <1>2, <2>1, <2>2, <2>3 DEF HashTypeOK, hashVars
<1> QED BY <1>1, <1>2

(* A writer leaves the readers what they point to, and a reader moves no   *)
(* pointer but its own.                                                    *)
LEMMA StepSnapshots ==
  ASSUME HashTypeOK, [Next]_vars
  PROVE  /\ phase # "idle" /\ phase' # "idle" => List' = List
         /\ \A h \in Hashers : hashing[h] /\ hashing'[h] => Ring(h)' = Ring(h)
<1> DEFINE Frozen == /\ phase # "idle" /\ phase' # "idle" => List' = List
                     /\ \A h \in Hashers : hashing[h] /\ hashing'[h] => Ring(h)' = Ring(h)
<1>1. CASE \E n \in Nodes : addNode(n) \/ removeNode(n)
  <2>1. /\ shared' = FALSE /\ nodes' = List
        /\ ringOf' = [h \in Hashers |-> Ring(h)]
        /\ sharedRing' = [h \in Hashers |-> FALSE]
    BY <1>1 DEF addNode, removeNode, Write
  <2>2. \A h \in Hashers : ringOf'[h] = Ring(h) /\ sharedRing'[h] = FALSE
    BY <2>1
  <2> QED BY <2>1, <2>2 DEF List, Ring
<1>2. CASE \E n \in Nodes : Flip(n)
  BY <1>2 DEF Flip, groupVars, pickVars, hashVars, List, Ring
<1>3. CASE \E g \in Hashers : TakeRing(g) \/ LookUp(g)
  <2>1. PICK g \in Hashers : TakeRing(g) \/ LookUp(g)
    BY <1>3
  <2>2. /\ UNCHANGED <<ring, group, nodes, shared, phase>>
        /\ \A h \in Hashers \ {g} :
             ringOf'[h] = ringOf[h] /\ sharedRing'[h] = sharedRing[h]
        /\ ~(hashing[g] /\ hashing'[g])
    BY <2>1 DEF HashTypeOK, TakeRing, LookUp, groupVars, pickVars
  <2> QED BY <2>2 DEF List, Ring
<1>4. CASE TakeList \/ PickFromNone \/ PickNobody \/ PickBest
  BY <1>4 DEF TakeList, PickFromNone, PickNobody, PickBest, Return, groupVars,
              hashVars, Ring
<1>5. CASE CountNode \/ JudgePanic \/ SkipNode \/ VisitNode
  BY <1>5 DEF CountNode, JudgePanic, SkipNode, VisitNode, Visiting, groupVars,
              hashVars, Ring, List
<1>6. CASE UNCHANGED vars
  BY <1>6 DEF vars, groupVars, pickVars, hashVars, Ring, List
<1> QED BY <1>1, <1>2, <1>3, <1>4, <1>5, <1>6 DEF Next, Pick

(* A reader that has taken its pointer and let go of the lock reads one    *)
(* list, and one ring, to the end, whatever is written meanwhile           *)
(* (Selector.cc:9-20, 32-41, 54-60, 98-104).                               *)
THEOREM SnapshotsStayAsTaken == Spec => SnapshotsFrozen
<1>1. HashTypeOK /\ [Next]_vars =>
        [/\ phase # "idle" /\ phase' # "idle" => List' = List
         /\ \A h \in Hashers : hashing[h] /\ hashing'[h] => Ring(h)' = Ring(h)]_vars
  BY StepSnapshots
<1> QED BY <1>1, HashTypes, PTL DEF Spec, SnapshotsFrozen

-----------------------------------------------------------------------------
(* A nonempty set of numbers has a least one.                              *)
LEMMA MinFacts ==
  ASSUME NEW D \in SUBSET Nat, D # {}
  PROVE  /\ Min(D) \in D /\ \A y \in D : Min(D) <= y
         /\ \A x \in D : (\A y \in D : x <= y) => Min(D) = x
<1>1. \E x \in D : \A y \in D : x <= y
  <2>1. PICK x \in D : \A y \in D : <<y, x>> \notin OpToRel(<, Nat)
    BY NatLessThanWellFounded, WFMin
  <2>2. \A y \in D : ~(y < x)
    BY <2>1 DEF OpToRel
  <2> QED BY <2>2
<1>2. Min(D) \in D /\ \A y \in D : Min(D) <= y
  BY <1>1 DEF Min
<1>3. ASSUME NEW x \in D, \A y \in D : x <= y PROVE Min(D) = x
  <2>1. x <= Min(D) /\ Min(D) <= x
    BY <1>2, <1>3
  <2>2. PICK m \in Nat : m = Min(D)
    BY <1>2
  <2> QED BY <2>1, <2>2
<1> QED BY <1>2, <1>3

(* Where a hash value falls among some points. *)
Near(D, v) == LET after == {p \in D : p >= v} IN IF after # {} THEN after ELSE D

(* If the nearest point is among fewer points, it is the nearest of those. *)
LEMMA NearFacts ==
  ASSUME NEW D \in SUBSET Nat, D # {}, NEW v \in Nat, NEW E \in SUBSET D
  PROVE  /\ Near(D, v) \in SUBSET D /\ Near(D, v) # {}
         /\ E # {} /\ Min(Near(D, v)) \in E => Min(Near(E, v)) = Min(Near(D, v))
<1>1. Near(D, v) \in SUBSET D /\ Near(D, v) # {}
  BY DEF Near
<1>2. ASSUME E # {}, Min(Near(D, v)) \in E PROVE Min(Near(E, v)) = Min(Near(D, v))
  <2>1. PICK p \in Nat : p = Min(Near(D, v)) /\ p \in Near(D, v)
                          /\ \A y \in Near(D, v) : p <= y
    BY <1>1, MinFacts
  <2>2. p \in Near(E, v) /\ \A y \in Near(E, v) : p <= y
    BY <1>2, <2>1 DEF Near
  <2>3. Near(E, v) \in SUBSET Nat /\ Near(E, v) # {}
    BY <1>2 DEF Near
  <2> QED BY <2>1, <2>2, <2>3, MinFacts
<1> QED BY <1>1, <1>2

(* A node that is new to the ring takes keys of others, and moves no other *)
(* key.                                                                    *)
LEMMA NewcomerTakes ==
  ASSUME SelectorAssumption, NEW L \in SUBSET Nodes, NEW n \in Nodes, NEW key \in Keys
  PROVE  \/ Route(RingOf(L \cup {n}), key) \in {Route(RingOf(L), key), n}
         \/ Route(RingOf(L), key) = None
<1> DEFINE r == RingOf(L)
           q == RingOf(L \cup {n})
           v == Hash[key]
<1>1. DOMAIN r \in SUBSET Nat /\ v \in Nat
  <2>1. DOMAIN r \in SUBSET Nat
    BY RingFacts
  <2>2. v \in Nat
    BY DEF SelectorAssumption
  <2> QED BY <2>1, <2>2
<1>2. /\ DOMAIN q = DOMAIN r \cup Place[n] /\ DOMAIN q \in SUBSET Nat
      /\ \A p \in DOMAIN q : q[p] = n \/ (p \in DOMAIN r /\ q[p] = r[p])
  <2>1. q = [p \in DOMAIN r \cup Place[n] |-> IF p \in Place[n] THEN n ELSE r[p]]
    BY RingGrows
  <2>2. Place[n] \in SUBSET Nat
    <3>1. Place[n] \in SUBSET Points /\ Points \subseteq Nat
      BY DEF SelectorAssumption
    <3> QED BY <3>1
  <2> HIDE DEF q, r
  <2> QED BY <1>1, <2>1, <2>2
<1> HIDE DEF q, r, v
<1>3. SUFFICES ASSUME DOMAIN r # {} PROVE Route(q, key) \in {Route(r, key), n}
  BY <1>3 DEF Route, q, r
<1>4. PICK p : p = Min(Near(DOMAIN q, v)) /\ p \in DOMAIN q
  BY <1>1, <1>2, <1>3, NearFacts, MinFacts
<1>5. DOMAIN q # {} /\ Route(q, key) = q[p]
  BY <1>3, <1>2, <1>4 DEF Route, Near, v
<1>6. Route(r, key) = r[Min(Near(DOMAIN r, v))]
  BY <1>3 DEF Route, Near, v
<1>7. p \in DOMAIN r => Min(Near(DOMAIN r, v)) = p
  BY <1>1, <1>2, <1>3, <1>4, <1>5, NearFacts
<1> QED BY <1>2, <1>4, <1>5, <1>6, <1>7

(* Each action moves keys to newcomers or from leavers only.               *)
LEMMA StepRoutes ==
  ASSUME SelectorAssumption, SelectorTypeOK, RingMatchesGroup, [Next]_vars,
         NEW key \in Keys
  PROVE  \/ Route(ring', key) = Route(ring, key)
         \/ Route(ring, key) \in (Nodes \ Listed(group')) \cup {None}
         \/ Route(ring', key) \in (Nodes \ Listed(group)) \cup {None}
<1>1. /\ group \in Seq(Nodes) /\ Listed(group) \in SUBSET Nodes
      /\ ring = RingOf(Listed(group))
  BY ListedTyped DEF SelectorTypeOK, RingMatchesGroup
<1>2. ring' = RingOf(Listed(group'))
  BY StepRing DEF RingMatchesGroup
<1>3. ASSUME NEW n \in Nodes, addNode(n)
      PROVE  \/ Route(ring', key) = Route(ring, key) \/ Route(ring, key) = None
             \/ Route(ring', key) \in Nodes \ Listed(group)
  <2>1. Listed(group') = Listed(group) \cup {n}
    BY <1>1, <1>3, AppendListed DEF addNode, Write
  <2>2. CASE n \in Listed(group)
    <3>1. Listed(group') = Listed(group)
      BY <2>1, <2>2
    <3> QED BY <1>1, <1>2, <3>1
  <2>3. CASE n \notin Listed(group)
    <3> DEFINE old == Listed(group)
               r == Route(RingOf(old), key)
               q == Route(RingOf(old \cup {n}), key)
    <3>1. q \in {r, n} \/ r = None
      BY <1>1, NewcomerTakes
    <3>2. q = Route(ring', key) /\ r = Route(ring, key)
      BY <1>1, <1>2, <2>1
    <3> HIDE DEF q, r
    <3> QED BY <2>3, <3>1, <3>2
  <2> QED BY <2>2, <2>3
<1>4. ASSUME NEW n \in Nodes, removeNode(n)
      PROVE  \/ Route(ring', key) = Route(ring, key) \/ Route(ring', key) = None
             \/ Route(ring, key) \in Nodes \ Listed(group')
  <2>1. Listed(group') = Listed(group) \ {n}
    BY <1>1, <1>4, WithoutFacts DEF removeNode, Write
  <2>2. CASE n \notin Listed(group)
    <3>1. Listed(group') = Listed(group)
      BY <2>1, <2>2
    <3> QED BY <1>1, <1>2, <3>1
  <2>3. CASE n \in Listed(group)
    <3>1. Listed(group') \in SUBSET Nodes /\ Listed(group) = Listed(group') \cup {n}
      BY <1>1, <2>1, <2>3
    <3> DEFINE new == Listed(group')
               r == Route(RingOf(new), key)
               q == Route(RingOf(new \cup {n}), key)
    <3>2. q \in {r, n} \/ r = None
      BY <3>1, NewcomerTakes
    <3>3. r = Route(ring', key) /\ q = Route(ring, key) /\ n \notin new
      BY <1>1, <1>2, <2>1, <3>1
    <3> HIDE DEF q, r
    <3> QED BY <3>2, <3>3
  <2> QED BY <2>2, <2>3
<1>5. CASE ~(\E n \in Nodes : addNode(n) \/ removeNode(n))
  BY <1>5, OthersKeepTheList DEF groupVars
<1> QED BY <1>3, <1>4, <1>5

(* README.md:69: whatever node comes or goes, a key moves only to a node   *)
(* that has come or from one that has gone (Selector.cc:24-28, 43-47,      *)
(* 103-112).                                                               *)
THEOREM OtherKeysStay == Spec => OnlyAffectedKeysMove
<1>1. Init => SelectorTypeOK /\ RingMatchesGroup
  BY SelectorAssumption, SelectorStarts
<1>2. SelectorTypeOK /\ RingMatchesGroup /\ [Next]_vars
        => (SelectorTypeOK /\ RingMatchesGroup)'
  BY SelectorAssumption, StepSelectorTypes, StepRing
<1>3. SelectorTypeOK /\ RingMatchesGroup /\ [Next]_vars =>
        [\A key \in Keys :
           \/ Route(ring', key) = Route(ring, key)
           \/ Route(ring, key) \in (Nodes \ Listed(group')) \cup {None}
           \/ Route(ring', key) \in (Nodes \ Listed(group)) \cup {None}]_vars
  BY SelectorAssumption, StepRoutes
<1> QED BY <1>1, <1>2, <1>3, PTL DEF Spec, OnlyAffectedKeysMove

-----------------------------------------------------------------------------
(* The shares.  What is zero outside a set adds nothing.                   *)
LEMMA OverInside ==
  ASSUME NEW S, IsFiniteSet(S), NEW f \in [S -> Int], NEW r \in SUBSET S,
         \A x \in S \ r : f[x] = 0
  PROVE  \A s \in SUBSET S : Over(f, S, s) = Over(f, S, s \cap r)
<1> DEFINE Inside(s) == Over(f, S, s) = Over(f, S, s \cap r)
           T == {n \in Nat : \A s \in SUBSET S : Cardinality(s) = n => Inside(s)}
<1>1. \A s \in SUBSET S : IsFiniteSet(s) /\ Cardinality(s) \in Nat
  BY FS_Subset, FS_CardinalityType
<1>2. 0 \in T
  <2>1. ASSUME NEW s \in SUBSET S, Cardinality(s) = 0 PROVE Inside(s)
    <3>1. s = {} /\ s \cap r = s
      BY <1>1, <2>1, FS_EmptySet
    <3> QED BY <3>1
  <2> HIDE DEF Inside
  <2> QED BY <2>1
<1>3. ASSUME NEW n \in Nat, n \in T PROVE n + 1 \in T
  <2>1. ASSUME NEW s \in SUBSET S, Cardinality(s) = n + 1 PROVE Inside(s)
    <3>1. s # {}
      BY <2>1, FS_EmptySet
    <3>2. PICK c \in s : TRUE
      BY <3>1
    <3>3. s \ {c} \in SUBSET S /\ Cardinality(s \ {c}) = n
      <4>1. \A y \in s : Cardinality(s \ {y}) = Cardinality(s) - 1
        BY <1>1, FS_RemoveElement
      <4> QED BY <2>1, <3>2, <4>1
    <3>4. Over(f, S, s \ {c}) = Over(f, S, (s \ {c}) \cap r)
      BY <1>3, <3>3
    <3>5. Over(f, S, s) = f[c] + Over(f, S, s \ {c}) /\ Over(f, S, s \ {c}) \in Int
      BY <3>3, OverSplit, OverFacts
    <3>6. CASE c \in r
      <4>1. s \cap r \in SUBSET S /\ c \in s \cap r
        BY <3>6
      <4>2. Over(f, S, s \cap r) = f[c] + Over(f, S, (s \cap r) \ {c})
        BY <4>1, OverSplit
      <4>3. (s \cap r) \ {c} = (s \ {c}) \cap r
        OBVIOUS
      <4> QED BY <3>4, <3>5, <4>2, <4>3
    <3>7. CASE c \notin r
      <4>1. f[c] = 0 /\ s \cap r = (s \ {c}) \cap r
        BY <3>7
      <4>2. PICK o \in Int : o = Over(f, S, s \ {c})
        BY <3>5
      <4>3. Over(f, S, s) = o
        BY <3>5, <4>1, <4>2
      <4>4. Over(f, S, s \cap r) = o
        BY <3>4, <4>1, <4>2
      <4> QED BY <4>3, <4>4
    <3> QED BY <3>6, <3>7
  <2> HIDE DEF Inside
  <2> QED BY <2>1
<1> HIDE DEF T
<1>4. \A n \in Nat : n \in T
  BY <1>2, <1>3, SetInduction
<1> QED BY <1>1, <1>4 DEF T

(* A sum over a part is the sum of the function's part.                    *)
LEMMA OverOfPart ==
  ASSUME NEW S, IsFiniteSet(S), NEW f \in [S -> Int], NEW r \in SUBSET S
  PROVE  Over(f, S, r) = Sum([x \in r |-> f[x]])
<1> DEFINE g == [x \in r |-> f[x]]
<1>1. g \in [r -> Int] /\ \A x \in r : f[x] = g[x]
  OBVIOUS
<1> HIDE DEF g
<1>2. IsFiniteSet(r) /\ r \in SUBSET (S \cap r)
  BY FS_Subset
<1>3. Sum(g) = Over(g, r, r)
  BY <1>1, <1>2, OverFacts
<1>4. Over(f, S, r) = Over(g, r, r)
  BY <1>1, <1>2, OverCompare
<1> QED BY <1>3, <1>4 DEF g

(* A function that is zero elsewhere sums to what its part sums to.        *)
LEMMA SumOfPart ==
  ASSUME NEW S, IsFiniteSet(S), NEW f \in [S -> Int], NEW r \in SUBSET S,
         \A x \in S \ r : f[x] = 0
  PROVE  Sum(f) = Sum([x \in r |-> f[x]])
<1>1. S \in SUBSET S /\ S \cap r = r
  OBVIOUS
<1>2. Sum(f) = Over(f, S, S)
  BY OverFacts
<1>3. Over(f, S, S) = Over(f, S, S \cap r)
  BY <1>1, OverInside
<1>4. Over(f, S, r) = Sum([x \in r |-> f[x]])
  BY OverOfPart
<1> QED BY <1>1, <1>2, <1>3, <1>4

(* A window is full when every node has been picked as its weight says.    *)
LEMMA WindowFills ==
  ASSUME SelectorAssumption, NEW L \in SUBSET Nodes, NEW t \in [Nodes -> Nat],
         \A n \in Nodes \ L : t[n] = 0,
         \A n \in L : t[n] <= Weight[n]
  PROVE  /\ Sum(t) \in Int /\ Sum([n \in L |-> Weight[n]]) \in Int /\ 0 <= Sum(t)
         /\ Sum(t) <= Sum([n \in L |-> Weight[n]])
         /\ Sum(t) = Sum([n \in L |-> Weight[n]]) <=> \A n \in L : t[n] = Weight[n]
<1> DEFINE w == [n \in L |-> Weight[n]]
           u == [n \in L |-> t[n]]
           z == [n \in Nodes |-> 0]
<1>1. IsFiniteSet(Nodes)
  BY DEF SelectorAssumption
<1>2. IsFiniteSet(L)
  BY <1>1, FS_Subset
<1>3. w \in [L -> Int]
  <2>1. Weight \in [Nodes -> Nat]
    BY DEF SelectorAssumption
  <2> QED BY <2>1
<1>4. u \in [L -> Int]
  OBVIOUS
<1>5. z \in [Nodes -> Int]
  OBVIOUS
<1>6. t \in [Nodes -> Int]
  OBVIOUS
<1>7. \A x \in L : t[x] = u[x]
  OBVIOUS
<1>8. \A x \in L : w[x] = Weight[x]
  OBVIOUS
<1>9. \A x \in L : u[x] <= w[x]
  OBVIOUS
<1>10. (\A x \in Nodes : z[x] = 0) /\ \A x \in Nodes : z[x] <= t[x]
  OBVIOUS
<1>11. (\A n \in L : t[n] = Weight[n]) => u = w
  OBVIOUS
<1>a. \A n \in Nodes \ L : t[n] = 0
  OBVIOUS
<1> HIDE DEF w, u, z
<1>12. Sum(t) = Sum(u)
  <2>1. t \in [Nodes -> Int] /\ \A x \in Nodes \ L : t[x] = 0
    BY <1>6, <1>a
  <2>2. Sum(t) = Sum([x \in L |-> t[x]])
    BY <1>1, <2>1, SumOfPart, ZenonT(60)
  <2> QED BY <2>2 DEF u
<1>13. /\ Sum(u) \in Int /\ Sum(w) \in Int /\ Sum(u) <= Sum(w)
       /\ Sum(u) = Sum(w) => \A x \in L : u[x] = w[x]
  <2>1. \A f, g \in [L -> Int] : (\A x \in L : f[x] <= g[x]) =>
          /\ Sum(f) \in Int /\ Sum(g) \in Int /\ Sum(f) <= Sum(g)
          /\ Sum(f) = Sum(g) => \A x \in L : f[x] = g[x]
    BY <1>2, SumStrict
  <2> QED BY <1>3, <1>4, <1>9, <2>1
<1>14. 0 <= Sum(t)
  <2>1. Sum(z) = 0
    BY <1>1, <1>5, <1>10, SumZero
  <2>2. Sum(z) <= Sum(t)
    BY <1>1, <1>5, <1>6, <1>10, SumStrict
  <2> QED BY <2>1, <2>2
<1>15. (\A n \in L : t[n] = Weight[n]) => Sum(t) = Sum(w)
  BY <1>11, <1>12
<1>16. Sum(t) = Sum(w) => \A n \in L : t[n] = Weight[n]
  BY <1>7, <1>8, <1>12, <1>13
<1> QED BY <1>12, <1>13, <1>14, <1>15, <1>16 DEF w

(* The next pick goes to a node that is owed something, which keeps it     *)
(* within a pick of its share.                                             *)
LEMMA OwedIsNotAhead ==
  ASSUME NEW w \in Nat, NEW t \in Nat, NEW W \in Nat, NEW T \in Nat,
         T + 1 <= W, (T * w - t * W) + w > 0
  PROVE  t + 1 <= w /\ (t + 1) * W - (T + 1) * w < W
<1>1. t * W < (T + 1) * w
  OBVIOUS
<1>2. (T + 1) * w <= W * w
  OBVIOUS
<1>3. t < w
  <2> SUFFICES ASSUME w <= t PROVE FALSE
    OBVIOUS
  <2>1. W * w <= t * W
    OBVIOUS
  <2> QED BY <1>1, <1>2, <2>1
<1>4. (t + 1) * W = t * W + W
  OBVIOUS
<1> QED BY <1>1, <1>3, <1>4

(* Each server is on the list once: the proxies add the ServerNodes that   *)
(* main gives them, one by one, and main makes one per server              *)
(* (L4/LB_Server.h:30-32, L7/LB_Server.h:37-39, test/L4/main.cc:6-10).     *)
EachOnce == \A i, j \in DOMAIN Initial : i # j => Initial[i] # Initial[j]

(* The picks of a full window, and those of the window that have been      *)
(* made.                                                                   *)
Whole == Sum([m \in Listed(Initial) |-> Weight[m]])
Taken == Sum(tally)

(* The nodes that the pick under way has given their weight to.            *)
Seen == IF phase = "visit" THEN {group[i] : i \in 1..(at - 1)} ELSE {}

(* What a node's current_weight_ comes to: its part of the picks that were *)
(* made, less what it paid for those that it got, and its weight once it   *)
(* is seen.                                                                *)
Owed(n) == (Taken * Weight[n] - tally[n] * Whole) + (IF n \in Seen THEN Weight[n] ELSE 0)

(* While nobody has touched the nodes: every weight is what its node is    *)
(* still owed, the best is the one that is owed most, and nobody has had   *)
(* more than its share.                                                    *)
Calm ==
  /\ group \in {<<>>, Initial}
  /\ \A n \in Nodes : alive[n]
  /\ phase # "idle" => shared
  /\ phase = "visit" => at <= Len(group) + 1

GivenToSeen == /\ total = Over(Weight, Nodes, Seen)
               /\ best = None <=> Seen = {}
               /\ best # None => /\ best \in Seen
                                 /\ \A n \in Seen : current[n] <= current[best]

WeightIsOwed ==
  /\ \A n \in Listed(group) : current[n] = Owed(n)
  /\ \A n \in Nodes \ Listed(group) : current[n] = 0 /\ tally[n] = 0

WithinShare ==
  /\ \A n \in Listed(Initial) :
       tally[n] * Whole - Taken * Weight[n] < Whole /\ tally[n] <= Weight[n]
  /\ Listed(Initial) # {} => \E n \in Listed(Initial) : tally[n] # Weight[n]

ShareInv == tally # NoTally => Calm /\ GivenToSeen /\ WeightIsOwed /\ WithinShare

(* A window in which nobody has had more than its share, and somebody      *)
(* less, is not full.                                                      *)
LEMMA TallyTypes ==
  ASSUME SelectorAssumption, SelectorTypeOK, tally # NoTally, Calm, WeightIsOwed, WithinShare
  PROVE  /\ IsFiniteSet(Nodes) /\ Weight \in [Nodes -> Nat \ {0}]
         /\ Listed(Initial) \in SUBSET Nodes
         /\ tally \in [Nodes -> Nat] /\ group \in Seq(Nodes)
         /\ Taken \in Nat /\ Whole \in Nat
         /\ Listed(Initial) # {} => Taken + 1 <= Whole
<1>1. /\ IsFiniteSet(Nodes) /\ Weight \in [Nodes -> Nat \ {0}]
      /\ Initial \in Seq(Nodes)
  BY DEF SelectorAssumption
<1>2. Listed(Initial) \in SUBSET Nodes
  BY <1>1, ListedTyped
<1>3. tally \in [Nodes -> Nat] /\ group \in Seq(Nodes)
  BY DEF SelectorTypeOK
<1>4. \A n \in Nodes \ Listed(Initial) : tally[n] = 0
  <2>1. Listed(group) \subseteq Listed(Initial)
    BY DEF Calm, Listed
  <2> QED BY <2>1 DEF WeightIsOwed
<1>5. \A n \in Listed(Initial) : tally[n] <= Weight[n]
  BY DEF WithinShare
<1>6. /\ Taken \in Int /\ Whole \in Int /\ 0 <= Taken /\ Taken <= Whole
      /\ Taken = Whole <=> \A n \in Listed(Initial) : tally[n] = Weight[n]
  BY <1>2, <1>3, <1>4, <1>5, WindowFills DEF Taken, Whole
<1>7. Listed(Initial) # {} => Taken # Whole
  BY <1>6 DEF WithinShare
<1> QED BY <1>1, <1>2, <1>3, <1>6, <1>7

(* A step that gives nothing and takes nothing.                            *)
LEMMA QuietShares ==
  ASSUME ShareInv, UNCHANGED <<group, alive, current, tally>>,
         tally # NoTally =>
           /\ Seen' = Seen /\ total' = total /\ best' = best
           /\ phase' # "idle" => shared'
           /\ phase' = "visit" => at' <= Len(group) + 1
  PROVE  ShareInv'
<1> SUFFICES ASSUME tally' # NoTally
             PROVE  Calm' /\ GivenToSeen' /\ WeightIsOwed' /\ WithinShare'
  BY DEF ShareInv
<1>1. tally # NoTally
  OBVIOUS
<1>2. Calm'
  BY <1>1 DEF ShareInv, Calm
<1>3. GivenToSeen'
  BY <1>1 DEF ShareInv, GivenToSeen
<1>4. WeightIsOwed' /\ WithinShare'
  <2>1. Taken' = Taken
    BY DEF Taken
  <2>2. \A n : Owed(n)' = Owed(n)
    BY <1>1, <2>1 DEF Owed
  <2>3. WeightIsOwed'
    BY <1>1, <2>2 DEF ShareInv, WeightIsOwed
  <2>4. WithinShare'
    BY <1>1, <2>1 DEF ShareInv, WithinShare
  <2> QED BY <2>3, <2>4
<1> QED BY <1>2, <1>3, <1>4

(* A node that is visited is given its weight, and is the best if it is    *)
(* owed most (Selector.cc:79-84).                                          *)
LEMMA StepVisits ==
  ASSUME SelectorAssumption, EachOnce, SelectorTypeOK, ShareInv, tally # NoTally, VisitNode
  PROVE  ShareInv'
<1>1. Calm /\ GivenToSeen /\ WeightIsOwed /\ WithinShare
  BY DEF ShareInv
<1>2. PICK n \in Nodes : n = List[at]
  BY ListTyped DEF VisitNode, Visiting
<1>3. /\ phase = "visit" /\ phase' = "visit" /\ at' = at + 1 /\ at \in Nat /\ at > 0
      /\ UNCHANGED <<group, alive, shared, tally>>
  BY DEF SelectorTypeOK, VisitNode, Visiting, groupVars
<1>4. /\ group \in Seq(Nodes) /\ current \in [Nodes -> Int] /\ total \in Int
      /\ best \in Nodes \cup {None} /\ None \notin Nodes
  BY DEF SelectorTypeOK, SelectorAssumption
<1>5. /\ shared /\ at \in 1..Len(group) /\ n = group[at] /\ group = Initial
  <2>1. shared /\ at <= Len(group) /\ n = group[at]
    BY <1>1, <1>2, <1>3 DEF Calm, List, VisitNode, Visiting
  <2>2. group # <<>>
    BY <1>3, <2>1
  <2> QED BY <1>1, <1>3, <1>4, <2>1, <2>2 DEF Calm
<1>6. n \notin Seen /\ Seen \subseteq Nodes
  <2>1. \A i \in 1..(at - 1) : group[i] # group[at] /\ group[i] \in Nodes
    BY <1>4, <1>5 DEF EachOnce
  <2>2. Seen = {group[i] : i \in 1..(at - 1)} /\ group[at] = n
    BY <1>3, <1>5 DEF Seen
  <2>3. ASSUME n \in Seen PROVE FALSE
    <3>1. PICK i \in 1..(at - 1) : n = group[i]
      BY <2>2, <2>3
    <3> QED BY <2>1, <2>2, <3>1
  <2>4. Seen \subseteq Nodes
    BY <2>1, <2>2, Zenon
  <2> QED BY <2>3, <2>4
<1>7. Seen' = Seen \cup {n}
  <2>1. Seen = {group[i] : i \in 1..(at - 1)} /\ Seen' = {group[i] : i \in 1..at}
    BY <1>3 DEF Seen
  <2> QED BY <1>3, <1>5, <2>1
<1>8. PICK w \in Nat : w = Weight[n]
  BY DEF SelectorAssumption
<1>9. /\ current' = [current EXCEPT ![n] = @ + w] /\ total' = total + w
      /\ best' = IF best = None \/ current'[n] > current'[best] THEN n ELSE best
  BY <1>2, <1>8 DEF VisitNode
<1>10. /\ current' \in [Nodes -> Int] /\ current'[n] = current[n] + w
       /\ \A x \in Nodes \ {n} : current'[x] = current[x]
  BY <1>4, <1>9
<1>11. Calm'
  BY <1>1, <1>3, <1>5 DEF Calm
<1>12. GivenToSeen'
  <2>1. total' = Over(Weight, Nodes, Seen')
    <3>1. IsFiniteSet(Nodes) /\ Weight \in [Nodes -> Int]
      BY DEF SelectorAssumption
    <3>2. PICK q \in SUBSET Nodes : q = Seen /\ n \notin q
      BY <1>6
    <3>3. Over(Weight, Nodes, q \cup {n}) = Weight[n] + Over(Weight, Nodes, q)
      <4>1. \A e \in Nodes : e \notin q =>
              Over(Weight, Nodes, q \cup {e}) = Weight[e] + Over(Weight, Nodes, q)
        BY <3>1, OverGrows, ZenonT(60)
      <4> QED BY <3>2, <4>1
    <3>4. Over(Weight, Nodes, q) = total
      BY <1>1, <3>2 DEF GivenToSeen
    <3>5. Seen' = q \cup {n}
      BY <1>7, <3>2
    <3>6. Weight[n] + total = total + w
      BY <1>4, <1>8
    <3> QED BY <1>9, <3>3, <3>4, <3>5, <3>6
  <2>2. CASE best = None
    <3>1. Seen' = {n} /\ best' = n
      BY <1>1, <1>7, <1>9, <2>2 DEF GivenToSeen
    <3> QED BY <1>4, <1>10, <2>1, <3>1 DEF GivenToSeen
  <2>3. CASE best # None
    <3>1. best \in Seen /\ best \in Nodes /\ best # n
          /\ \A x \in Seen : x \in Nodes \ {n} /\ current[x] <= current[best]
      BY <1>1, <1>4, <1>6, <2>3 DEF GivenToSeen
    <3>2. \A x \in Seen : current'[x] <= current'[best]
      BY <1>10, <3>1
    <3>3. current'[best] \in Int /\ current'[n] \in Int
          /\ \A x \in Seen : current'[x] \in Int
      BY <1>10, <3>1
    <3>4. CASE current'[n] > current'[best]
      <4>1. best' = n
        BY <1>9, <3>4
      <4>2. \A x \in Seen' : current'[x] <= current'[n]
        BY <1>7, <3>2, <3>3, <3>4
      <4> QED BY <1>4, <1>7, <2>1, <4>1, <4>2 DEF GivenToSeen
    <3>5. CASE ~(current'[n] > current'[best])
      <4>1. best' = best
        BY <1>9, <2>3, <3>5
      <4>2. \A x \in Seen' : current'[x] <= current'[best]
        BY <1>7, <3>2, <3>3, <3>5
      <4> QED BY <1>7, <2>1, <2>3, <3>1, <4>1, <4>2 DEF GivenToSeen
    <3> QED BY <3>4, <3>5
  <2> QED BY <2>2, <2>3
<1>13. WeightIsOwed'
  <2>1. Taken' = Taken /\ Taken \in Nat /\ Whole \in Nat /\ tally \in [Nodes -> Nat]
        /\ Weight \in [Nodes -> Nat]
    BY <1>1, <1>3, TallyTypes DEF Taken
  <2>2. Listed(group) \in SUBSET Nodes /\ n \in Listed(group) /\ Listed(group') = Listed(group)
    BY <1>3, <1>4, <1>5, ListedTyped, SMTT(30) DEF Listed
  <2>3. ASSUME NEW x \in Listed(group) PROVE current'[x] = Owed(x)'
    <3>1. PICK o \in Int : o = Taken * Weight[x] - tally[x] * Whole
      BY <2>1, <2>2
    <3>2. /\ Owed(x) = o + (IF x \in Seen THEN Weight[x] ELSE 0)
          /\ Owed(x)' = o + (IF x \in Seen' THEN Weight[x] ELSE 0)
      BY <1>3, <2>1, <3>1 DEF Owed
    <3>3. current[x] = Owed(x)
      BY <1>1 DEF WeightIsOwed
    <3>4. CASE x = n
      BY <1>6, <1>7, <1>8, <1>10, <3>2, <3>3, <3>4
    <3>5. CASE x # n
      <4>1. current'[x] = current[x] /\ (x \in Seen' <=> x \in Seen)
        BY <1>7, <1>10, <2>2, <3>5
      <4> QED BY <3>2, <3>3, <4>1
    <3> QED BY <3>4, <3>5
  <2>4. \A x \in Nodes \ Listed(group) : current'[x] = 0 /\ tally'[x] = 0
    BY <1>1, <1>3, <1>10, <2>2 DEF WeightIsOwed
  <2> QED BY <2>2, <2>3, <2>4 DEF WeightIsOwed
<1>14. WithinShare'
  <2>1. Taken' = Taken
    BY <1>3 DEF Taken
  <2> QED BY <1>1, <1>3, <2>1 DEF WithinShare
<1> QED BY <1>11, <1>12, <1>13, <1>14 DEF ShareInv

(* A pick is one more of all.                                              *)
LEMMA OneMore ==
  ASSUME NEW S, IsFiniteSet(S), NEW f \in [S -> Int], NEW n \in S
  PROVE  Sum([f EXCEPT ![n] = @ + 1]) = Sum(f) + 1
<1>1. 1 \in Int
  OBVIOUS
<1> QED BY <1>1, SumShifted, ZenonT(60)

(* Nothing is given to no node.                                            *)
LEMMA NothingGiven ==
  ASSUME SelectorAssumption
  PROVE  Over(Weight, Nodes, {}) = 0
<1>1. IsFiniteSet(Nodes) /\ Weight \in [Nodes -> Int]
  BY DEF SelectorAssumption
<1> QED BY <1>1, OverFacts

(* Once all are seen, all weights are given, and the best is owed some.    *)
LEMMA AllSeen ==
  ASSUME SelectorAssumption, SelectorTypeOK, BooksInv, ShareInv, tally # NoTally, PickBest
  PROVE  /\ group = Initial /\ Seen = Listed(Initial) /\ best \in Listed(Initial)
         /\ total = Whole /\ current[best] > 0
<1>1. Calm /\ GivenToSeen /\ WeightIsOwed /\ WithinShare
  BY DEF ShareInv
<1>2. /\ phase = "visit" /\ at \in Nat /\ at > Len(List) /\ best # None
      /\ group \in Seq(Nodes) /\ current \in [Nodes -> Int]
  BY DEF PickBest, SelectorTypeOK
<1>3. List = group /\ at - 1 = Len(group)
  BY <1>1, <1>2 DEF Calm, List
<1>4. Seen = Listed(group)
  BY <1>2, <1>3 DEF Seen, Listed
<1>5. best \in Listed(group) /\ \A n \in Listed(group) : current[n] <= current[best]
  BY <1>1, <1>2, <1>4 DEF GivenToSeen
<1>6. group = Initial
  <2>1. group # <<>>
    BY <1>5 DEF Listed
  <2> QED BY <1>1, <2>1 DEF Calm
<1>7. /\ IsFiniteSet(Nodes) /\ Weight \in [Nodes -> Nat] /\ Whole \in Nat
      /\ Listed(Initial) \in SUBSET Nodes /\ Taken \in Nat
      /\ Listed(Initial) # {} => Taken + 1 <= Whole
  BY <1>1, TallyTypes
<1>8. total = Whole
  <2>1. total = Over(Weight, Nodes, Listed(Initial))
    BY <1>1, <1>4, <1>6 DEF GivenToSeen
  <2>2. Weight \in [Nodes -> Int] /\ IsFiniteSet(Nodes)
    BY <1>7
  <2>3. ASSUME NEW r \in SUBSET Nodes
        PROVE  Over(Weight, Nodes, r) = Sum([m \in r |-> Weight[m]])
    BY <2>2, OverOfPart, ZenonT(60)
  <2>4. Over(Weight, Nodes, Listed(Initial)) = Sum([m \in Listed(Initial) |-> Weight[m]])
    BY <1>7, <2>3
  <2> QED BY <2>1, <2>4 DEF Whole
<1>9. PICK x \in Nodes : current[x] > 0
  <2>1. Sum(current) > 0
    BY <1>5, <1>6, <1>7, <1>8 DEF BooksInv, WeightsBalance
  <2> QED BY <1>2, <1>7, <2>1, SumPositive
<1>10. x \in Listed(group)
  BY <1>1, <1>9 DEF WeightIsOwed
<1>11. current[x] <= current[best] /\ current[x] \in Int /\ current[best] \in Int
  BY <1>2, <1>5, <1>6, <1>7, <1>10
<1> QED BY <1>4, <1>5, <1>6, <1>8, <1>9, <1>11

(* The best pays for all that was given, and is counted; a full window     *)
(* starts over with every weight at zero (Selector.cc:86-89).              *)
LEMMA StepPicks ==
  ASSUME SelectorAssumption, SelectorTypeOK, BooksInv, ShareInv, tally # NoTally, PickBest
  PROVE  ShareInv'
<1> DEFINE L == Listed(Initial)
           t == [tally EXCEPT ![best] = @ + 1]
<1>1. Calm /\ GivenToSeen /\ WeightIsOwed /\ WithinShare
  BY DEF ShareInv
<1>2. /\ group = Initial /\ Seen = L /\ best \in L
      /\ total = Whole /\ current[best] > 0
  BY AllSeen
<1>3. /\ IsFiniteSet(Nodes) /\ Weight \in [Nodes -> Nat \ {0}] /\ Whole \in Nat
      /\ L \in SUBSET Nodes /\ tally \in [Nodes -> Nat] /\ Taken \in Nat
      /\ Taken + 1 <= Whole
  BY <1>1, <1>2, TallyTypes
<1>4. /\ UNCHANGED <<group, alive>> /\ phase' = "idle" /\ total' = 0 /\ best' = None
      /\ current' = [current EXCEPT ![best] = @ - Whole] /\ current \in [Nodes -> Int]
  BY <1>2 DEF PickBest, Return, groupVars, SelectorTypeOK
<1>5. /\ tally' = IF \A m \in L : t[m] = Weight[m] THEN [m \in Nodes |-> 0] ELSE t
  BY DEF PickBest, Counted
<1>6. /\ t \in [Nodes -> Nat] /\ t[best] = tally[best] + 1
      /\ \A n \in Nodes \ {best} : t[n] = tally[n]
  BY <1>2, <1>3
<1>7. Sum(t) = Taken + 1
  <2>1. tally \in [Nodes -> Int] /\ best \in Nodes /\ 1 \in Int /\ IsFiniteSet(Nodes)
    BY <1>2, <1>3
  <2> QED BY <2>1, OneMore DEF Taken
<1> HIDE DEF L, t
<1>8. \A n \in L : current[n] = (Taken * Weight[n] - tally[n] * Whole) + Weight[n]
  BY <1>1, <1>2 DEF WeightIsOwed, Owed, L
<1>9. \A n \in Nodes \ L : current[n] = 0 /\ tally[n] = 0
  BY <1>1, <1>2 DEF WeightIsOwed, L
<1>10. \A n \in L : t[n] * Whole - (Taken + 1) * Weight[n] < Whole /\ t[n] <= Weight[n]
  <2> SUFFICES ASSUME NEW n \in L
               PROVE  t[n] * Whole - (Taken + 1) * Weight[n] < Whole /\ t[n] <= Weight[n]
    OBVIOUS
  <2>1. PICK w \in Nat : w = Weight[n]
    BY <1>3
  <2>2. PICK k \in Nat : k = tally[n]
    BY <1>3
  <2>3. CASE n = best
    <3>1. (Taken * w - k * Whole) + w > 0
      BY <1>2, <1>8, <2>1, <2>2, <2>3
    <3>2. k + 1 <= w /\ (k + 1) * Whole - (Taken + 1) * w < Whole
      BY <1>3, <3>1, OwedIsNotAhead
    <3> QED BY <1>6, <2>1, <2>2, <2>3, <3>2
  <2>4. CASE n # best
    <3>1. k * Whole - Taken * w < Whole /\ k <= w
      BY <1>1, <2>1, <2>2 DEF WithinShare, L
    <3>2. (Taken + 1) * w = Taken * w + w
      BY <1>3
    <3>3. PICK a \in Int, b \in Int : a = k * Whole /\ b = Taken * w
      BY <1>3
    <3>4. a - (b + w) < Whole
      BY <1>3, <3>1, <3>3
    <3> QED BY <1>3, <1>6, <2>1, <2>2, <2>4, <3>1, <3>2, <3>3, <3>4
  <2> QED BY <2>3, <2>4
<1>11. \A n \in L : current'[n] = (Taken + 1) * Weight[n] - t[n] * Whole
  <2> SUFFICES ASSUME NEW n \in L
               PROVE  current'[n] = (Taken + 1) * Weight[n] - t[n] * Whole
    OBVIOUS
  <2>1. PICK w \in Nat : w = Weight[n]
    BY <1>3
  <2>2. PICK k \in Nat : k = tally[n]
    BY <1>3
  <2>3. current[n] = (Taken * w - k * Whole) + w
    BY <1>8, <2>1, <2>2
  <2>4. (Taken + 1) * w = Taken * w + w /\ (k + 1) * Whole = k * Whole + Whole
    BY <1>3
  <2>5. PICK a \in Int, b \in Int : a = k * Whole /\ b = Taken * w
    BY <1>3
  <2>6. CASE n = best
    <3>1. current'[n] = current[n] - Whole /\ t[n] = k + 1
      BY <1>3, <1>4, <1>6, <2>2, <2>6
    <3> QED BY <1>3, <2>1, <2>3, <2>4, <2>5, <3>1, SMTT(30)
  <2>7. CASE n # best
    <3>1. current'[n] = current[n] /\ t[n] = k
      BY <1>3, <1>4, <1>6, <2>2, <2>7
    <3> QED BY <1>3, <2>1, <2>3, <2>4, <2>5, <3>1
  <2> QED BY <2>6, <2>7
<1>12. \A n \in Nodes \ L : current'[n] = 0 /\ t[n] = 0
  BY <1>2, <1>4, <1>6, <1>9
<1>13. Calm' /\ GivenToSeen' /\ Seen' = {}
  <2>1. Seen' = {}
    BY <1>4 DEF Seen
  <2> QED BY <1>1, <1>4, <2>1, NothingGiven DEF Calm, GivenToSeen
<1>14. ASSUME tally' = t, ~ \A m \in L : t[m] = Weight[m]
       PROVE  WeightIsOwed' /\ WithinShare'
  <2>1. Taken' = Taken + 1
    BY <1>7, <1>14 DEF Taken
  <2>2. \A n \in L : Owed(n)' = (Taken + 1) * Weight[n] - t[n] * Whole
    <3> SUFFICES ASSUME NEW n \in L
                 PROVE  Owed(n)' = (Taken + 1) * Weight[n] - t[n] * Whole
      OBVIOUS
    <3>1. PICK o \in Int : o = (Taken + 1) * Weight[n] - t[n] * Whole
      BY <1>3, <1>6
    <3>2. Owed(n)' = o + 0
      BY <1>13, <1>14, <2>1, <3>1 DEF Owed
    <3> QED BY <3>1, <3>2
  <2>3. WeightIsOwed'
    BY <1>2, <1>4, <1>11, <1>12, <1>14, <2>2 DEF WeightIsOwed, L
  <2>4. WithinShare'
    BY <1>10, <1>14, <2>1 DEF WithinShare, L
  <2> QED BY <2>3, <2>4
<1>15. ASSUME tally' = [m \in Nodes |-> 0], \A m \in L : t[m] = Weight[m]
       PROVE  WeightIsOwed' /\ WithinShare'
  <2>1. Taken' = 0
    <3>1. PICK z \in [Nodes -> Int] : z = tally' /\ \A x \in Nodes : z[x] = 0
      BY <1>15
    <3>2. Sum(z) = 0
      BY <1>3, <3>1, SumZero
    <3> QED BY <3>1, <3>2 DEF Taken
  <2>2. Whole = Taken + 1
    <3>1. \A n \in Nodes \ L : t[n] = 0
      BY <1>12
    <3>2. \A n \in L : t[n] <= Weight[n]
      BY <1>10
    <3>3. Sum(t) = Sum([n \in L |-> Weight[n]])
      BY <1>3, <1>6, <1>15, <3>1, <3>2, WindowFills
    <3> QED BY <1>7, <3>3 DEF Whole, L
  <2>3. \A n \in L : current'[n] = 0
    <3> SUFFICES ASSUME NEW n \in L PROVE current'[n] = 0
      OBVIOUS
    <3>1. current'[n] = Whole * Weight[n] - Weight[n] * Whole
      BY <1>11, <1>15, <2>2
    <3>2. PICK w \in Nat : w = Weight[n]
      BY <1>3
    <3>3. Whole * w - w * Whole = 0
      BY <1>3
    <3> QED BY <3>1, <3>2, <3>3
  <2>4. \A n \in Nodes : tally'[n] = 0 /\ Weight[n] \in Nat /\ Weight[n] # 0
    BY <1>3, <1>15
  <2>5. \A n \in L : Owed(n)' = 0
    <3> SUFFICES ASSUME NEW n \in L PROVE Owed(n)' = 0
      OBVIOUS
    <3>1. tally'[n] = 0 /\ Weight[n] \in Nat
      BY <1>3, <2>4
    <3>2. Owed(n)' = (0 * Weight[n] - 0 * Whole) + 0
      BY <1>13, <2>1, <3>1 DEF Owed
    <3> QED BY <1>3, <3>1, <3>2
  <2>6. WeightIsOwed'
    BY <1>2, <1>4, <1>12, <2>3, <2>4, <2>5 DEF WeightIsOwed, L
  <2>7. WithinShare'
    <3>1. \A n \in L : 0 * Whole - 0 * Weight[n] < Whole /\ 0 <= Weight[n] /\ 0 # Weight[n]
      BY <1>3, <2>4
    <3> QED BY <1>2, <1>3, <2>1, <2>4, <3>1 DEF WithinShare, L
  <2> QED BY <2>6, <2>7
<1> QED BY <1>5, <1>13, <1>14, <1>15 DEF ShareInv

(* Each action keeps the shares, or ends the time in which they are        *)
(* counted.                                                                *)
LEMMA StepShares ==
  ASSUME SelectorAssumption, EachOnce, SelectorTypeOK, BooksInv, ShareInv, [Next]_vars
  PROVE  ShareInv'
<1>1. CASE \E n \in Nodes : addNode(n) \/ removeNode(n) \/ Flip(n)
  BY <1>1 DEF addNode, removeNode, Changed, Flip, ShareInv
<1>2. CASE (\E h \in Hashers : TakeRing(h) \/ LookUp(h)) \/ UNCHANGED vars
  <2>1. UNCHANGED <<groupVars, alive, current, pickVars, tally>>
    BY <1>2 DEF TakeRing, LookUp, vars
  <2>2. UNCHANGED <<group, alive, current, tally, phase, shared, at, total, best>>
    BY <2>1 DEF groupVars, pickVars
  <2>3. Seen' = Seen
    BY <2>2 DEF Seen
  <2>4. tally # NoTally =>
          (phase # "idle" => shared) /\ (phase = "visit" => at <= Len(group) + 1)
    BY DEF ShareInv, Calm
  <2> QED BY <2>2, <2>3, <2>4, QuietShares
<1>3. CASE TakeList \/ PickFromNone \/ CountNode \/ JudgePanic
  <2>1. /\ UNCHANGED <<group, alive, current, tally>>
        /\ phase # "visit"
        /\ (phase' = "visit") => (at' = 1)
    BY <1>3 DEF TakeList, PickFromNone, CountNode, JudgePanic, Return, groupVars
  <2>2. Seen = {} /\ Seen' = {}
    <3>1. 1..(1 - 1) = {}
      OBVIOUS
    <3> QED BY <2>1, <3>1 DEF Seen
  <2>3. (phase' # "idle") => (shared' \/ (phase # "idle" /\ shared' = shared))
    BY <1>3 DEF TakeList, PickFromNone, CountNode, JudgePanic, Return
  <2>4. ASSUME tally # NoTally
        PROVE  /\ total' = total /\ best' = best
               /\ phase' # "idle" => shared'
               /\ phase' = "visit" => at' <= Len(group) + 1
    <3>1. total = 0 /\ best = None
      BY <2>2, <2>4, NothingGiven DEF ShareInv, GivenToSeen
    <3>2. total' = total /\ best' = best
      BY <1>3, <3>1 DEF TakeList, PickFromNone, CountNode, JudgePanic, Return
    <3>3. phase' # "idle" => shared'
      BY <2>3, <2>4 DEF ShareInv, Calm
    <3>4. phase' = "visit" => at' <= Len(group) + 1
      <4>1. Len(group) \in Nat
        BY DEF SelectorTypeOK
      <4> QED BY <2>1, <4>1
    <3> QED BY <3>2, <3>3, <3>4
  <2> QED BY <2>1, <2>2, <2>4, QuietShares
<1>4. CASE SkipNode
  <2>1. List[at] \in Nodes /\ ~alive[List[at]] /\ tally' = tally
    BY <1>4, ListTyped DEF SkipNode
  <2>2. tally = NoTally
    BY <2>1 DEF ShareInv, Calm
  <2> QED BY <2>1, <2>2 DEF ShareInv
<1>5. CASE VisitNode
  <2>1. CASE tally = NoTally
    BY <1>5, <2>1 DEF VisitNode, Visiting, ShareInv
  <2> QED BY <1>5, <2>1, StepVisits
<1>6. CASE PickBest
  <2>1. CASE tally = NoTally
    BY <1>6, <2>1 DEF PickBest, Counted, ShareInv
  <2> QED BY <1>6, <2>1, StepPicks
<1>7. CASE PickNobody
  <2>1. /\ UNCHANGED <<group, alive, current, tally>> /\ best = None
        /\ phase' = "idle" /\ total' = 0 /\ best' = None
    BY <1>7 DEF PickNobody, Return, groupVars
  <2>2. ASSUME tally # NoTally PROVE Seen' = Seen /\ total' = total
    <3>1. Seen = {}
      BY <2>1, <2>2 DEF ShareInv, GivenToSeen
    <3>2. Seen' = {} /\ total = 0
      BY <2>1, <2>2, <3>1, NothingGiven DEF ShareInv, GivenToSeen, Seen
    <3> QED BY <2>1, <3>1, <3>2
  <2> QED BY <2>1, <2>2, QuietShares
<1> QED
  BY <1>1, <1>2, <1>3, <1>4, <1>5, <1>6, <1>7 DEF Next, Pick

(* At first nobody has been picked and nobody is owed anything.            *)
LEMMA SharesStart ==
  ASSUME SelectorAssumption, Init
  PROVE  ShareInv
<1>1. /\ group \in {<<>>, Initial} /\ phase = "idle" /\ total = 0 /\ best = None
      /\ alive = [x \in Nodes |-> TRUE] /\ current = [x \in Nodes |-> 0]
      /\ tally = [x \in Nodes |-> 0]
  BY DEF Init
<1>2. \A x \in Nodes : alive[x] /\ current[x] = 0 /\ tally[x] = 0
  BY <1>1
<1>3. Seen = {}
  BY <1>1 DEF Seen
<1>4. Calm /\ GivenToSeen
  BY <1>1, <1>2, <1>3, NothingGiven DEF Calm, GivenToSeen
<1>5. /\ IsFiniteSet(Nodes) /\ Weight \in [Nodes -> Nat \ {0}] /\ Initial \in Seq(Nodes)
  BY DEF SelectorAssumption
<1>6. /\ Listed(Initial) \in SUBSET Nodes
      /\ Listed(group) \in SUBSET Nodes
  <2>1. group \in Seq(Nodes)
    BY SelectorStarts DEF SelectorTypeOK
  <2> QED BY <1>5, <2>1, ListedTyped
<1>7. Taken = 0
  <2>1. tally \in [Nodes -> Int]
    BY <1>1
  <2> QED BY <1>2, <1>5, <2>1, SumZero DEF Taken
<1>8. Whole \in Nat /\ (Listed(Initial) # {} => Whole > 0)
  <2>1. tally \in [Nodes -> Nat]
    BY <1>1
  <2>2. \A n \in Listed(Initial) : tally[n] <= Weight[n]
    BY <1>2, <1>5, <1>6
  <2>3. \A n \in Nodes \ Listed(Initial) : tally[n] = 0
    BY <1>2
  <2>4. /\ Whole \in Int /\ 0 <= Sum(tally) /\ Sum(tally) <= Whole
        /\ Sum(tally) = Whole <=> \A n \in Listed(Initial) : tally[n] = Weight[n]
    BY <1>6, <2>1, <2>2, <2>3, WindowFills DEF Whole
  <2>5. \A n \in Listed(Initial) : tally[n] # Weight[n]
    BY <1>2, <1>5, <1>6
  <2> QED BY <1>7, <2>4, <2>5 DEF Taken
<1>9. WeightIsOwed
  <2>1. \A n \in Listed(group) : Owed(n) = 0
    BY <1>2, <1>3, <1>5, <1>6, <1>7, <1>8 DEF Owed
  <2> QED BY <1>2, <1>6, <2>1 DEF WeightIsOwed
<1>10. WithinShare
  <2>1. \A n \in Listed(Initial) :
          /\ tally[n] = 0 /\ 0 <= Weight[n] /\ 0 # Weight[n]
          /\ 0 * Whole - 0 * Weight[n] < Whole
    BY <1>2, <1>5, <1>6, <1>8
  <2> QED BY <1>7, <2>1 DEF WithinShare
<1> QED BY <1>4, <1>9, <1>10 DEF ShareInv

(* README.md:70: as long as nobody touches the nodes, no node is a whole   *)
(* pick ahead of its share at any time, and in every window of as many     *)
(* picks as all weights each is picked as often as its weight says         *)
(* (Selector.cc:76-89).  Every server is on the list once (EachOnce).       *)
THEOREM EachGetsItsShare ==
  ASSUME EachOnce
  PROVE  Spec => []PickedByWeight
<1>1. Init => SelectorTypeOK /\ BooksInv /\ ShareInv
  BY SelectorAssumption, SelectorStarts, SharesStart
<1>2. SelectorTypeOK /\ BooksInv /\ ShareInv /\ [Next]_vars
        => (SelectorTypeOK /\ BooksInv /\ ShareInv)'
  BY EachOnce, SelectorAssumption, StepSelectorTypes, StepBooks, StepShares
<1>3. BooksInv /\ ShareInv => PickedByWeight
  <2>1. BooksInv => WeightsBalance
    BY DEF BooksInv
  <2>2. ShareInv => SharesFollowWeights
    BY DEF ShareInv, WithinShare, SharesFollowWeights, Whole, Taken
  <2> QED BY <2>1, <2>2 DEF PickedByWeight
<1> QED BY <1>1, <1>2, <1>3, PTL DEF Spec
=============================================================================
