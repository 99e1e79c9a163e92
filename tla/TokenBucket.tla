---------------------------- MODULE TokenBucket ----------------------------
(***************************************************************************)
(* src/Proxy/src/L7/Middleware/TokenBucket.cc: the lock-free rate limiter  *)
(* of the L7 gateway.  config_ and state_ are two atomic words; any number *)
(* of I/O threads call tryAcquire, and update, serialised by               *)
(* update_mutex_, changes the configuration under them.                    *)
(*                                                                         *)
(* A step of the model is one load, one store or one compare-and-swap, or  *)
(* one reading of the clock with the arithmetic that follows it.           *)
(***************************************************************************)
EXTENDS Naturals

CONSTANTS
  Requesters,   \* the threads that call tryAcquire
  Needs,        \* the amounts they ask for
  Start,        \* the configuration of the constructor
  Configs,      \* the configurations update may be called with
  Modulus,      \* timestamps are unsigned integers modulo this (2^32)
  MaxTime,      \* bound: the clock stops here
  MaxUpdates    \* bound: update is called so often

Config == [capacity : Nat, rate : Nat]

ASSUME BucketAssumption ==
  /\ Needs \subseteq Nat \ {0}
  /\ Start \in Config /\ Configs \subseteq Config
  /\ MaxTime \in Nat /\ Modulus \in Nat /\ MaxTime < Modulus
  /\ MaxUpdates \in Nat

VARIABLES
  clock,    \* nowMs()
  config,   \* config_
  state,    \* state_: a timestamp and the tokens at that time
  call,     \* call[r]: where requester r is in tryAcquire, and its locals
  updating, \* where the thread in update is, and its locals
  granted,  \* history: the tokens handed out
  clipped,  \* history: tokens or time were given up at a full bucket or by update
  version,  \* history: how often the configuration was changed
  misled    \* history: requesters since whose load another has stored a settlement
            \* under a configuration that was replaced

bucketVars == <<clock, config, state, call, updating, granted, clipped, version, misled>>

Idle == [at |-> "idle"]

BucketInit ==
  /\ clock = 0
  /\ config = Start
  /\ state = [ts |-> 0, tokens |-> Start.capacity]
  /\ call = [r \in Requesters |-> Idle]
  /\ updating = Idle
  /\ granted = 0
  /\ clipped = FALSE
  /\ version = 0
  /\ misled = {}

Tick ==
  /\ clock < MaxTime
  /\ clock' = clock + 1
  /\ UNCHANGED <<config, state, call, updating, granted, clipped, version, misled>>

-----------------------------------------------------------------------------
(* Arithmetic.                                                             *)

Least(x, y) == IF x < y THEN x ELSE y

(* now - timestamp_ms, both uint32_t. *)
Elapsed(ts) == (clock + Modulus - ts) % Modulus

Produced(ts, rate) == (Elapsed(ts) * rate) \div 1000

(* Mutant: a settlement moves the timestamp to the present. *)
SettledNow(cur, cfg) ==
  LET produced == Produced(cur.ts, cfg.rate) IN
    IF produced = 0
      THEN cur
      ELSE [ts     |-> clock,
            tokens |-> Least(cur.tokens + produced, cfg.capacity)]

(* The tokens produced since the timestamp are added up to the capacity,   *)
(* and the timestamp advances by the time it takes to produce them.        *)
Settled(cur, cfg) ==
  LET produced == Produced(cur.ts, cfg.rate) IN
    IF produced = 0
      THEN cur
      ELSE [ts     |-> (cur.ts + (produced * 1000) \div cfg.rate) % Modulus,
            tokens |-> Least(cur.tokens + produced, cfg.capacity)]

(* availableTokens(). *)
Available(cur, cfg) == Least(cur.tokens + Produced(cur.ts, cfg.rate), cfg.capacity)

Clips(cur, cfg) == cur.tokens + Produced(cur.ts, cfg.rate) > cfg.capacity

-----------------------------------------------------------------------------
(* tryAcquire.                                                             *)

(* The configuration is loaded; a need beyond the capacity is refused.     *)
LoadConfig(r, need) ==
  /\ call[r] = Idle
  /\ need <= config.capacity
  /\ call' = [call EXCEPT ![r] =
                [at |-> "load", need |-> need, cfg |-> config, version |-> version]]
  /\ UNCHANGED <<clock, config, state, updating, granted, clipped, version, misled>>

(* The state, as call[r] sees it, with the locals of one iteration. *)
Iterate(r, cur) ==
  [at |-> "settle", need |-> call[r].need, cfg |-> call[r].cfg,
   version |-> call[r].version, cur |-> cur]

LoadState(r) ==
  /\ call[r].at = "load"
  /\ call' = [call EXCEPT ![r] = Iterate(r, state)]
  /\ misled' = misled \ {r}
  /\ UNCHANGED <<clock, config, state, updating, granted, clipped, version>>

(* Mutant: the refusal is decided before the settlement. *)
RefuseUnsettled(r) ==
  /\ call[r].at = "settle"
  /\ call[r].cur.tokens < call[r].need
  /\ call' = [call EXCEPT ![r] = Idle]
  /\ UNCHANGED <<clock, config, state, updating, granted, clipped, version, misled>>

(* Too few tokens even after the settlement: false, and nothing is stored. *)
Refuse(r) ==
  /\ call[r].at = "settle"
  /\ Settled(call[r].cur, call[r].cfg).tokens < call[r].need
  /\ call' = [call EXCEPT ![r] = Idle]
  /\ UNCHANGED <<clock, config, state, updating, granted, clipped, version, misled>>

Settle(r) ==
  /\ call[r].at = "settle"
  /\ LET settled == Settled(call[r].cur, call[r].cfg) IN
       /\ settled.tokens >= call[r].need
       /\ call' = [call EXCEPT ![r] =
            [at |-> "swap", need |-> @.need, cfg |-> @.cfg, version |-> @.version,
             cur |-> @.cur, clips |-> Clips(@.cur, @.cfg),
             next |-> [settled EXCEPT !.tokens = @ - call[r].need]]]
  /\ UNCHANGED <<clock, config, state, updating, granted, clipped, version, misled>>

(* Mutant: the new state is stored whatever became of the old one. *)
StoreState(r) ==
  /\ call[r].at = "swap"
  /\ state' = call[r].next
  /\ granted' = granted + call[r].need
  /\ clipped' = (clipped \/ call[r].clips)
  /\ call' = [call EXCEPT ![r] = Idle]
  /\ misled' = IF call[r].version = version THEN misled ELSE Requesters
  /\ UNCHANGED <<clock, config, updating, version>>

(* compare_exchange_weak succeeds: true. *)
Swap(r) ==
  /\ call[r].at = "swap"
  /\ state = call[r].cur
  /\ state' = call[r].next
  /\ granted' = granted + call[r].need
  /\ clipped' = (clipped \/ call[r].clips)
  /\ call' = [call EXCEPT ![r] = Idle]
  /\ misled' = IF call[r].version = version THEN misled ELSE Requesters
  /\ UNCHANGED <<clock, config, updating, version>>

(* compare_exchange_weak fails, spuriously perhaps, and reloads cur. *)
SwapFails(r) ==
  /\ call[r].at = "swap"
  /\ call' = [call EXCEPT ![r] = Iterate(r, state)]
  /\ misled' = misled \ {r}
  /\ UNCHANGED <<clock, config, state, updating, granted, clipped, version>>

-----------------------------------------------------------------------------
(* update.                                                                 *)

(* The mutex is taken and the old configuration loaded. *)
UpdateBegins(new) ==
  /\ updating = Idle
  /\ version < MaxUpdates
  /\ updating' = [at |-> "load", new |-> new, old |-> config]
  /\ UNCHANGED <<clock, config, state, call, granted, clipped, version, misled>>

UpdateLoads ==
  /\ updating.at = "load"
  /\ updating' = [at |-> "settle", new |-> updating.new, old |-> updating.old,
                  cur |-> state]
  /\ UNCHANGED <<clock, config, state, call, granted, clipped, version, misled>>

(* The bucket is settled under the old configuration up to the present and *)
(* cut to both capacities.                                                 *)
UpdateSettles ==
  /\ updating.at = "settle"
  /\ updating' =
       [at |-> "swap", new |-> updating.new, old |-> updating.old, cur |-> updating.cur,
        next |-> [ts |-> clock,
                  tokens |-> Least(Available(updating.cur, updating.old),
                                   updating.new.capacity)]]
  /\ UNCHANGED <<clock, config, state, call, granted, clipped, version, misled>>

UpdateSwaps ==
  /\ updating.at = "swap"
  /\ state = updating.cur
  /\ state' = updating.next
  /\ clipped' = TRUE
  /\ updating' = [at |-> "store", new |-> updating.new]
  /\ UNCHANGED <<clock, config, call, granted, version, misled>>

UpdateSwapFails ==
  /\ updating.at = "swap"
  /\ updating' = [at |-> "settle", new |-> updating.new, old |-> updating.old,
                  cur |-> state]
  /\ UNCHANGED <<clock, config, state, call, granted, clipped, version, misled>>

UpdateStores ==
  /\ updating.at = "store"
  /\ config' = updating.new
  /\ version' = version + 1
  /\ updating' = Idle
  /\ UNCHANGED <<clock, state, call, granted, clipped, misled>>

-----------------------------------------------------------------------------

Request(r) ==
  \/ \E need \in Needs : LoadConfig(r, need)
  \/ LoadState(r) \/ Refuse(r) \/ Settle(r) \/ Swap(r) \/ SwapFails(r)

Update ==
  \/ \E new \in Configs : UpdateBegins(new)
  \/ UpdateLoads \/ UpdateSettles \/ UpdateSwaps \/ UpdateSwapFails \/ UpdateStores

BucketNext == Tick \/ Update \/ \E r \in Requesters : Request(r)

BucketSpec == BucketInit /\ [][BucketNext]_bucketVars

-----------------------------------------------------------------------------
(* Properties.                                                             *)

Rates == {c.rate : c \in {Start} \cup Configs}

(* No thread subtracts a timestamp later than the present, which would     *)
(* count as half of 2^32 milliseconds (TokenBucket.cc:28-35, 76-79).       *)
NoTimestampAhead ==
  /\ state.ts <= clock
  /\ \A r \in Requesters : call[r].at \in {"settle", "swap"} => call[r].cur.ts <= clock
  /\ updating.at \in {"settle", "swap"} => updating.cur.ts <= clock

(* However the requests, the settlements and the updates interleave, no    *)
(* more is handed out than the initial tokens and what the highest rate    *)
(* configured produces in the time that has passed, and no time is settled *)
(* before it has passed (TokenBucket.cc:26-56).                            *)
RateLimited ==
  /\ NoTimestampAhead
  /\ \E rate \in Rates :
       granted * 1000 <= Start.capacity * 1000 + rate * clock

(* As long as the bucket has not been full and has not been reconfigured,  *)
(* no fraction of a token is lost between the calls: what was handed out,  *)
(* what is there and what is still to be settled is exactly what was       *)
(* produced (TokenBucket.cc:34-42).                                        *)
NothingLost ==
  ~clipped =>
    1000 * (granted + state.tokens) + Elapsed(state.ts) * Start.rate
      = 1000 * Start.capacity + clock * Start.rate

(* A request is refused only if the bucket, at that moment, holds too      *)
(* little, even if the state it looks at is stale, unless update has       *)
(* changed the configuration meanwhile, or a thread that still worked with *)
(* the one before has stored what that produced (TokenBucket.cc:22-46).    *)
RefusedOnlyWhenShort ==
  [][\A r \in Requesters :
       call[r].at = "settle" /\ call'[r] = Idle
         /\ call[r].version = version /\ r \notin misled
         => Available(state, config) < call[r].need]_bucketVars

(* TokenBucket.cc:40: "advance only by the time that was settled": with    *)
(* the constructor's configuration alone, the rate is the configured one.  *)
RateIsTheConfigured ==
  version = 0 => granted * 1000 <= Start.capacity * 1000 + Start.rate * clock
=============================================================================
