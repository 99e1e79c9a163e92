-------------------------------- MODULE Gateway ------------------------------
(***************************************************************************)
(* src/Proxy/src/L7: the gateway on one loop (src/Proxy/test/L7/main.cc    *)
(* sets no threads): LB_Server's callbacks, the RemoteClients, and the     *)
(* pool of connections that are kept for the next request.                 *)
(*                                                                         *)
(* Plan tells what each client asks, in order, and how long the answers    *)
(* are.  A unit <<c, i, k>> is the head (k = 0) or a part of the body of   *)
(* c's i-th request, or of the answer to it; the last unit of a chunked    *)
(* answer holds the zero chunk.  Units come whole and in any number of     *)
(* reads, and the connections are TcpConnections: they keep order, and     *)
(* their end comes last (TcpServer.tla).  A client waits for an answer     *)
(* before it asks again, and a backend answers when it has the request.    *)
(***************************************************************************)
EXTENDS HttpContext, SequencesExt, FiniteSetsExt

CONSTANTS Clients, Plan,
          HasDefault,  \* default_llm_selector_ is set
          MaxIdle,     \* max_conns_
          MaxRemotes,  \* bound: RemoteClients in a run
          MaxEnds      \* bound: peers that close their connection in a run

ASSUME GatewayAssumption ==
  /\ Plan \in [Clients -> Seq([kind : {"im", "llm", "refused"}, body : Nat,
                               answer : Nat, chunked : BOOLEAN])]
  /\ \A c \in Clients : \A i \in 1..Len(Plan[c]) :
       /\ Plan[c][i].kind = "llm" => Plan[c][i].body > 0
       /\ Plan[c][i].chunked => Plan[c][i].answer > 0
  /\ Clients \cap ((1..MaxRemotes) \cup {None}) = {}
  /\ HasDefault \in BOOLEAN /\ MaxIdle \in Nat /\ MaxRemotes \in Nat /\ MaxEnds \in Nat

Remotes == 1..MaxRemotes
Targets == {"im", "model", "default"}

VARIABLES
  ready,      \* what epoll reported and is not handled yet
  closing,    \* clients whose connectDestroyed is queued
  errors,     \* RemoteClients whose errorCallback_ is queued
  up,         \* a client's connection
  asked,      \* how many units a client has sent
  cEnd,       \* the client has closed its side
  cIn, cBuf,  \* units on the way from a client; its inputBuffer_
  context,    \* a client's HttpContext
  cGot,       \* history: units a client was sent
  link,       \* a RemoteClient's connection
  addr,       \* the node it is for
  bound,      \* clientConn_
  busy,       \* is_busy_
  pending,    \* pendingBuffer_
  bGot,       \* history: units its backend was sent
  said,       \* how many units the backend has sent
  bEnd,       \* the backend has closed its side
  bIn, bBuf,  \* units on the way from it; the connection's inputBuffer_
  idle,       \* idle_map_
  stranded    \* history: clients given a connection that cannot come up

loopVars == <<ready, closing, errors>>
clientVars == <<up, asked, cEnd, cIn, cBuf, context, cGot>>
peerVars == <<said, bEnd, bIn>>
remoteVars == <<link, addr, bound, busy, pending, bGot, bBuf>>
vars == <<loopVars, clientVars, peerVars, remoteVars, idle, stranded>>

TypeOK ==
  /\ ready \subseteq Clients \cup Remotes
  /\ closing \subseteq Clients /\ errors \subseteq Remotes
  /\ up \in [Clients -> {"up", "shut", "down", "gone"}]
  /\ cEnd \in [Clients -> BOOLEAN]
  /\ \A c \in Clients : context[c].client \in Remotes \cup {None}
  /\ link \in [Remotes -> {"none", "connecting", "accepted", "refused", "failed",
                           "up", "shut", "down", "orphan"}]
  /\ addr \in [Remotes -> Targets \cup {"none"}]
  /\ bound \in [Remotes -> Clients \cup {None}] /\ busy \in [Remotes -> BOOLEAN]
  /\ \A t \in Targets : ToSet(idle[t]) \subseteq Remotes
  /\ stranded \subseteq Clients

Init ==
  /\ ready = {} /\ closing = {} /\ errors = {}
  /\ up = [c \in Clients |-> "up"] /\ asked = [c \in Clients |-> 0]
  /\ cEnd = [c \in Clients |-> FALSE]
  /\ cIn = [c \in Clients |-> <<>>] /\ cBuf = [c \in Clients |-> <<>>]
  /\ context = [c \in Clients |-> NewContext] /\ cGot = [c \in Clients |-> <<>>]
  /\ link = [r \in Remotes |-> "none"] /\ addr = [r \in Remotes |-> "none"]
  /\ bound = [r \in Remotes |-> None] /\ busy = [r \in Remotes |-> FALSE]
  /\ pending = [r \in Remotes |-> <<>>]
  /\ bGot = [r \in Remotes |-> <<>>] /\ said = [r \in Remotes |-> 0]
  /\ bEnd = [r \in Remotes |-> FALSE]
  /\ bIn = [r \in Remotes |-> <<>>] /\ bBuf = [r \in Remotes |-> <<>>]
  /\ idle = [t \in Targets |-> <<>>]
  /\ stranded = {}

-----------------------------------------------------------------------------
(* What the peers say.                                                     *)

Request(c, i) == [k \in 1..(Plan[c][i].body + 1) |-> <<c, i, k - 1>>]
Answer(c, i) == [k \in 1..(Plan[c][i].answer + 1) |-> <<c, i, k - 1>>]

Asks == [c \in Clients |-> FlattenSeq([i \in 1..Len(Plan[c]) |-> Request(c, i)])]
Answers == [c \in Clients |-> FlattenSeq([i \in 1..Len(Plan[c]) |-> Answer(c, i)])]

(* What the gateway says itself: 401, 404, 429 or 502. *)
Own == <<None, 0, 0>>

Ends(u) == u[3] = Plan[u[1]][u[2]].body              \* u is the end of a request
IsLast(u) == u # Own /\ u[3] = Plan[u[1]][u[2]].answer \* u is the end of an answer

(* What a backend that was sent those units has to say. *)
Due(units) ==
  FlattenSeq([j \in 1..Len(units) |->
                IF Ends(units[j]) THEN Answer(units[j][1], units[j][2]) ELSE <<>>])

(* A client sends the next unit: of this request, or of the next one when  *)
(* it has the answer to the last.                                          *)
ClientSends(c) ==
  /\ up[c] \in {"up", "shut"} /\ ~cEnd[c] /\ asked[c] < Len(Asks[c])
  /\ LET u == Asks[c][asked[c] + 1] IN
     /\ u[3] = 0 /\ u[2] > 1 => cGot[c] # <<>> /\ IsLast(Last(cGot[c]))
                                /\ Last(cGot[c])[2] = u[2] - 1
     /\ cIn' = [cIn EXCEPT ![c] = Append(@, u)]
  /\ asked' = [asked EXCEPT ![c] = @ + 1]
  /\ UNCHANGED <<loopVars, up, cEnd, cBuf, context, cGot, peerVars, remoteVars,
                 idle, stranded>>

MayEnd == Quantify(Clients, LAMBDA c : cEnd[c]) + Quantify(Remotes, LAMBDA r : bEnd[r])
          < MaxEnds

ClientEnds(c) ==
  /\ up[c] \in {"up", "shut"} /\ ~cEnd[c] /\ MayEnd
  /\ cEnd' = [cEnd EXCEPT ![c] = TRUE]
  /\ UNCHANGED <<loopVars, up, asked, cIn, cBuf, context, cGot, peerVars,
                 remoteVars, idle, stranded>>

(* A backend accepts or refuses the connection. *)
BackendDecides(r) ==
  /\ link[r] = "connecting"
  /\ \E outcome \in {"accepted", "refused"} : link' = [link EXCEPT ![r] = outcome]
  /\ UNCHANGED <<loopVars, clientVars, peerVars, addr, bound, busy, pending,
                 bGot, bBuf, idle, stranded>>

BackendSends(r) ==
  /\ link[r] \in {"up", "shut"} /\ ~bEnd[r] /\ said[r] < Len(Due(bGot[r]))
  /\ said' = [said EXCEPT ![r] = @ + 1]
  /\ bIn' = [bIn EXCEPT ![r] = Append(@, Due(bGot[r])[said[r] + 1])]
  /\ UNCHANGED <<loopVars, clientVars, bEnd, remoteVars, idle, stranded>>

BackendEnds(r) ==
  /\ link[r] \in {"up", "shut"} /\ ~bEnd[r] /\ MayEnd
  /\ bEnd' = [bEnd EXCEPT ![r] = TRUE]
  /\ UNCHANGED <<loopVars, clientVars, said, bIn, remoteVars, idle, stranded>>

-----------------------------------------------------------------------------
(* The loop: Poll, the handlers of what was ready in any order, and the    *)
(* functors queued by then.                                                *)

Pollable ==
  {c \in Clients : up[c] \in {"up", "shut"} /\ (cIn[c] # <<>> \/ cEnd[c])}
  \cup {r \in Remotes :
          \/ link[r] \in {"accepted", "refused"}
          \/ link[r] \in {"up", "shut"} /\ (bIn[r] # <<>> \/ bEnd[r])}

Poll ==
  /\ ready = {} /\ closing = {} /\ errors = {}
  /\ ready' = Pollable /\ ready' # {}
  /\ UNCHANGED <<closing, errors, clientVars, peerVars, remoteVars, idle, stranded>>

Handling(x) == x \in ready /\ ready' = ready \ {x}

(* A RemoteClient nobody refers to is destroyed.  Its TcpClient lives on   *)
(* with a connection, whose callbacks find nobody; an attempt is given up. *)
Orphaned(l, pool, ctx) ==
  [r \in Remotes |->
     IF /\ l[r] \notin {"none", "orphan"}
        /\ \A t \in Targets : r \notin ToSet(pool[t])
        /\ \A c \in Clients : ctx[c].client # r
     THEN "orphan" ELSE l[r]]

(* std::erase: the members of gone go, the others keep their order. *)
Without(s, gone) ==
  LET kept[i \in 0..Len(s)] ==
        IF i = 0 THEN <<>>
        ELSE IF s[i] \in gone THEN kept[i - 1] ELSE Append(kept[i - 1], s[i])
  IN  kept[Len(s)]

(* errorCallback_ takes an ended connection out of the pool; the           *)
(* connections of clients that have gone are destroyed with their context. *)
RunFunctors ==
  /\ ready = {} /\ closing \cup errors # {}
  /\ closing' = {} /\ errors' = {}
  /\ up' = [c \in Clients |-> IF c \in closing THEN "gone" ELSE up[c]]
  /\ context' = [c \in Clients |-> IF c \in closing THEN NewContext ELSE context[c]]
  /\ idle' = [t \in Targets |-> Without(idle[t], errors)]
  /\ link' = Orphaned(link, idle', context')
  /\ UNCHANGED <<ready, asked, cEnd, cIn, cBuf, cGot, peerVars, addr, bound, busy,
                 pending, bGot, bBuf, stranded>>

-----------------------------------------------------------------------------
(* Sending, either way.                                                    *)

(* TcpConnection::send to a client, if its connection is up. *)
ToClient(c, units) == IF up[c] = "up" THEN [cGot EXCEPT ![c] = @ \o units] ELSE cGot

Shut(l, x) == IF l[x] = "up" THEN [l EXCEPT ![x] = "shut"] ELSE l

(* sendToBackend: a connection takes the units, if it is not shut down; if *)
(* there is none they are put off.                                         *)
ToBackend(r, units) ==
  /\ bGot' = IF link'[r] = "up" THEN [bGot EXCEPT ![r] = @ \o units] ELSE bGot
  /\ pending' = IF link'[r] \in {"up", "shut"} THEN pending
                ELSE [pending EXCEPT ![r] = @ \o units]

Take(s, n) == SubSeq(s, 1, n)
Drop(s, n) == SubSeq(s, n + 1, Len(s))

-----------------------------------------------------------------------------
(* The client's side: LB_Server.                                           *)

(* onMessage while a body is expected.  Without a RemoteClient there is no *)
(* step to take: the code dereferences a null pointer (see BodyHasClient). *)
ClientBody(c) ==
  /\ Handling(c) /\ cIn[c] # <<>>
  /\ ExpectingBody(context[c]) /\ context[c].client # None
  /\ LET p == context[c]
         buf == cBuf[c] \o cIn[c]
         n == Min({Len(buf), BytesRemaining(p)})
         after == ConsumeBody(p, n) IN
     /\ UNCHANGED link
     /\ ToBackend(p.client, Take(buf, n))
     /\ cBuf' = [cBuf EXCEPT ![c] = Drop(buf, n)]
     /\ context' = [context EXCEPT ![c] = IF GotAll(after) THEN Reset(after) ELSE after]
  /\ cIn' = [cIn EXCEPT ![c] = <<>>]
  /\ UNCHANGED <<closing, errors, up, asked, cEnd, cGot, peerVars, addr, bound,
                 busy, bBuf, idle, stranded>>

(* parseModelName finds the model in the first part of the body, if that   *)
(* has arrived with the head.                                              *)
NamesModel(buf) == Len(buf) > 1

(* The cluster whose selector gives the address, if the request is let in. *)
Target(c, buf) ==
  LET kind == Plan[c][buf[1][2]].kind IN
  CASE kind = "im" -> "im"
    [] kind = "llm" /\ NamesModel(buf) -> "model"
    [] kind = "llm" /\ ~NamesModel(buf) /\ HasDefault -> "default"
    [] OTHER -> "none"

(* onMessage, the request refused: nothing is consumed and the parser is   *)
(* left as it is.                                                          *)
ClientRefused(c) ==
  /\ Handling(c) /\ cIn[c] # <<>> /\ ~ExpectingBody(context[c])
  /\ LET buf == cBuf[c] \o cIn[c] IN
     /\ Target(c, buf) = "none"
     /\ cBuf' = [cBuf EXCEPT ![c] = buf]
     /\ context' = [context EXCEPT ![c] = ParseRequest(@, Plan[c][buf[1][2]].body)]
  /\ cIn' = [cIn EXCEPT ![c] = <<>>]
  /\ cGot' = ToClient(c, <<Own>>) /\ up' = Shut(up, c)
  /\ UNCHANGED <<closing, errors, asked, cEnd, peerVars, remoteVars, idle, stranded>>

(* The rest of onMessage, with a RemoteClient to carry the request: the    *)
(* head and what there is of the body.                                     *)
Forward(c, r, buf) ==
  LET p == [ParseRequest(context[c], Plan[c][buf[1][2]].body) EXCEPT !.client = r]
      n == Min({Len(buf) - 1, BytesRemaining(p)})
      after == IF n > 0 THEN ConsumeBody(p, n) ELSE p IN
  /\ busy' = [busy EXCEPT ![r] = TRUE] /\ bound' = [bound EXCEPT ![r] = c]
  /\ ToBackend(r, Take(buf, n + 1))
  /\ cBuf' = [cBuf EXCEPT ![c] = Drop(buf, n + 1)] /\ cIn' = [cIn EXCEPT ![c] = <<>>]
  /\ context' = [context EXCEPT ![c] = IF GotAll(after) THEN Reset(after) ELSE after]
  /\ UNCHANGED <<closing, errors, up, asked, cEnd, cGot, peerVars, bBuf>>

Asking(c, t) == /\ Handling(c) /\ cIn[c] # <<>> /\ ~ExpectingBody(context[c])
                /\ Target(c, cBuf[c] \o cIn[c]) = t

(* Mutant: the connection stays in the pool while it is lent. *)
BorrowCopying(c, t) ==
  /\ Asking(c, t) /\ idle[t] # <<>>
  /\ LET r == Last(idle[t]) IN
     /\ stranded' = IF link[r] = "down" THEN stranded \cup {c} ELSE stranded
     /\ UNCHANGED <<link, addr, idle>>
     /\ Forward(c, r, cBuf[c] \o cIn[c])

(* borrowConnection from the pool, whose last connection may have ended in *)
(* this iteration.                                                         *)
BorrowIdle(c, t) ==
  /\ Asking(c, t) /\ idle[t] # <<>>
  /\ idle' = [idle EXCEPT ![t] = Front(@)]
  /\ LET r == Last(idle[t]) IN
     /\ stranded' = IF link[r] = "down" THEN stranded \cup {c} ELSE stranded
     /\ UNCHANGED <<link, addr>>
     /\ Forward(c, r, cBuf[c] \o cIn[c])

(* borrowConnection makes a RemoteClient; connect() may fail at once, and  *)
(* nobody hears.                                                           *)
BorrowNew(c, t) ==
  /\ Asking(c, t) /\ idle[t] = <<>>
  /\ \E r \in Remotes :
       /\ link[r] = "none" /\ \A s \in 1..(r - 1) : link[s] # "none"
       /\ addr' = [addr EXCEPT ![r] = t]
       /\ \/ link' = [link EXCEPT ![r] = "connecting"] /\ UNCHANGED stranded
          \/ link' = [link EXCEPT ![r] = "failed"] /\ stranded' = stranded \cup {c}
       /\ Forward(c, r, cBuf[c] \o cIn[c])
  /\ UNCHANGED idle

(* handleClose: onConnection only logs; the connection goes with the       *)
(* functors, and its context with it.                                      *)
ClientDown(c) ==
  /\ Handling(c) /\ cIn[c] = <<>>
  /\ up' = [up EXCEPT ![c] = "down"] /\ closing' = closing \cup {c}
  /\ UNCHANGED <<errors, asked, cEnd, cIn, cBuf, context, cGot, peerVars,
                 remoteVars, idle, stranded>>

-----------------------------------------------------------------------------
(* The backend's side: RemoteClient.                                       *)

(* Mutant: what was put off is not sent. *)
RemoteUpNotFlushing(r) ==
  /\ Handling(r) /\ link[r] = "accepted"
  /\ link' = [link EXCEPT ![r] = "up"]
  /\ UNCHANGED <<closing, errors, clientVars, peerVars, addr, bound, busy, pending,
                 bGot, bBuf, idle, stranded>>

(* onConnection, up: what was put off is sent. *)
RemoteUp(r) ==
  /\ Handling(r) /\ link[r] = "accepted"
  /\ link' = [link EXCEPT ![r] = "up"]
  /\ bGot' = [bGot EXCEPT ![r] = pending[r]]
  /\ pending' = [pending EXCEPT ![r] = <<>>]
  /\ UNCHANGED <<closing, errors, clientVars, peerVars, addr, bound, busy, bBuf,
                 idle, stranded>>

(* The connector gives up; a TcpClient has no callback for that. *)
RemoteRefused(r) ==
  /\ Handling(r) /\ link[r] = "refused"
  /\ link' = [link EXCEPT ![r] = "failed"]
  /\ stranded' = stranded \cup {bound[r]}
  /\ UNCHANGED <<closing, errors, clientVars, peerVars, addr, bound, busy, pending,
                 bGot, bBuf, idle>>

(* Mutant: a connection is returned whether or not there is room. *)
ReturnAlways(r, p) ==
  /\ bound' = [bound EXCEPT ![r] = None] /\ busy' = [busy EXCEPT ![r] = FALSE]
  /\ pending' = [pending EXCEPT ![r] = <<>>]
  /\ idle' = [idle EXCEPT ![addr[r]] = Append(@, r)]
  /\ link' = Orphaned(link, idle', [context EXCEPT ![bound[r]] = p])

(* returnConnection: into the pool, or closed and let go. *)
Return(r, p) ==
  /\ bound' = [bound EXCEPT ![r] = None] /\ busy' = [busy EXCEPT ![r] = FALSE]
  /\ pending' = [pending EXCEPT ![r] = <<>>]
  /\ idle' = IF Len(idle[addr[r]]) < MaxIdle
             THEN [idle EXCEPT ![addr[r]] = Append(@, r)] ELSE idle
  /\ link' = Orphaned(link, idle', [context EXCEPT ![bound[r]] = p])

(* What is the client's of a body: all of a chunked one, no more than is   *)
(* missing of another.                                                     *)
Relayed(p, buf) ==
  LET n == IF p.chunked THEN Len(buf) ELSE Min({Len(buf), BytesRemaining(p)}) IN
  [units |-> Take(buf, n), rest |-> Drop(buf, n),
   p |-> IF p.chunked \/ n = 0 THEN p ELSE ConsumeBody(p, n)]

Finished(p, units) == IF p.chunked THEN \E u \in ToSet(units) : IsLast(u)
                                   ELSE GotAll(p)

(* onMessage for a client that is there: the head if it is due, then what  *)
(* there is of the body; with its end the connection is returned.          *)
RemoteMessage(r) ==
  LET c == bound[r]
      buf == bBuf[r] \o bIn[r]
      q == Plan[c][buf[1][2]]
      inBody == ExpectingBody(context[c])
      p == IF inBody THEN context[c]
                     ELSE ParseResponse(context[c], q.answer, q.chunked)
      out == Relayed(p, IF inBody THEN buf ELSE Tail(buf))
      done == Finished(out.p, out.units) IN
  /\ Handling(r) /\ link[r] \in {"up", "shut"} /\ bIn[r] # <<>>
  /\ c # None /\ up[c] # "gone" /\ busy[r]
  /\ cGot' = ToClient(c, IF inBody THEN out.units ELSE <<Head(buf)>> \o out.units)
  /\ bBuf' = [bBuf EXCEPT ![r] = out.rest] /\ bIn' = [bIn EXCEPT ![r] = <<>>]
  /\ context' = [context EXCEPT ![c] = IF done THEN Reset(out.p) ELSE out.p]
  /\ IF done THEN Return(r, context'[c]) ELSE UNCHANGED <<bound, busy, pending, idle, link>>
  /\ UNCHANGED <<closing, errors, up, asked, cEnd, cIn, cBuf, said, bEnd, addr,
                 bGot, stranded>>

(* Mutant: the client is not told. *)
RemoteDownSilently(r) ==
  /\ Handling(r) /\ link[r] \in {"up", "shut"} /\ bIn[r] = <<>>
  /\ link' = [link EXCEPT ![r] = "down"] /\ errors' = errors \cup {r}
  /\ UNCHANGED <<closing, clientVars, peerVars, addr, bound, busy, pending, bGot,
                 bBuf, idle, stranded>>

(* onConnection, down: 502 for the client that waits, and errorCallback_   *)
(* is queued.                                                              *)
RemoteDown(r) ==
  /\ Handling(r) /\ link[r] \in {"up", "shut"} /\ bIn[r] = <<>>
  /\ link' = [link EXCEPT ![r] = "down"] /\ errors' = errors \cup {r}
  /\ IF busy[r] /\ up[bound[r]] # "gone"
       THEN cGot' = ToClient(bound[r], <<Own>>) /\ up' = Shut(up, bound[r])
       ELSE UNCHANGED <<cGot, up>>
  /\ UNCHANGED <<closing, asked, cEnd, cIn, cBuf, context, peerVars, addr, bound,
                 busy, pending, bGot, bBuf, idle, stranded>>

-----------------------------------------------------------------------------
ClientTurn(c) ==
  \/ ClientBody(c) \/ ClientRefused(c) \/ ClientDown(c)
  \/ \E t \in Targets : BorrowIdle(c, t) \/ BorrowNew(c, t)

RemoteTurn(r) == RemoteUp(r) \/ RemoteRefused(r) \/ RemoteMessage(r) \/ RemoteDown(r)

Loop ==
  \/ Poll \/ RunFunctors
  \/ \E c \in Clients : ClientTurn(c)
  \/ \E r \in Remotes : RemoteTurn(r)

Peers ==
  \/ \E c \in Clients : ClientSends(c) \/ ClientEnds(c)
  \/ \E r \in Remotes : BackendDecides(r) \/ BackendSends(r) \/ BackendEnds(r)

Next == Loop \/ Peers

Spec == Init /\ [][Next]_vars

BackendTurn(r) == BackendDecides(r) \/ BackendSends(r) \/ BackendEnds(r)

(* The loop runs, and the backends decide on connections and answer or     *)
(* end: they take finitely many steps, so it is enough that some backend   *)
(* takes one as long as one can.                                           *)
FairSpec == Spec /\ WF_vars(Loop) /\ WF_vars(\E r \in Remotes : BackendTurn(r))

-----------------------------------------------------------------------------
(* Properties.                                                             *)

(* A client gets the answers to its own requests, in their order and each  *)
(* whole before the next, at most cut off by an answer of the gateway      *)
(* itself, after which it gets nothing (L7/RemoteClient.cc:48-132).        *)
AnswersInOrder ==
  \A c \in Clients :
    \/ IsPrefix(cGot[c], Answers[c])
    \/ cGot[c] # <<>> /\ Last(cGot[c]) = Own /\ IsPrefix(Front(cGot[c]), Answers[c])

(* However requests share connections, a backend reads one whole request   *)
(* after the other, and none that another was sent                         *)
(* (L7/LB_Server.h:97-181, ConnecitonPool.cc:10-51).                       *)
RequestsWhole ==
  \A r \in Remotes :
    /\ \A j \in DOMAIN bGot[r] :
         LET u == bGot[r][j] IN
         IF u[3] = 0 THEN j = 1 \/ Ends(bGot[r][j - 1])
                     ELSE j > 1 /\ bGot[r][j - 1] = <<u[1], u[2], u[3] - 1>>
    /\ \A s \in Remotes \ {r} : ToSet(bGot[r]) \cap ToSet(bGot[s]) = {}

(* A RemoteClient is lent to one client, which holds it, or lies in the    *)
(* pool of its node once, with nothing of the last client left and nothing *)
(* to come (L7/RemoteClient.h:16-24, ConnecitonPool.cc:53-70).             *)
LentOrIdle ==
  /\ TypeOK
  /\ \A c \in Clients, r \in Remotes :
       context[c].client = r => busy[r] /\ bound[r] = c
  /\ \A t \in Targets : Len(idle[t]) <= MaxIdle
  /\ \A t \in Targets : \A j \in DOMAIN idle[t] :
       LET r == idle[t][j] IN
       /\ addr[r] = t /\ link[r] \in {"up", "down"} /\ ~busy[r] /\ bound[r] = None
       /\ pending[r] = <<>> /\ bIn[r] = <<>> /\ bBuf[r] = <<>>
       /\ said[r] = Len(Due(bGot[r]))
       /\ \A i \in 1..(j - 1) : idle[t][i] # r

(* c has sent a request whole, and has neither heard of it, nor left, nor  *)
(* been given a connection that cannot come up.                             *)
Waiting(c) ==
  /\ asked[c] > 0 /\ Ends(Asks[c][asked[c]])
  /\ ~cEnd[c] /\ c \notin stranded
  /\ \/ cGot[c] = <<>>
     \/ Last(cGot[c]) # Own /\ ~(IsLast(Last(cGot[c]))
                                /\ Last(cGot[c])[2] = Asks[c][asked[c]][2])

(* A client hears of every request it has sent whole, from a backend or    *)
(* from the gateway, unless it leaves first or was given a connection that *)
(* cannot come up (L7/RemoteClient.cc:13-47).                              *)
RequestsSettled == \A c \in Clients : []<>~Waiting(c)

(* README.md:118: a body in other packets than the head is supported.  It  *)
(* always finds the RemoteClient that carries the request                  *)
(* (L7/LB_Server.h:97-104).                                                *)
BodyHasClient ==
  \A c \in Clients :
    c \in ready /\ cIn[c] # <<>> /\ ExpectingBody(context[c])
    => context[c].client # None
=============================================================================
