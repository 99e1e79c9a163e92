------------------------------ MODULE HttpServer ------------------------------
(***************************************************************************)
(* src/Http/HttpServer.h on one connection: handleRead hands onMessage     *)
(* what has arrived, cut anywhere, and onMessage hands the user whole      *)
(* requests.  One step is one read event, run to its end.                  *)
(***************************************************************************)
EXTENDS HttpParser

VARIABLES
  parser,      \* the ConnState's parser
  body,        \* the ConnState's body
  buffer,      \* the connection's inputBuffer_
  kernel,      \* bytes that have arrived and were not read
  given,       \* how many messages the client has sent
  dispatched,  \* history: the calls of onRequest_
  pipelined    \* history: the client has sent before it had its answer

vars == <<parser, body, buffer, kernel, given, dispatched, pipelined>>

TypeOK ==
  /\ parser.state \in States \ {"kGotAll"}
  /\ parser.bodyRead \in 0..parser.contentLength
  /\ \A bytes \in {body, buffer, kernel} :
       ToSet(bytes) \subseteq UNION {ToSet(Bytes(i)) : i \in 1..given}
  /\ given \in 0..Len(Sent) /\ pipelined \in BOOLEAN

Init ==
  /\ parser = Reset
  /\ body = <<>> /\ buffer = <<>> /\ kernel = <<>>
  /\ given = 0
  /\ dispatched = <<>> /\ pipelined = FALSE

-----------------------------------------------------------------------------

(* Mutant: the body of a request is left to the next one. *)
DispatchKeepingBody(p, b, ok) ==
  /\ dispatched' = Append(dispatched,
                          [request |-> p.header, body |-> b, headers |-> ok])
  /\ body' = b
  /\ parser' = Reset

(* dispatch: the request, its body, then a clean state. *)
Dispatch(p, b, ok) ==
  /\ dispatched' = Append(dispatched,
                          [request |-> p.header, body |-> b, headers |-> ok])
  /\ body' = <<>>
  /\ parser' = Reset

(* collectBody takes what is there of this body and no more. *)
CollectBody(p, b, buf, ok) ==
  LET left == BytesRemaining(p)
      n == IF left < Len(buf) THEN left ELSE Len(buf)
      after == ConsumeBody(p, n)
      whole == b \o SubSeq(buf, 1, n) IN
  /\ buffer' = SubSeq(buf, n + 1, Len(buf))
  /\ IF GotAll(after) THEN Dispatch(after, whole, ok)
                      ELSE parser' = after /\ body' = whole /\ UNCHANGED dispatched

(* onMessage while a body is expected.  This read has gone into the buffer *)
(* the headers' string_views point into, where the head was consumed.      *)
MessageInBody(buf) ==
  /\ ExpectingBody(parser)
  /\ CollectBody(parser, body, buf, FALSE)

(* parseRequest succeeds: the head is consumed, then what there is of the  *)
(* body.  One read makes at most one call of the user.                     *)
MessageHead(buf) ==
  /\ ~ExpectingBody(parser) /\ "complete" \in Verdicts(buf)
  /\ LET p == ParseHead(parser, buf)
         rest == SubSeq(buf, p.headerLen + 1, Len(buf)) IN
     IF ExpectingBody(p) THEN CollectBody(p, body, rest, TRUE)
                         ELSE Dispatch(p, body, TRUE) /\ buffer' = rest

MessagePartial(buf) ==
  /\ ~ExpectingBody(parser) /\ "partial" \in Verdicts(buf)
  /\ buffer' = buf
  /\ UNCHANGED <<parser, body, dispatched>>

(* Not HTTP: everything in the buffer is dropped; nobody is told. *)
MessageMalformed(buf) ==
  /\ ~ExpectingBody(parser) /\ "malformed" \in Verdicts(buf)
  /\ buffer' = <<>>
  /\ UNCHANGED <<parser, body, dispatched>>

(* TcpConnection::handleRead: some of what has arrived, then onMessage. *)
HandleRead ==
  \E k \in 1..Len(kernel) :
    LET buf == buffer \o SubSeq(kernel, 1, k) IN
    /\ kernel' = SubSeq(kernel, k + 1, Len(kernel))
    /\ \/ MessageInBody(buf) \/ MessageHead(buf)
       \/ MessagePartial(buf) \/ MessageMalformed(buf)
    /\ UNCHANGED <<given, pipelined>>

(* The client sends its next message: when it has the answer to the last,  *)
(* or at once.                                                             *)
ClientSends ==
  /\ given < Len(Sent)
  /\ given' = given + 1
  /\ pipelined' = (pipelined \/ Len(dispatched) < given)
  /\ kernel' = kernel \o Bytes(given + 1)
  /\ UNCHANGED <<parser, body, buffer, dispatched>>

Next == HandleRead \/ ClientSends

Spec == Init /\ [][Next]_vars

FairSpec == Spec /\ WF_vars(HandleRead)

-----------------------------------------------------------------------------
(* Properties.                                                             *)

(* However the stream is cut into reads, the user is called with the       *)
(* requests that were sent, in their order, none twice and none left out,  *)
(* each with its own body and nothing of another's (HttpServer.h:88-127).  *)
CallsAsSent ==
  \A i \in 1..Len(dispatched) :
    dispatched[i].request = i /\ dispatched[i].body = Body(i)

(* The byte that follows x in the stream; <<0, 0>> is before the first.    *)
EndOf(i) == IF i = 0 THEN <<0, 0>> ELSE <<i, Len(Bytes(i))>>
After(x) == IF x = EndOf(x[1]) THEN <<x[1] + 1, 1>> ELSE <<x[1], x[2] + 1>>

(* The last byte that was taken for a request. *)
Taken == IF parser.header = None THEN EndOf(Len(dispatched))
         ELSE <<parser.header, Sent[parser.header].head + Len(body)>>

(* No byte is lost, taken twice or out of turn on the way from the socket  *)
(* to the user, while the stream is well formed: those that wait follow    *)
(* the last one that was taken, up to the last one sent                    *)
(* (HttpServer.h:96-118, HttpParser.cc:201-208).                           *)
BytesAccounted ==
  (\A i \in 1..given : Sent[i].wellFormed) =>
    LET stream == <<Taken>> \o buffer \o kernel IN
    /\ \A j \in 2..Len(stream) : stream[j] = After(stream[j - 1])
    /\ Last(stream) = EndOf(given)

(* What the user is called with and what is still on its way are together  *)
(* the stream the client sent, cut at the requests and nowhere else.       *)
RequestsAsSent == TypeOK /\ CallsAsSent /\ BytesAccounted

(* The client that waits for each answer before it sends on gets one: a    *)
(* well formed request is dispatched (HttpServer.h:92-107).                *)
RequestsAreAnswered ==
  \A i \in 1..Len(Sent) :
    (given >= i /\ Sent[i].wellFormed) ~> (Len(dispatched) >= i \/ pipelined)

(* README.md:82: HttpServer dispatches whole requests and its user need    *)
(* not know of packets that hold half a request or several: with nothing   *)
(* left to read, no whole request lies in the buffer.                      *)
NoRequestLeftBehind ==
  kernel = <<>> => "complete" \notin Verdicts(buffer) \/ ExpectingBody(parser)

(* README.md:82 again: the headers the user is given are those sent, even  *)
(* if the body came in a later packet.                                     *)
HeadersAsSent == \A i \in 1..Len(dispatched) : dispatched[i].headers
=============================================================================
