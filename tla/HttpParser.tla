------------------------------ MODULE HttpParser ------------------------------
(***************************************************************************)
(* src/Http/HttpParser.cc: the framing of requests on a byte stream, as    *)
(* operators on the parser's fields.  A byte is a pair of a message and a  *)
(* position in it; picohttpparser is known by its verdicts.                *)
(***************************************************************************)
EXTENDS Naturals, Sequences, SequencesExt

(* Bound: the messages a peer puts on one connection, in order.  A message *)
(* with wellFormed = FALSE is one that phr_parse_request refuses wherever  *)
(* it starts to read; only the last may be one, for what follows it is     *)
(* framed by nobody.                                                       *)
CONSTANT Sent

ASSUME SentAssumption ==
  /\ Sent \in Seq([head : Nat \ {0}, body : Nat, wellFormed : BOOLEAN])
  /\ \A i \in 1..Len(Sent) : ~Sent[i].wellFormed => i = Len(Sent)

Bytes(i) == [k \in 1..(Sent[i].head + Sent[i].body) |-> <<i, k>>]

(* The bytes of a message's body. *)
Body(i) == SubSeq(Bytes(i), Sent[i].head + 1, Len(Bytes(i)))

None == 0   \* no message

-----------------------------------------------------------------------------

(* A parser as constructed and as reset() leaves it. *)
Reset == [state |-> "kExpectHeaders", header |-> None, headerLen |-> 0,
          contentLength |-> 0, bodyRead |-> 0]

States == {"kExpectHeaders", "kExpectBody", "kGotAll"}

ExpectingBody(p) == p.state = "kExpectBody"
GotAll(p) == p.state = "kGotAll"
BytesRemaining(p) == p.contentLength - p.bodyRead

(* What phr_parse_request may say of the bytes in the buffer: a head is    *)
(* complete, it goes on (-2), or this is no request (-1).                  *)
Verdicts(buf) ==
  CASE buf = <<>> -> {"partial"}
    [] buf # <<>> /\ ~Sent[buf[1][1]].wellFormed -> {"partial", "malformed"}
    [] buf # <<>> /\ Sent[buf[1][1]].wellFormed /\ buf[1][2] # 1 ->
         {"partial", "malformed"}
    [] OTHER ->
         IF Len(buf) < Sent[buf[1][1]].head THEN {"partial"} ELSE {"complete"}

(* parseRequest once the head is complete.  content_length_ is assigned    *)
(* only if there is a body.                                                *)
ParseHead(p, buf) ==
  LET i == buf[1][1] IN
  [p EXCEPT !.header = i, !.headerLen = Sent[i].head,
            !.state = IF Sent[i].body > 0 THEN "kExpectBody" ELSE "kGotAll",
            !.contentLength = IF Sent[i].body > 0 THEN Sent[i].body ELSE @]

(* Mutant: the bytes of this read replace the count of those read so far. *)
ConsumeBodyForgettingSum(p, n) ==
  [p EXCEPT !.bodyRead = n,
            !.state = IF n >= p.contentLength THEN "kGotAll" ELSE @]

ConsumeBody(p, n) ==
  LET read == p.bodyRead + n IN
  [p EXCEPT !.bodyRead = read,
            !.state = IF read >= p.contentLength THEN "kGotAll" ELSE @]
=============================================================================
