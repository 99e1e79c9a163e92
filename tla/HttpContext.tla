------------------------------ MODULE HttpContext -----------------------------
(***************************************************************************)
(* src/Proxy/src/L7/HttpContext.h: the parser of a gateway's client and    *)
(* the RemoteClient bound to it, as operators on the context's fields.     *)
(* One parser frames the client's requests and the backend's answers.      *)
(* Lengths are in units: a head is one, a body any number.                 *)
(***************************************************************************)
EXTENDS Naturals

None == 0   \* no RemoteClient

NewContext == [state |-> "kExpectHeaders", isReq |-> TRUE, length |-> 0,
               read |-> 0, chunked |-> FALSE, client |-> None]

ExpectingBody(p) == p.state = "kExpectBody"
GotAll(p) == p.state = "kGotAll"
BytesRemaining(p) == p.length - p.read

(* parseRequest, the head complete: content_length_ is assigned only if    *)
(* there is a body.                                                        *)
ParseRequest(p, body) ==
  [p EXCEPT !.isReq = TRUE,
            !.state = IF body > 0 THEN "kExpectBody" ELSE "kGotAll",
            !.length = IF body > 0 THEN body ELSE @]

(* parseResponse, the head complete: a chunked answer has a body and no    *)
(* length.                                                                 *)
ParseResponse(p, body, chunked) ==
  [p EXCEPT !.isReq = FALSE,
            !.state = IF chunked \/ body > 0 THEN "kExpectBody" ELSE "kGotAll",
            !.length = IF chunked THEN 0 ELSE body,
            !.chunked = chunked]

ConsumeBody(p, n) ==
  [p EXCEPT !.read = @ + n,
            !.state = IF p.read + n >= p.length THEN "kGotAll" ELSE @]

(* reset: after an answer the RemoteClient is let go, too.  HttpParser's   *)
(* reset leaves is_req_.                                                   *)
Reset(p) ==
  [NewContext EXCEPT !.isReq = p.isReq,
                     !.client = IF p.isReq THEN p.client ELSE None]
=============================================================================
