------------------------------- MODULE RtspMessage -------------------------------
(***************************************************************************)
(* RTSP messages as the WFD sessions see them, and what one read from the  *)
(* TCP connection yields: services/protocol/rtsp and the common part of    *)
(* WfdSinkSession::OnClientReadData and WfdSourceSession::OnServerReadData.*)
(*                                                                         *)
(* A connection is a sequence of messages, one direction each.  TCP keeps  *)
(* no message boundaries: a read returns one message, several of them      *)
(* spliced together, or, after Fragment, a part of one.                    *)
(***************************************************************************)
EXTENDS Naturals, Sequences

NoMessage == [req |-> FALSE, method |-> "none", session |-> "none", body |-> "none", cseq |-> 0,
              part |-> "none", params |-> <<>>]

\* RtspRequest::Stringify.  body = "none": no Content-Type header and no body.
Request(method, body, cseq) ==
    [NoMessage EXCEPT !.req = TRUE, !.method = method, !.body = body, !.cseq = cseq, !.part = "whole"]

\* RtspResponse::Stringify.  Both ends only ever send RTSP_STATUS_OK.
Response(cseq) == [NoMessage EXCEPT !.method = "OK", !.cseq = cseq, !.part = "whole"]

\* The Session header.  RtspResponse::Parse cuts the timeout behind the identifier off.
WithSession(m, session) == [m EXCEPT !.session = session]

\* The parameters in the body of M3 and M4 (module WfdParams).
WithParams(m, params) == [m EXCEPT !.params = params]

-----------------------------------------------------------------------------
(* The messages of the exchange; what the source asks for in M3, and the     *)
(* methods listed in M2's response, are the same in every session.           *)

RtspRequestOptions(cseq)         == Request("OPTIONS", "none", cseq)
RtspRequestSetup(cseq)           == Request("SETUP", "none", cseq)
RtspRequestPlay(cseq)            == Request("PLAY", "none", cseq)
RtspRequestTeardown(cseq)        == Request("TEARDOWN", "none", cseq)
RtspRequestParameter(get, body, cseq) ==
    Request(IF get THEN "GET_PARAMETER" ELSE "SET_PARAMETER", body, cseq)

M1Request(cseq)          == RtspRequestOptions(cseq)
M2Response(cseq)         == Response(cseq)
M3Request(cseq)          == RtspRequestParameter(TRUE, "query", cseq)
M3Response(cseq, params) == WithParams([Response(cseq) EXCEPT !.body = "caps"], params)
M4Request(cseq, params)  == WithParams(RtspRequestParameter(FALSE, "params", cseq), params)
M5Request(cseq)          == RtspRequestParameter(FALSE, "setup", cseq)
M6Response(cseq, id)     == WithSession(Response(cseq), id)
M7Response(cseq, id)     == WithSession(Response(cseq), id)
IDRRequest(cseq, id)     == WithSession(RtspRequestParameter(FALSE, "idr", cseq), id)
M16Request(cseq, id)     == WithSession(RtspRequestParameter(TRUE, "none", cseq), id)

HasBody(m) == m.body # "none"

\* The wfd_trigger_method in a SET_PARAMETER request, if it is one.
GetTriggerMethod(m) == IF m.body \in {"setup", "teardown"} THEN m.body ELSE "none"

\* A read boundary inside the body of the first message: header and the beginning of the
\* body arrive alone, the rest later.
Fragment(chan) == <<[chan[1] EXCEPT !.part = "head"], [chan[1] EXCEPT !.part = "tail"]>> \o Tail(chan)
CanFragment(chan) == chan # <<>> /\ chan[1].part = "whole" /\ HasBody(chan[1])

\* How many messages one read may return: whole ones are spliced, a part comes alone.
Splittable(chan, n) == /\ n <= Len(chan)
                       /\ n = 1 \/ \A i \in 1..n : chan[i].part = "whole"

-----------------------------------------------------------------------------
(* RtspCommon::ParseMessage cuts the text at blank lines.  A body is found   *)
(* only if exactly two pieces result; otherwise all pieces but the first are *)
(* handed back as the spliced part and the message itself loses its body.    *)

BodyKept(chunk) == Len(chunk) = 1 \/ (Len(chunk) = 2 /\ ~HasBody(chunk[2]))

FirstParsed(chunk) == IF HasBody(chunk[1]) /\ ~BodyKept(chunk)
                      THEN [chunk[1] EXCEPT !.body = "none"] ELSE chunk[1]

\* The request spliced behind a response, if RtspRequest::Parse accepts it.
\* RtspRequest::Parse itself never reports a spliced part.
SplicedRequest(chunk) ==
    IF Len(chunk) > 1 /\ ~HasBody(chunk[1]) /\ chunk[2].req
    THEN FirstParsed(Tail(chunk)) ELSE NoMessage

\* The message that a read hands to HandleResponse or HandleRequest.  A part of a response
\* is never put together again: only requests are parsed from lastMessage_ and the rest.
ReadFirst(chunk, last) ==
    CASE chunk[1].part = "whole" -> FirstParsed(chunk)
      [] chunk[1].part = "head"  -> NoMessage
      [] chunk[1].part = "tail"  -> IF last.part = "head" /\ last.req
                                    THEN [last EXCEPT !.part = "whole"] ELSE NoMessage

\* The message that follows in the same read.
ReadSecond(chunk) == IF chunk[1].part = "whole" /\ ~chunk[1].req
                     THEN SplicedRequest(chunk) ELSE NoMessage

\* lastMessage_ after a read that handled nothing.
ReadKeeps(chunk) == IF chunk[1].part = "head" THEN chunk[1] ELSE NoMessage
=============================================================================
