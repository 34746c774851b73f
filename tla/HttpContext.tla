---------------------------- MODULE HttpContext ----------------------------
(***************************************************************************)
(* The incremental parser of requests (http/HttpContext.cc, HttpRequest.h) *)
(* under HttpServer::onMessage() and onRequest(): a request arrives in any *)
(* number of pieces, parseRequest() goes as far as the bytes in the buffer *)
(* allow, and the response keeps the connection or shuts it down.          *)
(*                                                                         *)
(* A token is a line of the head with its CRLF or a byte of the body,      *)
(* <<kind, n>> for the n-th request.  A line counts as LineSize bytes when *)
(* it is taken for part of a body.  Half a line is not a piece: the parser *)
(* leaves it in the buffer.  A body may hold a CR, a LF and a CRLF, but    *)
(* spells neither a request line nor a header.  Paths, queries and other   *)
(* headers are data.                                                       *)
(***************************************************************************)
EXTENDS Integers, Sequences, FiniteSets

CONSTANTS
  PeerRequests, \* what a peer may send
  MaxRequests,  \* bound of the model: requests the peer sends
  MaxBody       \* bound of the model: bytes of a body

\* HttpRequest::Method.
Methods ==
  {"GET", "POST", "HEAD", "PUT", "DELETE", "TRACE", "OPTIONS", "CONNECT", "PATH"}

\* The Connection header, or none.
ConnectionHeader == {"none", "close", "Keep-Alive", "other"}

\* Bytes of a body: CR, LF and any other.
BodyByte == {"cr", "lf", "byte"}

Body == UNION {[1..n -> BodyByte] : n \in 0..MaxBody}

\* The first word, the version, the Connection and Content-Length headers
\* ("none" and -1 without) and the body.
Request == [word : STRING, version : {"1.0", "1.1", "other"}, connection : ConnectionHeader,
            length : -1..MaxBody, body : Body]

ASSUME HttpContextAssumption ==
  /\ MaxRequests \in Nat /\ MaxBody \in Nat
  /\ PeerRequests \subseteq Request

LineSize == MaxBody + 1

VARIABLES
  buf,          \* the readable part of readBuffer
  parseState_,  \* HttpContext::parseState_
  request_,     \* HttpContext::request_, its body_ a sequence of tokens
  ok,           \* the result of parseRequest()
  io,           \* where the I/O thread is
  coming,       \* tokens on their way from the peer
  requests,     \* history: the requests sent
  served,       \* history: what onRequest() was given, and whether it closed
  shut,         \* the write side is shut down
  overlapped,   \* history: requests sent before the one before was answered
  dead          \* an exception or a signal has ended the process

parserVars == <<parseState_, request_>>
peerVars == <<coming, requests, overlapped>>
outcomeVars == <<served, shut, dead>>
vars == <<buf, parserVars, ok, io, peerVars, outcomeVars>>

\* HttpRequest(), which reset() swaps in.
EmptyRequest ==
  [method_ |-> "GET", version_ |-> "1.1", connection |-> "none", length |-> -1, body_ |-> <<>>]

Init ==
  /\ buf = <<>>
  /\ parseState_ = "kExpectRequestLine"
  /\ request_ = EmptyRequest
  /\ ok = TRUE
  /\ io = "poll"
  /\ coming = <<>> /\ requests = <<>> /\ overlapped = {}
  /\ served = <<>> /\ shut = FALSE
  /\ dead = FALSE

Drop(s, n) == SubSeq(s, n + 1, Len(s))

\* findCRLF(): where the first CRLF in the buffer ends, that of a line or one
\* in a body.
Lines ==
  {i \in DOMAIN buf : \/ buf[i][1] \notin BodyByte
                      \/ i > 1 /\ buf[i][1] = "lf" /\ buf[i - 1][1] = "cr"}
Crlf == CHOOSE i \in Lines : \A j \in Lines : i <= j
HasLine == Lines # {}
Kind == buf[Crlf][1]
Sent == requests[buf[Crlf][2]]
-----------------------------------------------------------------------------
(* The peer.                                                               *)

Tokens(r, n) ==
  <<<<"line", n>>>>
  \o (IF r.connection = "none" THEN <<>> ELSE <<<<"Connection", n>>>>)
  \o (IF r.length = -1 THEN <<>> ELSE <<<<"Content-Length", n>>>>)
  \o <<<<"blank", n>>>>
  \o [i \in 1..Len(r.body) |-> <<r.body[i], n>>]

PeerSends ==
  /\ ~dead /\ Len(requests) < MaxRequests
  /\ \E r \in PeerRequests :
       /\ requests' = Append(requests, r)
       /\ coming' = coming \o Tokens(r, Len(requests) + 1)
  /\ overlapped' = IF Len(served) = Len(requests) THEN overlapped
                   ELSE overlapped \cup {Len(requests) + 1}
  /\ UNCHANGED <<buf, parserVars, ok, io, outcomeVars>>

\* A piece arrives: handleRead() gives it to onMessage().
OnMessage ==
  /\ ~dead /\ io = "poll" /\ coming # <<>>
  /\ \E n \in 1..Len(coming) :
       /\ buf' = buf \o SubSeq(coming, 1, n)
       /\ coming' = Drop(coming, n)
  /\ ok' = TRUE
  /\ io' = "parse"
  /\ UNCHANGED <<parserVars, requests, overlapped, outcomeVars>>
-----------------------------------------------------------------------------
(* parseRequest(), one turn of its loop a step.                            *)

Turn(state) == ~dead /\ io = "parse" /\ parseState_ = state

\* setMethod(): every word is a method, the last ones for want of another.
SetMethod(word) ==
  CASE word \in {"GET", "POST", "HEAD", "PUT", "DELETE", "TRACE", "OPTIONS"} -> word
    [] word = "CONNET" -> "CONNECT"
    [] OTHER -> "PATH"

\* The word before the first space: with bytes before the line, and in a
\* header, none of the words that are known.
FirstWord == IF Crlf = 1 /\ Kind = "line" THEN Sent.word ELSE "unknown"

\* Nothing comes before the CRLF.
EmptyLine == (Kind = "blank" /\ Crlf = 1) \/ (Kind = "lf" /\ Crlf = 2)

\* processRequestLine(); a line it refuses stays in the buffer, and has set
\* the method unless it has no space.
ParseRequestLine ==
  /\ Turn("kExpectRequestLine") /\ HasLine
  /\ IF Kind = "line" /\ Sent.version # "other"
     THEN /\ request_' = [request_ EXCEPT !.method_ = SetMethod(FirstWord),
                                          !.version_ = Sent.version]
          /\ parseState_' = "kExpectHeaders"
          /\ buf' = Drop(buf, Crlf)
          /\ UNCHANGED <<ok, io>>
     ELSE /\ \/ Kind # "line" /\ UNCHANGED request_
             \/ ~EmptyLine /\ request_' = [request_ EXCEPT !.method_ = SetMethod(FirstWord)]
          /\ ok' = FALSE /\ io' = "parsed"
          /\ UNCHANGED <<parseState_, buf>>
  /\ UNCHANGED <<peerVars, outcomeVars>>

\* addHeader(), for the two headers the server looks at.
AddHeader ==
  CASE Kind = "Connection"     -> [request_ EXCEPT !.connection = Sent.connection]
    [] Kind = "Content-Length" -> [request_ EXCEPT !.length = Sent.length]

\* Mutant: the empty line is not retrieved.
RetrieveHeader == IF Kind \in {"Connection", "Content-Length"} THEN Drop(buf, Crlf) ELSE buf

RetrieveLine == Drop(buf, Crlf)

\* A line with no colon is the empty one, or taken for it.
ParseHeaders ==
  /\ Turn("kExpectHeaders") /\ HasLine
  /\ IF Kind \in {"Connection", "Content-Length"}
     THEN request_' = AddHeader /\ UNCHANGED parseState_
     ELSE /\ parseState_' = IF request_.method_ = "POST" THEN "kExpectBody" ELSE "kGotAll"
          /\ UNCHANGED request_
  /\ buf' = RetrieveLine
  /\ UNCHANGED <<ok, io, peerVars, outcomeVars>>

Size(tokens) ==
  Len(tokens) + (LineSize - 1) * Cardinality({i \in DOMAIN tokens : tokens[i][1] \notin BodyByte})

\* std::stoi() of a header that is not there throws, and nothing catches it.
ParseBodyWithoutLength ==
  /\ Turn("kExpectBody") /\ request_.length = -1
  /\ dead' = TRUE
  /\ UNCHANGED <<buf, parserVars, ok, io, peerVars, served, shut>>

\* Everything readable is the body, but for a CRLF and what comes before it.
Rest == IF HasLine THEN Drop(buf, Crlf) ELSE buf

\* Mutant: the body is what came in one piece.
OnePiece(body) == Rest

AppendBody(body) == body \o Rest

ParseBody ==
  /\ Turn("kExpectBody")
  /\ IF request_.length = 0
     THEN parseState_' = "kGotAll" /\ UNCHANGED <<request_, buf>>
     ELSE /\ request_.length > 0 /\ buf # <<>>
          /\ request_' = [request_ EXCEPT !.body_ = AppendBody(@)]
          /\ buf' = <<>>
          /\ parseState_' = IF Size(request_'.body_) = request_.length THEN "kGotAll"
                            ELSE parseState_
  /\ UNCHANGED <<ok, io, peerVars, outcomeVars>>

\* hasMore is false: no line, no body, or the request is complete.
ParseStops ==
  /\ \/ Turn("kExpectRequestLine") /\ ~HasLine
     \/ Turn("kExpectHeaders") /\ ~HasLine
     \/ Turn("kExpectBody") /\ request_.length > 0 /\ buf = <<>>
     \/ Turn("kGotAll")
  /\ io' = "parsed"
  /\ UNCHANGED <<buf, parserVars, ok, peerVars, outcomeVars>>
-----------------------------------------------------------------------------
(* The rest of onMessage().  A response after shutdownWrite() is met by    *)
(* SIGPIPE, which nothing ignores.                                         *)

BadRequest ==
  /\ ~dead /\ io = "parsed" /\ ~ok
  /\ dead' = shut /\ shut' = TRUE
  /\ io' = "poll"
  /\ UNCHANGED <<buf, parserVars, ok, peerVars, served>>

\* onRequest(): the response closes the connection.
Closes(r) == r.connection = "close" \/ (r.version_ = "1.0" /\ r.connection # "Keep-Alive")

\* Mutant: reset() does not swap the headers and the body.
ResetHalf == [request_ EXCEPT !.method_ = "GET", !.version_ = "1.1"]

Reset == EmptyRequest

OnRequest ==
  /\ ~dead /\ io = "parsed" /\ ok /\ parseState_ = "kGotAll"
  /\ IF shut THEN dead' = TRUE /\ UNCHANGED <<served, shut>>
     ELSE /\ served' = Append(served, [method |-> request_.method_,
                                       size |-> Size(request_.body_),
                                       close |-> Closes(request_)])
          /\ shut' = Closes(request_)
          /\ UNCHANGED dead
  /\ parseState_' = "kExpectRequestLine"
  /\ request_' = Reset
  /\ io' = "poll"
  /\ UNCHANGED <<buf, ok, peerVars>>

\* The request is not complete yet.
OnMessageReturns ==
  /\ ~dead /\ io = "parsed" /\ ok /\ parseState_ # "kGotAll"
  /\ io' = "poll"
  /\ UNCHANGED <<buf, parserVars, ok, peerVars, outcomeVars>>
-----------------------------------------------------------------------------
IOStep ==
  \/ OnMessage
  \/ ParseRequestLine \/ ParseHeaders \/ ParseBody \/ ParseBodyWithoutLength \/ ParseStops
  \/ BadRequest \/ OnRequest \/ OnMessageReturns

Next == PeerSends \/ IOStep

Spec == Init /\ [][Next]_vars

\* What the peer has sent arrives, and the I/O thread runs.
FairSpec == Spec /\ WF_vars(IOStep)
-----------------------------------------------------------------------------
\* A request was sent behind a POST that was not answered yet.
BehindPost == \E n \in overlapped : \E m \in 1..(n - 1) : requests[m].word = "POST"

\* A POST says how long its body is, or nothing of it; no other request has a
\* body, which the parser does not expect.
Framed(r) == IF r.word = "POST" THEN r.length \in {-1, Len(r.body)} ELSE r.body = <<>>
Unframed == \E n \in DOMAIN requests : ~Framed(requests[n])

HoldsCrlf(body) == \E i \in 2..Len(body) : body[i - 1] = "cr" /\ body[i] = "lf"

\* POSTs that the parser waits for in vain or dies of: of another length than
\* they say, without a length, or with a CRLF, which it takes for the end of
\* a header when it comes in one piece.
Misread(r) == r.word = "POST" /\ (r.length # Len(r.body) \/ HoldsCrlf(r.body))

Token == ({"line", "Connection", "Content-Length", "blank"} \cup BodyByte) \X (1..MaxRequests)

\* The types; nothing is left in the buffer between two requests of a peer
\* that waits for each answer, if none was refused.
TypeOK ==
  /\ buf \in Seq(Token) /\ coming \in Seq(Token)
  /\ parseState_ \in {"kExpectRequestLine", "kExpectHeaders", "kExpectBody", "kGotAll"}
  /\ request_ \in [method_ : Methods, version_ : {"1.0", "1.1"}, connection : ConnectionHeader,
                   length : -1..MaxBody, body_ : Seq(Token)]
  /\ ok \in BOOLEAN /\ shut \in BOOLEAN /\ dead \in BOOLEAN
  /\ io \in {"poll", "parse", "parsed"}
  /\ requests \in Seq(PeerRequests) /\ Len(requests) <= MaxRequests
  /\ overlapped \subseteq 1..MaxRequests
  /\ served \in Seq([method : Methods, size : Nat, close : BOOLEAN])
  /\ io = "poll" /\ parseState_ = "kExpectRequestLine"
       /\ overlapped = {} /\ ~Unframed /\ ~shut
       => buf = <<>>

\* HTTP/1.1 keeps a connection unless told to close it, HTTP/1.0 closes it
\* unless told to keep it.
ToClose(r) == IF r.version = "1.1" THEN r.connection = "close" ELSE r.connection # "Keep-Alive"

\* However the stream is cut into pieces, onRequest() sees the requests the
\* peer sent, in order, each with the whole of its body and with nothing of
\* its neighbours', neither body nor headers, if no request follows a POST
\* that is not answered and each has the body that it says it has.
ServedAsSent ==
  ~BehindPost /\ ~Unframed =>
    /\ Len(served) <= Len(requests)
    /\ \A n \in DOMAIN served :
         /\ served[n].method = "POST" <=> requests[n].word = "POST"
         /\ served[n].size = Len(requests[n].body)
         /\ served[n].close = ToClose(requests[n])

\* A request is answered when the last piece of it has come, without waiting
\* for further bytes, if the peer waits for each answer and each of its POSTs
\* says how long it is and holds no CRLF.
RequestIsAnswered ==
  \A n \in 1..MaxRequests :
    (Len(requests) >= n) ~>
      (Len(served) >= n \/ shut \/ overlapped # {} \/ \E m \in DOMAIN requests : Misread(requests[m]))
=============================================================================
