------------------------------ MODULE HttpServer ------------------------------
(***************************************************************************)
(* One connection of the HTTP server (muduoZ/net/HttpServer/): the bytes   *)
(* the peer sends, Buffer::readFd, HttpRequest::parseMessage and           *)
(* HttpServer::onMessage.  All of it runs on the connection's loop, in     *)
(* one callback per read event, in the steps                               *)
(*   idle -> read (the loop of readFd) -> parse (the loop of parseMessage) *)
(*        -> answer (the rest of onMessage) -> idle.                       *)
(*                                                                         *)
(* The peer sends well-formed requests, one after another, and does not    *)
(* wait for answers; where the stream is cut into messages is up to the    *)
(* network.  A word of a request line or header is a cell, and so are a    *)
(* space, a colon, a question mark, CR and LF; a line cut within a word is *)
(* as bad as one cut before it.                                            *)
(*                                                                         *)
(* When a call of readFd loses data (Garbles in Buffer.tla) the model      *)
(* stops, with pc = "garbled": what the parser makes of it is not followed.*)
(*                                                                         *)
(* The states ExpectBody and GotAll have no step in parseMessage here:     *)
(* "state_ == ExpectBody" (HttpRequest.cc:42) is a comparison, and         *)
(* onMessage resets a request that is GotAll before the next call.         *)
(***************************************************************************)
EXTENDS Buffer, SequencesExt

CONSTANTS
    Methods,        (* what the first request may be made of               *)
    Queries,
    Headers,        (* values of the header Connection                     *)
    MaxRequests     (* requests sent                                       *)

ASSUME ConstantsOK ==
    /\ Methods \subseteq {"GET", "POST", "PUT", "DELETE", "HEAD", "OPTIONS"}
    /\ \A q \in Queries : q \in Seq(ToSet(q)) /\ ToSet(q) \cap {" ", "CR", "LF"} = {}
    /\ Headers \subseteq {"close", "Keep-Alive"}
    /\ MaxRequests \in Nat \ {0}

VARIABLES
    asked,          (* the first request                                   *)
    stream,         (* all the peer is going to send                       *)
    arrived,        (* how much of it has come to the socket               *)
    taken,          (* how much of it readFd has taken from the socket     *)
    first,          (* did the first call of parseMessage see the whole    *)
                    (* first request?                                      *)
    inputBuffer_,
    iovec,          (* local to readFd                                     *)
    pc,
    passed,         (* how much of the stream the parser has passed        *)
    succeed,        (* local to parseMessage                               *)
    request,        (* HttpRequest; of headers_, only Connection           *)
    conn            (* the connection's state_, and what was sent          *)

sentVars == <<asked, stream>>
vars == <<sentVars, arrived, taken, first, inputBuffer_, iovec, pc, passed, succeed, request, conn>>

-------------------------------------------------------------------------------
(* What the peer sends.                                                    *)

Crlf == <<"CR", "LF">>
Versions == {"HTTP/1.0", "HTTP/1.1"}

Target(path, query) == path \o (IF query = <<>> THEN <<>> ELSE <<"?">> \o query)

RequestLine(r) == <<r.method_, " ">> \o Target(r.path_, r.query_) \o <<" ", r.version_>>

Header(value) == IF value = <<>> THEN <<>> ELSE <<"Connection", ":", " ">> \o value \o Crlf

Request(r) == RequestLine(r) \o Crlf \o Header(r.connection) \o Crlf

(* Requests as the parser should know them in the end.                     *)
Requests ==
    [state_ : {"GotAll"}, method_ : Methods, path_ : {<<"/">>}, query_ : Queries,
     version_ : Versions, connection : {<<h>> : h \in Headers} \cup {<<>>}]

(* The requests after the first one are as simple as can be.               *)
Simple == [state_ |-> "GotAll", method_ |-> "GET", path_ |-> <<"/">>, query_ |-> <<>>,
           version_ |-> "HTTP/1.1", connection |-> <<>>]

NewRequest == [state_ |-> "ExpectRequestLine", method_ |-> "Invalid", path_ |-> <<>>,
               query_ |-> <<>>, version_ |-> "Unknown", connection |-> <<>>]

Repeated(seq, n) == [i \in 1 .. n * Len(seq) |-> seq[((i - 1) % Len(seq)) + 1]]

(* With the swap of reset() all is as in a new one.                        *)
reset == NewRequest

Init ==
    /\ asked \in Requests
    /\ stream = Request(asked) \o Repeated(Request(Simple), MaxRequests - 1)
    /\ arrived = 0 /\ taken = 0 /\ first = "none"
    /\ inputBuffer_ = NewBuffer /\ iovec = Iovec(NewBuffer)
    /\ pc = "idle" /\ passed = 0 /\ succeed = FALSE
    /\ request = NewRequest
    /\ conn = [state_ |-> "Connected", sent |-> <<>>]

(* Something arrives before a read or between two readv; at other times it *)
(* would not be noticed before the next read.                              *)
Arrive(n) ==
    /\ n <= Len(stream)
    /\ pc \in {"idle", "reread"}
    /\ arrived' = n
    /\ UNCHANGED <<sentVars, taken, first, inputBuffer_, iovec, pc, passed, succeed, request, conn>>

-------------------------------------------------------------------------------
(* readFd.                                                                 *)

StartRead ==
    /\ pc = "idle" /\ arrived > taken
    /\ iovec' = Iovec(inputBuffer_)
    /\ pc' = "read"
    /\ UNCHANGED <<sentVars, arrived, taken, first, inputBuffer_, passed, succeed, request, conn>>

Readv ==
    /\ pc \in {"read", "reread"} /\ arrived > taken
    /\ LET n == IF arrived - taken <= Capacity(iovec) THEN arrived - taken ELSE Capacity(iovec)
           cells == SubSeq(stream, taken + 1, taken + n)
       IN  IF Garbles(inputBuffer_, iovec, cells, pc = "reread")
           THEN pc' = "garbled" /\ UNCHANGED <<taken, inputBuffer_>>
           ELSE /\ pc' = "reread" /\ taken' = taken + n
                /\ inputBuffer_' = Received(inputBuffer_, iovec, cells)
    /\ UNCHANGED <<sentVars, arrived, first, iovec, passed, succeed, request, conn>>

(* EAGAIN: the callback is called.                                         *)
EndRead ==
    /\ pc = "reread" /\ arrived = taken
    /\ pc' = "parse" /\ succeed' = FALSE
    /\ iovec' = Iovec(NewBuffer)
    /\ first' = IF first # "none" THEN first ELSE IF taken >= Len(Request(asked)) THEN "whole" ELSE "cut"
    /\ UNCHANGED <<sentVars, arrived, taken, inputBuffer_, passed, request, conn>>

-------------------------------------------------------------------------------
(* parseMessage.                                                           *)

(* Cells before the next CRLF, or all there are.                           *)
Text == Readable(inputBuffer_)
CrlfAt == {i \in 1 .. Len(Text) - 1 : SubSeq(Text, i, i + 1) = Crlf}
HasLine == CrlfAt # {}
Line == IF HasLine THEN SubSeq(Text, 1, (CHOOSE i \in CrlfAt : \A j \in CrlfAt : i <= j) - 1)
                   ELSE Text

(* The cells of a line before, and after, the first of a kind.             *)
FirstOf(line, cell) == SelectInSeq(line, LAMBDA c : c = cell)
Before(line, cell) == IF Contains(line, cell) THEN SubSeq(line, 1, FirstOf(line, cell) - 1) ELSE line
After(line, cell) == SubSeq(line, FirstOf(line, cell) + 1, Len(line))

setMethod(r, text) ==
    [r EXCEPT !.method_ = IF text \in {<<"GET">>, <<"POST">>, <<"PUT">>, <<"DELETE">>, <<"HEAD">>}
                          THEN Head(text) ELSE "Invalid"]

(* With a mistake: the question mark goes to the query.                  *)
MarkInQuery(r, text) ==
    IF Contains(text, "?")
    THEN [r EXCEPT !.path_ = Before(text, "?"), !.query_ = <<"?">> \o After(text, "?")]
    ELSE [r EXCEPT !.path_ = text]

(* The code looks for the question mark in all of the line; here it is in  *)
(* the target if anywhere.                                                 *)
SetTarget(r, text) ==
    IF Contains(text, "?")
    THEN [r EXCEPT !.path_ = Before(text, "?"), !.query_ = After(text, "?")]
    ELSE [r EXCEPT !.path_ = text]

setVersion(r, text) ==
    [r EXCEPT !.version_ = IF text \in {<<v>> : v \in Versions} THEN Head(text) ELSE "Unknown"]

(* The request after the line, which may end anywhere: parsing stops at    *)
(* the first thing that is missing or unknown.                             *)
parseRequestLine(r, line) ==
    LET rest == After(line, " ")
        method == setMethod(r, Before(line, " "))
        target == SetTarget(method, Before(rest, " "))
        version == After(rest, " ")
    IN  CASE ~Contains(line, " ") -> r
          [] Contains(line, " ") /\ (method.method_ = "Invalid" \/ ~Contains(rest, " ")) -> method
          [] Contains(line, " ") /\ method.method_ # "Invalid" /\ Contains(rest, " ") ->
                 IF version = <<>> THEN target ELSE setVersion(target, version)

(* Was there all that the line must have?                                  *)
LineOK(line) ==
    LET rest == After(line, " ")
    IN  /\ Contains(line, " ") /\ setMethod(NewRequest, Before(line, " ")).method_ # "Invalid"
        /\ Contains(rest, " ") /\ setVersion(NewRequest, After(rest, " ")).version_ # "Unknown"

PassLine ==
    /\ inputBuffer_' = haveReadForLen(inputBuffer_, Len(Line) + 2)
    /\ passed' = passed + Len(Line) + 2

ParseStep(stepState, more) ==
    /\ pc = "parse" /\ request.state_ = stepState
    /\ pc' = IF more THEN "parse" ELSE "answer"
    /\ UNCHANGED <<sentVars, arrived, taken, first, iovec, conn>>

(* With a mistake: the state is kept if the line is bad.                 *)
StaysOnBadLine ==
    /\ ParseStep("ExpectRequestLine", LineOK(Line))
    /\ PassLine
    /\ succeed' = TRUE
    /\ request' = [parseRequestLine(request, Line) EXCEPT
                      !.state_ = IF LineOK(Line) THEN "ExpectHeaders" ELSE @]

(* The line is taken as it is, complete or not; the index moves by two     *)
(* cells more than the line, though there may be no CRLF to pass; and      *)
(* whatever the line was, headers come next.                               *)
ParseRequestLine ==
    /\ ParseStep("ExpectRequestLine", LineOK(Line))
    /\ PassLine
    /\ succeed' = TRUE
    /\ request' = [parseRequestLine(request, Line) EXCEPT !.state_ = "ExpectHeaders"]

(* The value of a header, without the spaces around it.                    *)
ValueOf(line) ==
    LET text == After(line, ":")
        word == {i \in 1 .. Len(text) : text[i] # " "}
    IN  IF word = {} THEN <<>> ELSE SubSeq(text, Min(word), Max(word))

parseHeader(r, line) ==
    IF Before(line, ":") = <<"Connection">> THEN [r EXCEPT !.connection = ValueOf(line)] ELSE r

ParseHeader ==
    /\ HasLine /\ Contains(Line, ":")
    /\ ParseStep("ExpectHeaders", TRUE)
    /\ PassLine
    /\ request' = parseHeader(request, Line)
    /\ UNCHANGED succeed

(* A line without a colon, empty or not, ends the headers; it is not       *)
(* taken out of the buffer.                                                *)
EndOfHeaders ==
    /\ HasLine /\ ~Contains(Line, ":")
    /\ ParseStep("ExpectHeaders", FALSE)
    /\ request' = [request EXCEPT !.state_ = "GotAll"]
    /\ UNCHANGED <<inputBuffer_, passed, succeed>>

NoLine ==
    /\ ~HasLine
    /\ ParseStep("ExpectHeaders", FALSE)
    /\ UNCHANGED <<inputBuffer_, passed, succeed, request>>

-------------------------------------------------------------------------------
(* onMessage.                                                              *)

(* Connection::send and shutDown, as far as they matter here.              *)
send(c, response) ==
    IF c.state_ = "Connected" THEN [c EXCEPT !.sent = Append(@, response)] ELSE c

shutDown(c) == IF c.state_ = "Connected" THEN [c EXCEPT !.state_ = "Disconnecting"] ELSE c

(* send without a length sends as many bytes as a pointer has; the first   *)
(* word of the text has just as many.                                      *)
sendText(c, text) == send(c, SubSeq(text, 1, 1))

BadRequestText == <<"HTTP/1.1", " ", "400", " ", "Bad", " ", "Request">> \o Crlf \o Crlf
BadRequest(c) == shutDown(sendText(c, BadRequestText))

(* HttpResponse: the status line fits the array of addToBuffer exactly.    *)
StatusLine == <<"HTTP/1.1", " ", "200", " ", "OK">>

Response(connection) ==
    StatusLine \o Crlf \o Header(connection) \o Crlf

KeepConnection ==
    /\ request.connection # <<"close">>
    /\ request.version_ = "HTTP/1.0" => request.connection = <<"Keep-Alive">>

(* With a mistake: the connection stays open.                              *)
RespondOnly(c) == send(c, Response(IF KeepConnection THEN <<"Keep-Alive">> ELSE <<"close">>))

Respond(c) ==
    IF KeepConnection THEN send(c, Response(<<"Keep-Alive">>))
                      ELSE shutDown(send(c, Response(<<"close">>)))

Answer ==
    /\ pc = "answer" /\ pc' = "idle"
    /\ LET c == IF succeed THEN conn ELSE BadRequest(conn)
           gotAll == request.state_ = "GotAll"
       IN  /\ conn' = IF gotAll THEN Respond(c) ELSE c
           /\ request' = IF gotAll THEN reset ELSE request
    /\ succeed' = FALSE
    /\ UNCHANGED <<sentVars, arrived, taken, first, inputBuffer_, iovec, passed>>

-------------------------------------------------------------------------------
Next ==
    \/ \E n \in arrived + 1 .. Len(stream) : Arrive(n)
    \/ StartRead \/ Readv \/ EndRead
    \/ ParseRequestLine \/ ParseHeader \/ EndOfHeaders \/ NoLine
    \/ Answer

Spec == Init /\ [][Next]_vars
-------------------------------------------------------------------------------
TypeOK ==
    /\ 0 <= taken /\ taken <= arrived /\ arrived <= Len(stream) /\ first \in {"none", "cut", "whole"}
    /\ 0 <= inputBuffer_.writeIndex_ /\ inputBuffer_.writeIndex_ <= Len(inputBuffer_.buffer_)
    /\ passed \in 0 .. taken + 2
    /\ inputBuffer_.readIndex_ \in 0 .. inputBuffer_.writeIndex_ + 2
    /\ pc \in {"idle", "read", "reread", "parse", "answer", "garbled"} /\ succeed \in BOOLEAN
    /\ request.state_ \in {"ExpectRequestLine", "ExpectHeaders", "GotAll"}
    /\ conn.state_ \in {"Connected", "Disconnecting"}

(* What is in the buffer is exactly what has been received and not yet     *)
(* passed by the parser, in its order, however often the data has been     *)
(* moved, the vector enlarged or the array on the stack used               *)
(* (Buffer.cc:18-85; Connection.cc:117: buffer and array take everything). *)
InputIsStream == Text = SubSeq(stream, passed + 1, taken)

(* When a good answer goes out, the parser has got from the buffer what    *)
(* the peer put into its first request, and nothing else                   *)
(* (HttpRequest.cc:77-118): method, path, query, version and the value of  *)
(* the header.                                                             *)
ParsedIsAsked ==
    pc = "answer" /\ succeed /\ request.state_ = "GotAll" /\ conn.state_ = "Connected"
        => request = asked

(* A connection gets exactly one good answer if its first request arrives  *)
(* in one piece and has a method the parser knows, and none if not,        *)
(* however many requests follow: the empty line left in the buffer makes   *)
(* the next one a bad one (HttpRequest.cc:18-64).                          *)
IsGood(response) == Contains(response, "200")
OneSuccessPerConnection ==
    pc = "idle" => Cardinality({i \in 1 .. Len(conn.sent) : IsGood(conn.sent[i])}) =
                       (IF first = "whole" /\ asked.method_ # "OPTIONS" THEN 1 ELSE 0)

(* The connection is kept exactly as long as every answer has said so, and *)
(* an answer that says close or 400 is the last one.                       *)
Kept(response) == Contains(response, "Keep-Alive")
AnnouncedIsDone ==
    /\ \A i \in 1 .. Len(conn.sent) - 1 : Kept(conn.sent[i])
    /\ pc = "idle" => (conn.state_ = "Connected" <=>
                           \A i \in 1 .. Len(conn.sent) : Kept(conn.sent[i]))
===============================================================================
