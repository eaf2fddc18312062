------------------------------ MODULE HttpServer ------------------------------
(***************************************************************************)
(* dwater/net/http: the parser of HttpContext, fed with whatever pieces of *)
(* the stream the reads of a connection bring, and HttpServer's answers.   *)
(* The stream is a sequence of tokens: the content of a line is one token, *)
(* its CR and its LF two more, so that a read may end anywhere, between CR *)
(* and LF too.  Of the headers only Connection is kept, of the response    *)
(* the status and how its end is told.  Path, query and times are left     *)
(* out; what http_callback_ goes by is the method.                         *)
(***************************************************************************)
EXTENDS Integers, Sequences, SequencesExt

CONSTANTS
    Requests,       \* the requests clients send: sequences of lines
    MaxRequests,    \* bound: requests on one connection
    Callbacks       \* the http_callback_s: the methods each answers with
                    \* 404 and SetCloseConnection(true)

Methods == {"kget", "kpost", "kput", "kdelete"}

(* DefaultHttpCallback knows nothing *)
DefaultHttpCallback == Methods

(* the contents of lines: a request line, a header, text without a colon *)
Request(m, v) == [k |-> "request", method |-> m, version |-> v]
Header(f, v) == [k |-> "header", field |-> f, value |-> v]
Text == [k |-> "text"]
Blank == [k |-> "blank"]        \* a line with no content
CR == [k |-> "CR"]
LF == [k |-> "LF"]

VARIABLES
    http_callback_,
    sent,           \* the lines the client sends, from the beginning
    rest,           \* tokens the connection has yet to read
    buf,            \* input_buffer_
    pc,             \* "idle", "parse" or "parsed": where OnMessage is
    ok,             \* what ParseRequest will return
    state_, method_, version_, connection,  \* HttpContext and its request_
    up,             \* the connection is kconnected: Send still sends
    answers,        \* the responses sent
    aborted,        \* SetMethod's assertion failed
    rejected,       \* history: a request line was refused for its version
    pipelined       \* history: data was left in the buffer after a request

contextVars == <<state_, method_, version_, connection>>
vars == <<http_callback_, sent, rest, buf, pc, ok, contextVars, up, answers, aborted, rejected,
          pipelined>>

Tokens(lines) ==
    FlattenSeq([i \in DOMAIN lines |->
        IF lines[i] = Blank THEN <<CR, LF>> ELSE <<lines[i], CR, LF>>])

(* OnConnection gives the connection a new context *)
Init ==
    /\ http_callback_ \in Callbacks
    /\ \E n \in 1 .. MaxRequests : \E rs \in [1 .. n -> Requests] :
        sent = FlattenSeq(rs)
    /\ rest = Tokens(sent) /\ buf = <<>> /\ pc = "idle" /\ ok = TRUE
    /\ state_ = "kexpect_request_line" /\ method_ = "kinvalid"
    /\ version_ = "kunknow" /\ connection = ""
    /\ up = TRUE /\ answers = <<>>
    /\ aborted = FALSE /\ rejected = FALSE /\ pipelined = FALSE

-----------------------------------------------------------------------------
(* Buffer::FindCRLF: where a CR LF begins *)
FindCRLF == {i \in DOMAIN buf : buf[i] = CR /\ i < Len(buf) /\ buf[i + 1] = LF}

FirstCRLF == CHOOSE i \in FindCRLF : \A j \in FindCRLF : i <= j
Line == SubSeq(buf, 1, FirstCRLF - 1)
RetrieveLine == buf' = SubSeq(buf, FirstCRLF + 2, Len(buf))

(* HttpRequest::SetMethod's table; HEAD is assigned to the wrong variable *)
MethodOf(m) ==
    CASE m = "GET" -> "kget" [] m = "POST" -> "kpost"
      [] m = "PUT" -> "kput" [] m = "DELETE" -> "kdelete"
      [] OTHER -> "kinvalid"

VersionOf(v) ==
    CASE v = "HTTP/1.1" -> "khttp11" [] v = "HTTP/1.0" -> "khttp10"
      [] OTHER -> "kunknow"

(* a piece of n tokens arrives and OnMessage is called *)
OnMessage(n) ==
    /\ pc = "idle"
    /\ buf' = buf \o SubSeq(rest, 1, n)
    /\ rest' = SubSeq(rest, n + 1, Len(rest))
    /\ pc' = "parse" /\ ok' = TRUE
    /\ UNCHANGED <<sent, contextVars, up, answers, aborted, rejected, pipelined>>

(* ParseRequest without a complete line to parse *)
NeedMore ==
    /\ pc = "parse" /\ FindCRLF = {}
    /\ pc' = "parsed"
    /\ UNCHANGED <<sent, rest, buf, ok, contextVars, up, answers, aborted, rejected,
                   pipelined>>

(* ParseRequest and ProcessRequestLine on a request line: only a line with  *)
(* a space gets to SetMethod, only a known method to the version; a line    *)
(* that is refused stays in the buffer                                      *)
ParseRequestLine ==
    /\ pc = "parse" /\ state_ = "kexpect_request_line" /\ FindCRLF # {}
    /\ LET spaced == Line # <<>> /\ Line[1].k \in {"request", "header"}
           m == IF spaced /\ Line[1].k = "request" THEN MethodOf(Line[1].method)
                ELSE "kinvalid"
           v == IF m # "kinvalid" THEN VersionOf(Line[1].version) ELSE "kunknow"
       IN
       /\ aborted' = (spaced /\ method_ # "kinvalid")
       /\ method_' = IF spaced THEN m ELSE method_
       /\ version_' = IF v # "kunknow" THEN v ELSE version_
       /\ rejected' = (rejected \/ (m # "kinvalid" /\ v = "kunknow"))
       /\ IF v # "kunknow"
            THEN RetrieveLine /\ state_' = "kexpect_headers" /\ UNCHANGED <<pc, ok>>
            ELSE ok' = FALSE /\ pc' = "parsed" /\ UNCHANGED <<buf, state_>>
    /\ UNCHANGED <<sent, rest, connection, up, answers, pipelined>>

(* HttpRequest::AddHeader on a line with a colon, without the spaces around *)
(* the value; headers_ keeps the last of each field                         *)
AddHeader(line) ==
    connection' = IF line.field = "Connection" THEN line.value ELSE connection

(* GetHeader("Connection") *)
GetHeader == connection

(* ... and on a header line; one without a colon ends the headers *)
ParseHeader ==
    /\ pc = "parse" /\ state_ = "kexpect_headers" /\ FindCRLF # {}
    /\ RetrieveLine
    /\ IF Line # <<>> /\ Line[1].k = "header"
         THEN AddHeader(Line[1]) /\ UNCHANGED <<state_, pc>>
         ELSE state_' = "k_got_all" /\ pc' = "parsed" /\ UNCHANGED connection
    /\ UNCHANGED <<sent, rest, ok, method_, version_, up, answers, aborted, rejected,
                   pipelined>>

(* Send and, if asked for, Shutdown: nothing is sent after a Shutdown *)
Respond(answer, close) ==
    /\ answers' = IF up THEN Append(answers, answer) ELSE answers
    /\ up' = (up /\ ~close)

(* the rest of OnMessage for a request line that was refused *)
BadRequest ==
    /\ pc = "parsed" /\ ~ok
    /\ Respond([status |-> 400, end |-> "close"], TRUE)
    /\ pc' = "idle"
    /\ UNCHANGED <<sent, rest, buf, ok, contextVars, aborted, rejected, pipelined>>

(* OnRequest's choice, what http_callback_ makes of it, and AppendToBuffer: *)
(* Connection: close, or a Content-Length and Connection: Keep-Alive        *)
Asked == GetHeader = "close" \/ (version_ = "khttp10" /\ GetHeader # "Keep-Alive")
Close == Asked \/ method_ \in http_callback_
Response == [status |-> IF method_ \in http_callback_ THEN 404 ELSE 200,
             end |-> IF Close THEN "close" ELSE "length"]

(* mutant: the request is kept *)
ResetState ==
    /\ state_' = "kexpect_request_line"
    /\ UNCHANGED <<method_, version_, connection>>

(* HttpRequest::Swap with a new request *)
SwapRequest == method_' = "kinvalid" /\ version_' = "kunknow" /\ connection' = ""

(* HttpContext::Reset *)
Reset == state_' = "kexpect_request_line" /\ SwapRequest

(* the rest of OnMessage for a complete request: OnRequest and Reset *)
OnRequest ==
    /\ pc = "parsed" /\ ok /\ state_ = "k_got_all"
    /\ Respond(Response, Close)
    /\ Reset
    /\ pipelined' = (pipelined \/ (up /\ ~Close /\ buf # <<>>))
    /\ pc' = "idle"
    /\ UNCHANGED <<sent, rest, buf, ok, aborted, rejected>>

(* ... and for an incomplete one *)
Return ==
    /\ pc = "parsed" /\ ok /\ state_ # "k_got_all"
    /\ pc' = "idle"
    /\ UNCHANGED <<sent, rest, buf, ok, contextVars, up, answers, aborted, rejected,
                   pipelined>>

-----------------------------------------------------------------------------
Next ==
    /\ ~aborted
    /\ \/ \E n \in 1 .. Len(rest) : OnMessage(n)
       \/ NeedMore \/ ParseRequestLine \/ ParseHeader
       \/ BadRequest \/ OnRequest \/ Return
    /\ UNCHANGED http_callback_

Spec == Init /\ [][Next]_vars

-----------------------------------------------------------------------------
(* The reference: what a sequence of complete lines is answered with *)

Acceptable(line) ==
    /\ line.k = "request" /\ MethodOf(line.method) # "kinvalid"
    /\ VersionOf(line.version) # "kunknow"

(* the first line after the request line that is no header *)
HeadEnds(lines) ==
    LET ends == {i \in 2 .. Len(lines) : lines[i].k # "header"} IN
    IF ends = {} THEN 0 ELSE CHOOSE i \in ends : \A j \in ends : i <= j

(* the last Connection header counts *)
ConnectionOf(head) ==
    LET at == {i \in DOMAIN head : head[i].k = "header" /\ head[i].field = "Connection"}
    IN IF at = {} THEN "" ELSE head[CHOOSE i \in at : \A j \in at : i >= j].value

(* 404 and the end of the connection for what the callback does not serve *)
AnswerTo(head) ==
    [status |-> IF MethodOf(head[1].method) \in http_callback_ THEN 404 ELSE 200,
     end |-> IF \/ MethodOf(head[1].method) \in http_callback_
                \/ ConnectionOf(head) = "close"
                \/ /\ head[1].version = "HTTP/1.0"
                   /\ ConnectionOf(head) # "Keep-Alive"
               THEN "close" ELSE "length"]

RECURSIVE AnswersTo(_)
AnswersTo(lines) ==
    IF lines = <<>> THEN <<>>
    ELSE IF ~Acceptable(lines[1]) THEN <<[status |-> 400, end |-> "close"]>>
    ELSE LET e == HeadEnds(lines)
             answer == AnswerTo(SubSeq(lines, 1, e))
         IN IF e = 0 THEN <<>>
            ELSE IF answer.end = "close" THEN <<answer>>
            ELSE <<answer>> \o AnswersTo(SubSeq(lines, e + 1, Len(lines)))

(* However the stream is cut, the answers are, in order, those to its lines *)
(* read in one piece, the last one being the one that says so.  When        *)
(* everything has been read, everything has been answered, unless a read    *)
(* brought the beginning of the next request along: OnMessage answers one   *)
(* request at a time and leaves the next one until more data comes.  And    *)
(* SetMethod's assertion fails only when more data comes for a request line *)
(* that was refused for its version.                                        *)
AnswersExact ==
    /\ pc \in {"idle", "parse", "parsed"}
    /\ state_ \in {"kexpect_request_line", "kexpect_headers", "k_got_all"}
    /\ pc # "parsed" => state_ # "k_got_all"
    /\ IsPrefix(answers, AnswersTo(sent))
    /\ pc = "idle" /\ rest = <<>> /\ ~pipelined /\ ~aborted => answers = AnswersTo(sent)
    /\ ~up <=> answers # <<>> /\ Last(answers).end = "close"
    /\ aborted => rejected
=============================================================================
