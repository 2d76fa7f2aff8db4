----------------------------- MODULE RequestHandler -----------------------------
(***************************************************************************)
(* What CallBack::request (callback.cpp) does with one connection, call    *)
(* after call: read until nothing is left, parse (http_parse.cpp), look at *)
(* the headers (http_request.h), find the file, write a response           *)
(* (http_response.cpp), and close or wait for more.  HttpServer models the *)
(* same calls as they interleave with the rest of the server; here they    *)
(* run alone and their contents matter.                                    *)
(*                                                                         *)
(* What travels to the server is a sequence of tokens: the text of a       *)
(* request line, the text of a header, and the line end.  A read may come  *)
(* between any two.  The sizes of a response count as little as they have  *)
(* to for the comparison with st_size.                                     *)
(***************************************************************************)
EXTENDS Integers, Sequences

CONSTANTS Paths, NoPath,
          MaxRequests,    \* bounds the requests of the client
          Clients         \* the kinds of client, "patient" or "hasty"

ASSUME RequestHandlerAssumption == /\ NoPath \notin Paths
                                   /\ MaxRequests \in Nat
                                   /\ Clients \subseteq {"patient", "hasty"}

VARIABLES \* the client; a patient one sends well-formed requests as a whole,
          \* reads all it gets and sends the next request after the response
          client,
          asked,          \* its requests so far
          unsent,         \* what it still has to send of the last one
          inbox,          \* the bytes the socket holds
          gone,           \* it has closed its end
          replies,        \* the responses it got, if it is patient
          \* the HttpRequest, which lives as long as the connection
          path,           \* path_
          connection,     \* headers_["Connection"], or "none"
          \* the locals of the callback
          buf,            \* buf
          lines,          \* what buf held when parseRequest was called
          state,          \* HttpParse::state_
          response,       \* closeConnection_, statusCode_ and st_size
          pc              \* where the callback is, or "armed" between two calls

clientVars  == <<client, asked, unsent, inbox, gone>>
requestVars == <<path, connection>>
localVars   == <<buf, lines, state, response>>
vars == <<clientVars, requestVars, localVars, replies, pc>>

-------------------------------------------------------------------------------
\* Tokens.  A request line may name an unknown method or version.

CRLF          == [kind |-> "crlf"]
Line(p, form) == [kind |-> "line", path |-> p, form |-> form]
Header(value) == [kind |-> "header", value |-> value]

Forms  == {"ok", "badMethod", "badVersion"}
Values == {"keep-alive", "close"}

\* A request for p: its line, a Connection header or none, an empty line.
Request == [path : Paths, form : Forms, connection : Values \cup {"none"}]

Headers(r) == IF r.connection = "none" THEN <<CRLF>>
              ELSE <<Header(r.connection), CRLF, CRLF>>

Tokens(r) == <<Line(r.path, r.form), CRLF>> \o Headers(r)

Statuses == {"none", "200", "403", "404"}

\* The sizes that occur: of a response's head; of a file, or whatever st_size is
\* when stat did not set it.
HeadSize == 1
Sizes    == 0 .. 2

\* HttpResponse(false) and, before stat, a size nobody reads.
NewResponse == [close |-> FALSE, status |-> "none", size |-> 0]

Init == /\ client \in Clients
        /\ asked = <<>> /\ unsent = <<>> /\ inbox = <<>> /\ gone = FALSE
        /\ replies = <<>>
        /\ path = NoPath /\ connection = "none"
        /\ buf = <<>> /\ lines = <<>>
        /\ state = "kExpectRequestLine"
        /\ response = NewResponse
        /\ pc = "armed"

-------------------------------------------------------------------------------
\* The client.

\* One path is enough for hasty clients, about whose responses nothing is said.
Ask(r) ==
  /\ Len(asked) < MaxRequests
  /\ unsent = <<>> /\ ~gone
  /\ asked' = Append(asked, r)
  /\ \/ /\ client = "patient"
        /\ Len(replies) = Len(asked) /\ r.form = "ok"
        /\ inbox' = inbox \o Tokens(r)
        /\ UNCHANGED unsent
     \/ /\ client = "hasty"
        /\ r.path = CHOOSE p \in Paths : TRUE
        /\ unsent' = Tokens(r)
        /\ UNCHANGED inbox
  /\ UNCHANGED <<client, gone, replies, requestVars, localVars, pc>>

Send == /\ unsent # <<>>
        /\ inbox' = Append(inbox, Head(unsent))
        /\ unsent' = Tail(unsent)
        /\ UNCHANGED <<client, asked, gone, replies, requestVars, localVars, pc>>

HangUp == /\ ~gone
          /\ gone' = TRUE
          /\ UNCHANGED <<client, asked, unsent, inbox, replies, requestVars, localVars, pc>>

-------------------------------------------------------------------------------
\* The call begins, on an event, with a buffer, a parser and a response of its
\* own.
Begin == /\ pc = "armed"
         /\ inbox # <<>> \/ gone
         /\ pc' = "read"
         /\ buf' = <<>>
         /\ state' = "kExpectRequestLine"
         /\ response' = NewResponse
         /\ UNCHANGED <<clientVars, requestVars, lines, replies>>

\* http_close_connect, when nothing happens in time.
Expire == /\ pc = "armed"
          /\ pc' = "closed"
          /\ UNCHANGED <<clientVars, requestVars, localVars, replies>>

\* One readFd.
Read == /\ pc = "read"
        /\ inbox # <<>>
        /\ buf' = buf \o inbox
        /\ inbox' = <<>>
        /\ UNCHANGED <<client, asked, unsent, gone, requestVars, lines, state, response, replies, pc>>

\* The end of the stream is an error, whatever was read before it.
ReadEnd == /\ pc = "read"
           /\ inbox = <<>> /\ gone
           /\ pc' = "close"
           /\ UNCHANGED <<clientVars, requestVars, localVars, replies>>

\* Faulty variant: EAGAIN does not end the loop.
ReadAllAgain == /\ pc = "read"
                /\ inbox = <<>> /\ ~gone
                /\ UNCHANGED vars

\* EAGAIN.
ReadAll == /\ pc = "read"
           /\ inbox = <<>> /\ ~gone
           /\ pc' = "parse"
           /\ lines' = buf
           /\ UNCHANGED <<clientVars, requestVars, buf, state, response, replies>>

-------------------------------------------------------------------------------
\* HttpParse::parseRequest, one iteration of its loop at a time.

CrlfAt(s) == {i \in DOMAIN s : s[i] = CRLF}

\* findCRLF: the place of the first line end in s, which has one.
findCRLF(s) == CHOOSE i \in CrlfAt(s) : \A j \in CrlfAt(s) : i <= j

HasLine == CrlfAt(buf) # {}

\* The text before the first line end; retrieveUntil(crlf + 2).
Text     == SubSeq(buf, 1, findCRLF(buf) - 1)
AfterLine == SubSeq(buf, findCRLF(buf) + 1, Len(buf))

\* processRequestLine fails on what is not a request line.
IsRequestLine(text) == text # <<>> /\ Head(text).kind = "line"

\* The colon of a header.
HasColon(text) == text # <<>> /\ Head(text).kind = "header"

\* Faulty variant: the path of a connection is set once.
ParseRequestLineOnce ==
  /\ pc = "parse" /\ state = "kExpectRequestLine" /\ HasLine
  /\ IsRequestLine(Text) /\ Head(Text).form = "ok"
  /\ path' = IF path = NoPath THEN Head(Text).path ELSE path
  /\ buf' = AfterLine
  /\ state' = "kExpectHeaders"
  /\ UNCHANGED <<clientVars, connection, lines, response, replies, pc>>

ParseRequestLine ==
  /\ pc = "parse" /\ state = "kExpectRequestLine" /\ HasLine
  /\ IsRequestLine(Text) /\ Head(Text).form = "ok"
  /\ path' = Head(Text).path
  /\ buf' = AfterLine
  /\ state' = "kExpectHeaders"
  /\ UNCHANGED <<clientVars, connection, lines, response, replies, pc>>

\* A line that is none, or a method nobody knows; a version nobody knows is
\* noticed when the path has been set.  The line stays in the buffer.
ParseBadRequestLine ==
  /\ pc = "parse" /\ state = "kExpectRequestLine" /\ HasLine
  /\ IsRequestLine(Text) => Head(Text).form # "ok"
  /\ path' = IF IsRequestLine(Text) /\ Head(Text).form = "badVersion"
             THEN Head(Text).path ELSE path
  /\ pc' = "handle"
  /\ UNCHANGED <<clientVars, connection, localVars, replies>>

\* Faulty variant: the value is overwritten.
addHeaderOverwrites(value) == value

\* addHeader inserts into the map, which keeps the value it has.
addHeader(value) == IF connection = "none" THEN value ELSE connection

ParseHeader ==
  /\ pc = "parse" /\ state = "kExpectHeaders" /\ HasLine
  /\ HasColon(Text)
  /\ connection' = addHeader(Head(Text).value)
  /\ buf' = AfterLine
  /\ UNCHANGED <<clientVars, path, lines, state, response, replies, pc>>

\* Faulty variant: the line that ends the headers is left in the buffer.
ParseEndUnread ==
  /\ pc = "parse" /\ state = "kExpectHeaders" /\ HasLine
  /\ ~HasColon(Text)
  /\ state' = "kGotAll"
  /\ pc' = "handle"
  /\ UNCHANGED <<clientVars, requestVars, buf, lines, response, replies>>

\* A line without a colon ends the headers, empty or not.
ParseEnd ==
  /\ pc = "parse" /\ state = "kExpectHeaders" /\ HasLine
  /\ ~HasColon(Text)
  /\ buf' = AfterLine
  /\ state' = "kGotAll"
  /\ pc' = "handle"
  /\ UNCHANGED <<clientVars, requestVars, lines, response, replies>>

\* No line left.
ParseStops == /\ pc = "parse" /\ ~HasLine
              /\ pc' = "handle"
              /\ UNCHANGED <<clientVars, requestVars, localVars, replies>>

-------------------------------------------------------------------------------
\* The rest of the callback, whatever parseRequest returned.

\* Any other value leaves the flag as it is.
handle_keep_alive(r) == [r EXCEPT !.close = CASE connection = "keep-alive" -> FALSE
                                              [] connection = "close"      -> TRUE
                                              [] OTHER                     -> r.close]

\* addHeaderFunc binds handle_keep_alive if there is a Connection header; what an
\* earlier call has bound is replaced, as headers stay.
handleFunc(r) == IF connection # "none" THEN handle_keep_alive(r) ELSE r

HandleHeaders == /\ pc = "handle"
                 /\ response' = handleFunc(response)
                 /\ pc' = "stat"
                 /\ UNCHANGED <<clientVars, requestVars, buf, lines, state, replies>>

\* stat, and what the file gives.  Without a path it is the root directory.
\* When stat fails, sbuf stays as it was: not initialised.
FileMissing(n) == /\ pc = "stat"
                  /\ response' = [response EXCEPT !.status = "404", !.size = n]
                  /\ pc' = "write"
                  /\ UNCHANGED <<clientVars, requestVars, buf, lines, state, replies>>

FileDenied(n) == /\ pc = "stat"
                 /\ response' = [response EXCEPT !.status = "403", !.size = n]
                 /\ pc' = "write"
                 /\ UNCHANGED <<clientVars, requestVars, buf, lines, state, replies>>

FileFound(n) == /\ pc = "stat" /\ path # NoPath
                /\ response' = [response EXCEPT !.status = "200", !.size = n]
                /\ pc' = "write"
                /\ UNCHANGED <<clientVars, requestVars, buf, lines, state, replies>>

\* The string is made from MAP_FAILED.
FileVanishes(n) == /\ pc = "stat" /\ path # NoPath /\ n > 0
                   /\ pc' = "crashed"
                   /\ UNCHANGED <<clientVars, requestVars, localVars, replies>>

\* What appendToBuffer makes: a head, and a body unless there is none.
Total == HeadSize + (CASE response.status = "200" -> response.size
                       [] response.status = "404" -> 1
                       [] OTHER -> 0)

\* What write may return; it is called once.  The socket of a patient client has
\* room for a response.
Counts == {Total} \cup (IF gone \/ client = "hasty" THEN {-1} ELSE {})
                  \cup (IF client = "hasty" THEN 1 .. Total ELSE {})

\* The flag is looked at if count = st_size only: the body of the first if is
\* commented out (callback.cpp:86), and the second if has become its body.
Write(count) ==
  /\ pc = "write"
  /\ replies' = IF client = "patient" /\ count > 0
                THEN Append(replies, [path |-> path, close |-> response.close])
                ELSE replies
  /\ pc' = IF count = response.size /\ response.close THEN "close" ELSE "armed"
  /\ buf' = <<>> /\ lines' = <<>>
  /\ response' = NewResponse
  /\ UNCHANGED <<clientVars, requestVars, state>>

Close == /\ pc = "close"
         /\ pc' = "closed"
         /\ UNCHANGED <<clientVars, requestVars, localVars, replies>>

-------------------------------------------------------------------------------
Callback == \/ Begin
            \/ Read \/ ReadEnd \/ ReadAll
            \/ ParseRequestLine \/ ParseBadRequestLine
            \/ ParseHeader \/ ParseEnd \/ ParseStops
            \/ HandleHeaders
            \/ \E n \in Sizes : FileMissing(n) \/ FileDenied(n) \/ FileFound(n) \/ FileVanishes(n)
            \/ \E count \in Counts : Write(count)
            \/ Close

Next == \/ \E r \in Request : Ask(r)
        \/ Send
        \/ HangUp
        \/ Expire
        \/ Callback

Spec == Init /\ [][Next]_vars /\ WF_vars(Callback)

-------------------------------------------------------------------------------
\* How the lines of a call should be parsed: where each line begins, and which
\* of them is the first without a colon after the request line.
Starts == {1} \cup {i + 1 : i \in CrlfAt(lines)}

TextAt(i) == SubSeq(lines, i, (CHOOSE j \in CrlfAt(lines) :
                                 j >= i /\ \A k \in CrlfAt(lines) : k >= i => j <= k) - 1)

WholeLines == {i \in Starts : \E j \in CrlfAt(lines) : j >= i}

LineOk == 1 \in WholeLines /\ IsRequestLine(TextAt(1)) /\ Head(TextAt(1)).form = "ok"

EndOfHeaders == {i \in WholeLines \ {1} : ~HasColon(TextAt(i))}

\* However the bytes were cut into bursts, the parser goes on to the headers
\* exactly if a request line in order leads the burst, stops exactly at the
\* first line without a colon, and leaves what follows unread
\* (http_parse.cpp:53).
ParsedRight ==
  pc = "handle" =>
    /\ state = "kExpectRequestLine" <=> ~LineOk
    /\ state = "kGotAll" <=> LineOk /\ EndOfHeaders # {}
    /\ state = "kGotAll" =>
         \E i \in EndOfHeaders : /\ \A j \in EndOfHeaders : i <= j
                                 /\ buf = SubSeq(lines, i + Len(TextAt(i)) + 1, Len(lines))

\* For a patient client: the Connection header that governs a response is the first one the connection has
\* brought, with whatever request (http_request.h:114).
HeaderUntil(i) == LET with == {j \in 1 .. i : asked[j].connection # "none"}
                  IN  IF with = {} THEN "none"
                      ELSE asked[CHOOSE j \in with : \A k \in with : j <= k].connection

FirstHeaderGoverns == \A i \in DOMAIN replies : replies[i].close <=> HeaderUntil(i) = "close"

\* Each response to a patient client is about the path of the request it answers,
\* also on a connection that has served others, whatever they left in the
\* HttpRequest; and a closed connection answers nothing.
Exchange == INSTANCE HttpExchange WITH
  pending <- IF client = "patient" /\ Len(asked) > Len(replies)
             THEN asked[Len(asked)].path ELSE NoPath,
  answer  <- IF replies = <<>> THEN NoPath ELSE replies[Len(replies)].path,
  open    <- pc \notin {"closed", "crashed"}

Implements == Exchange!Spec

\* A patient client's request is answered or its connection closed, if only by
\* the end of the server.
Answered == client = "patient" /\ Len(asked) > Len(replies)
              ~> Len(asked) = Len(replies) \/ pc \in {"closed", "crashed"}

\* A response that says Connection: close is the last: "close the connection"
\* (callback.cpp:89).
CloseHonoured == pc = "armed" /\ replies # <<>> => ~replies[Len(replies)].close
-------------------------------------------------------------------------------
\* What makes the safety properties above inductive (see RequestHandlerProofs).
Token == {CRLF} \cup {Line(p, form) : p \in Paths, form \in Forms}
                \cup {Header(value) : value \in Values}

Response == [close : BOOLEAN, status : Statuses, size : Sizes]

TypeOK ==
  /\ client \in Clients
  /\ asked \in Seq(Request)
  /\ unsent \in Seq(Token) /\ inbox \in Seq(Token)
  /\ gone \in BOOLEAN
  /\ replies \in Seq([path : Paths \cup {NoPath}, close : BOOLEAN])
  /\ path \in Paths \cup {NoPath}
  /\ connection \in Values \cup {"none"}
  /\ buf \in Seq(Token) /\ lines \in Seq(Token)
  /\ state \in {"kExpectRequestLine", "kExpectHeaders", "kGotAll"}
  /\ response \in Response
  /\ pc \in {"armed", "read", "parse", "handle", "stat", "write",
             "close", "closed", "crashed"}

\* The server is done with the connection.
Final == pc \in {"close", "closed", "crashed"}

\* A patient client that awaits nothing has left nothing to be read.
Idle == \/ Final
        \/ /\ pc = "armed" \/ (pc = "read" /\ gone)
           /\ inbox = <<>>
           /\ connection = HeaderUntil(Len(asked))

\* Where the request of a patient client that awaits the response to it is, and
\* which Connection header the connection has by then.
Unparsed == connection = HeaderUntil(Len(asked) - 1)
Parsed   == /\ connection = HeaderUntil(Len(asked))
            /\ path = asked[Len(asked)].path

Awaited(r) ==
  \/ Final
  \/ pc \in {"armed", "read"} /\ inbox = <<>> /\ gone
  \/ pc = "armed" /\ inbox = Tokens(r) /\ Unparsed
  \/ pc = "read" /\ inbox = Tokens(r) /\ buf = <<>> /\ Unparsed
  \/ pc = "read" /\ inbox = <<>> /\ buf = Tokens(r) /\ Unparsed
  \/ /\ pc = "parse" /\ inbox = <<>>
     /\ \/ state = "kExpectRequestLine" /\ buf = Tokens(r) /\ Unparsed
        \/ state = "kExpectHeaders" /\ buf = Headers(r) /\ path = r.path /\ Unparsed
        \/ state = "kExpectHeaders" /\ buf = <<CRLF>> /\ Parsed
  \/ pc = "handle" /\ inbox = <<>> /\ Parsed
  \/ /\ pc \in {"stat", "write"} /\ inbox = <<>> /\ Parsed
     /\ response.close <=> connection = "close"

PatientInv ==
  client = "patient" =>
    /\ unsent = <<>>
    /\ \A i \in DOMAIN asked : asked[i].form = "ok"
    /\ \/ Len(asked) = Len(replies) /\ Idle
       \/ Len(asked) = Len(replies) + 1 /\ Awaited(asked[Len(asked)])
    /\ FirstHeaderGoverns

\* A call begins with a parser and a response of its own.
CallInv ==
  /\ client = "hasty" => replies = <<>>
  /\ pc \in {"read", "parse", "handle"} => response = NewResponse
  /\ pc = "read" => state = "kExpectRequestLine"

\* The parser is at the beginning of a line, past the request line if that was
\* in order, and every line it has passed since had a colon.
ParseInv ==
  pc = "parse" =>
    \/ state = "kExpectRequestLine" /\ buf = lines
    \/ /\ state = "kExpectHeaders" /\ LineOk
       /\ \E p \in Starts \ {1} :
            /\ buf = SubSeq(lines, p, Len(lines))
            /\ \A i \in WholeLines \ {1} : i < p => HasColon(TextAt(i))

HandlerInv == TypeOK /\ PatientInv /\ CallInv /\ ParseInv /\ ParsedRight
=================================================================================
