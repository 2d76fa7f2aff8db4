------------------------ MODULE RequestHandlerProofs ------------------------
(***************************************************************************)
(* What RequestHandler promises for any paths, any number of requests and  *)
(* both kinds of client.                                                   *)
(*                                                                         *)
(* The invariant is HandlerInv.  Three of its parts carry the argument.    *)
(* ParseInv says where the parser is: at the beginning of a line, with     *)
(* nothing but headers between that line and the request line; CutLine     *)
(* then shows that one step of the parser takes exactly the next line.     *)
(* PatientInv says, for a client that awaits a response, what of its       *)
(* request is still on the way and which Connection header the connection  *)
(* has by then: up to the step that parses the header, the one of the      *)
(* requests before.  CallInv says what is new at the beginning of a call.  *)
(***************************************************************************)
EXTENDS RequestHandler, SequenceTheorems, WellFoundedInduction, TLAPS

-------------------------------------------------------------------------------
\* The least element of a set of numbers.
LEMMA LeastExists ==
  ASSUME NEW T, T \subseteq Nat, T # {}
  PROVE  \E x \in T : \A y \in T : x <= y
<1>1. PICK x \in T : \A y \in T : <<y, x>> \notin OpToRel(<, Nat)
  BY NatLessThanWellFounded, WFMin
<1>2. \A y \in T : ~(y < x)
  BY <1>1 DEF OpToRel
<1> QED BY <1>2

-------------------------------------------------------------------------------
\* HeaderUntil(i) is the first of the Connection headers of the first i requests.
With(i) == {j \in 1 .. i : asked[j].connection # "none"}

LEMMA HeaderUntilFirst ==
  ASSUME NEW i \in Nat, NEW k \in With(i), \A l \in With(i) : k <= l
  PROVE  HeaderUntil(i) = asked[k].connection
<1> DEFINE first == CHOOSE j \in With(i) : \A l \in With(i) : j <= l
<1>1. first \in With(i) /\ \A l \in With(i) : first <= l
  OBVIOUS
<1>2. With(i) \subseteq Nat
  BY DEF With
<1>3. first = k
  BY <1>1, <1>2
<1>4. HeaderUntil(i) = asked[first].connection
  BY DEF HeaderUntil, With
<1> QED BY <1>3, <1>4

LEMMA HeaderUntilNone ==
  ASSUME NEW i \in Nat, With(i) = {}
  PROVE  HeaderUntil(i) = "none"
  BY DEF HeaderUntil, With

\* One request more matters only if none before it had the header.
LEMMA HeaderUntilStep ==
  ASSUME NEW n \in Nat \ {0}
  PROVE  HeaderUntil(n) = IF HeaderUntil(n - 1) = "none" THEN asked[n].connection
                          ELSE HeaderUntil(n - 1)
<1>1. n - 1 \in Nat /\ n \in Nat
  OBVIOUS
<1>2. With(n) = With(n - 1) \cup (IF asked[n].connection # "none" THEN {n} ELSE {})
  BY DEF With
<1>3. \A j \in With(n - 1) : j \in Nat /\ j < n
  BY DEF With
<1>4. CASE With(n - 1) = {}
  <2>1. HeaderUntil(n - 1) = "none"
    BY <1>1, <1>4, HeaderUntilNone
  <2>2. CASE asked[n].connection = "none"
    BY <1>1, <1>2, <1>4, <2>1, <2>2, HeaderUntilNone
  <2>3. CASE asked[n].connection # "none"
    BY <1>1, <1>2, <1>4, <2>1, <2>3, HeaderUntilFirst
  <2> QED BY <2>2, <2>3
<1>5. CASE With(n - 1) # {}
  <2>1. PICK k \in With(n - 1) : \A l \in With(n - 1) : k <= l
    BY <1>3, <1>5, LeastExists
  <2>2. HeaderUntil(n - 1) = asked[k].connection
    BY <1>1, <2>1, HeaderUntilFirst
  <2>3. \A l \in With(n) : k <= l
    BY <1>2, <1>3, <2>1
  <2>4. k \in With(n)
    BY <1>2
  <2>5. HeaderUntil(n) = asked[k].connection
    BY <1>1, <2>3, <2>4, HeaderUntilFirst
  <2>6. asked[k].connection # "none"
    BY DEF With
  <2> QED BY <2>2, <2>5, <2>6
<1> QED BY <1>4, <1>5

\* A later request does not change what governs the earlier ones.
LEMMA HeaderUntilKept ==
  ASSUME asked \in Seq(Request), NEW r \in Request, asked' = Append(asked, r),
         NEW i \in 0 .. Len(asked)
  PROVE  HeaderUntil(i)' = HeaderUntil(i)
<1>1. \A j \in 1 .. i : asked'[j] = asked[j]
  OBVIOUS
<1>2. With(i)' = With(i) /\ i \in Nat
  BY <1>1 DEF With
<1>3. CASE With(i) = {}
  BY <1>2, <1>3 DEF HeaderUntil, With
<1>4. CASE With(i) # {}
  <2> DEFINE first == CHOOSE j \in With(i) : \A l \in With(i) : j <= l
  <2>1. With(i) \subseteq Nat
    BY DEF With
  <2>2. \E j \in With(i) : \A l \in With(i) : j <= l
    BY <1>4, <2>1, LeastExists
  <2>3. first \in With(i)
    BY <2>2
  <2>4. first \in 1 .. i
    BY <2>3 DEF With
  <2>5. HeaderUntil(i) = asked[first].connection
    BY <1>4 DEF HeaderUntil, With
  <2>6. HeaderUntil(i)' = asked'[CHOOSE j \in With(i)' : \A l \in With(i)' : j <= l].connection
    BY <1>2, <1>4 DEF HeaderUntil, With
  <2>7. HeaderUntil(i)' = asked'[first].connection
    BY <1>2, <2>6
  <2> QED BY <1>1, <2>4, <2>5, <2>7
<1> QED BY <1>3, <1>4
-------------------------------------------------------------------------------
\* The lines of a buffer.

\* What is behind the k-th token.
LEMMA SuffixOf ==
  ASSUME NEW T, NEW s \in Seq(T), NEW k \in 1 .. Len(s), NEW t, t = SubSeq(s, k + 1, Len(s))
  PROVE  /\ t \in Seq(T) /\ Len(t) = Len(s) - k
         /\ \A i \in 1 .. Len(s) - k : t[i] = s[i + k]
<1>1. Len(s) \in Nat /\ k \in Nat /\ k <= Len(s)
  OBVIOUS
<1>2. \A i \in k + 1 .. Len(s) : s[i] \in T
  BY <1>1
<1>3. /\ t \in Seq(T)
      /\ Len(t) = IF k + 1 <= Len(s) THEN Len(s) - (k + 1) + 1 ELSE 0
      /\ \A i \in 1 .. Len(s) - (k + 1) + 1 : t[i] = s[k + 1 + i - 1]
  BY <1>1, <1>2, SubSeqProperties
<1> QED BY <1>1, <1>3

\* findCRLF, where there is a line end.
LEMMA FindCRLF ==
  ASSUME NEW s \in Seq(Token), CrlfAt(s) # {}
  PROVE  findCRLF(s) \in CrlfAt(s) /\ \A j \in CrlfAt(s) : findCRLF(s) <= j
<1>1. CrlfAt(s) \subseteq Nat
  BY DEF CrlfAt
<1> QED BY <1>1, LeastExists DEF findCRLF

LEMMA FindCRLFIs ==
  ASSUME NEW s \in Seq(Token), NEW k \in 1 .. Len(s), s[k] = CRLF,
         \A j \in 1 .. k - 1 : s[j] # CRLF
  PROVE  CrlfAt(s) # {} /\ findCRLF(s) = k
<1>1. k \in CrlfAt(s)
  BY DEF CrlfAt
<1>2. \A j \in CrlfAt(s) : j \in Nat /\ k <= j
  BY DEF CrlfAt
<1>3. PICK f \in CrlfAt(s) : f = findCRLF(s) /\ f <= k
  BY <1>1, FindCRLF
<1>4. f \in Nat /\ k <= f
  BY <1>2
<1>5. f = k
  BY <1>3, <1>4
<1> QED BY <1>1, <1>3, <1>5

\* Subsequences of one element.
LEMMA OneElement ==
  ASSUME NEW S, NEW s \in Seq(S), NEW k \in 1 .. Len(s)
  PROVE  SubSeq(s, k, k) = <<s[k]>>
<1>1. \A i \in k .. k : s[i] \in S
  OBVIOUS
<1>2. /\ SubSeq(s, k, k) \in Seq(S) /\ Len(SubSeq(s, k, k)) = 1
      /\ SubSeq(s, k, k)[1] = s[k]
  BY <1>1, SubSeqProperties
<1> DEFINE t == SubSeq(s, k, k)
<1> HIDE DEF t
<1>3. t \in Seq(S) /\ Len(t) = 1 /\ t[1] = s[k]
  BY <1>2 DEF t
<1>4. t = <<s[k]>>
  BY <1>3
<1> QED BY <1>4 DEF t

\* The kinds of tokens are different tokens.
LEMMA Kinds ==
  /\ CRLF.kind = "crlf"
  /\ \A p, form : Line(p, form).kind = "line" /\ Line(p, form) # CRLF
                  /\ Line(p, form).path = p /\ Line(p, form).form = form
  /\ \A value : Header(value).kind = "header" /\ Header(value) # CRLF
                /\ Header(value).value = value
<1>1. CRLF.kind = "crlf"
  BY DEF CRLF
<1>2. \A p, form : Line(p, form).kind = "line"
                   /\ Line(p, form).path = p /\ Line(p, form).form = form
  BY DEF Line
<1>3. \A value : Header(value).kind = "header" /\ Header(value).value = value
  BY DEF Header
<1> QED BY <1>1, <1>2, <1>3

LEMMA TokensTyped ==
  ASSUME NEW r \in Request
  PROVE  /\ CRLF \in Token /\ Line(r.path, r.form) \in Token
         /\ r.connection # "none" => Header(r.connection) \in Token
         /\ Headers(r) \in Seq(Token) /\ Tokens(r) \in Seq(Token)
         /\ Headers(r) # <<>> /\ Tokens(r) # <<>>
<1>1. r.path \in Paths /\ r.form \in Forms /\ r.connection \in Values \cup {"none"}
  BY DEF Request
<1>2. CRLF \in Token /\ Line(r.path, r.form) \in Token
  BY <1>1 DEF Token
<1>3. r.connection # "none" => Header(r.connection) \in Token
  BY <1>1 DEF Token
<1>4. Headers(r) \in Seq(Token) /\ Headers(r) # <<>>
  BY <1>2, <1>3 DEF Headers
<1>5. Tokens(r) \in Seq(Token) /\ Tokens(r) # <<>>
  BY <1>2, <1>4 DEF Tokens
<1> QED BY <1>2, <1>3, <1>4, <1>5

\* The first line of a request, of a header that is followed by the end, and the
\* end.
LEMMA CutTokens ==
  ASSUME NEW r \in Request, buf = Tokens(r)
  PROVE  HasLine /\ Text = <<Line(r.path, r.form)>> /\ AfterLine = Headers(r)
<1>1. buf \in Seq(Token) /\ Headers(r) \in Seq(Token)
  BY TokensTyped
<1>2. /\ Len(buf) = Len(Headers(r)) + 2 /\ Len(Headers(r)) \in Nat
      /\ buf[1] = Line(r.path, r.form) /\ buf[2] = CRLF
      /\ \A i \in 1 .. Len(Headers(r)) : buf[i + 2] = Headers(r)[i]
  BY <1>1 DEF Tokens
<1>3. HasLine /\ findCRLF(buf) = 2
  BY <1>1, <1>2, FindCRLFIs, Kinds DEF HasLine
<1>4. Text = <<Line(r.path, r.form)>>
  <2>1. Text = SubSeq(buf, 1, 1)
    BY <1>3 DEF Text
  <2> QED BY <1>1, <1>2, <2>1, TokensTyped, OneElement
<1>5. AfterLine = Headers(r)
  BY <1>1, <1>2, <1>3 DEF AfterLine
<1> QED BY <1>3, <1>4, <1>5

LEMMA CutHeaders ==
  ASSUME NEW v \in Values, buf = <<Header(v), CRLF, CRLF>>
  PROVE  HasLine /\ Text = <<Header(v)>> /\ AfterLine = <<CRLF>>
<1>1. buf \in Seq(Token) /\ Len(buf) = 3 /\ buf[1] = Header(v) /\ buf[2] = CRLF
      /\ buf[3] = CRLF
  BY DEF Token
<1>2. HasLine /\ findCRLF(buf) = 2
  <2>1. \A j \in 1 .. 2 - 1 : buf[j] # CRLF
    BY <1>1, Kinds
  <2>2. 2 \in 1 .. Len(buf) /\ buf[2] = CRLF
    BY <1>1
  <2> QED BY <1>1, <2>1, <2>2, FindCRLFIs DEF HasLine
<1>3. Text = <<Header(v)>>
  <2>1. Text = SubSeq(buf, 1, 1)
    BY <1>2 DEF Text
  <2>2. 1 \in 1 .. Len(buf)
    BY <1>1
  <2> QED BY <1>1, <2>1, <2>2, OneElement
<1>4. AfterLine = <<CRLF>>
  <2>1. AfterLine = SubSeq(buf, 3, 3)
    BY <1>1, <1>2 DEF AfterLine
  <2>2. 3 \in 1 .. Len(buf)
    BY <1>1
  <2> QED BY <1>1, <2>1, <2>2, OneElement
<1> QED BY <1>2, <1>3, <1>4

LEMMA CutEnd ==
  ASSUME buf = <<CRLF>>
  PROVE  HasLine /\ Text = <<>> /\ AfterLine = <<>>
<1>1. buf \in Seq(Token) /\ Len(buf) = 1 /\ buf[1] = CRLF
  BY DEF Token
<1>2. HasLine /\ findCRLF(buf) = 1
  <2>1. \A j \in 1 .. 1 - 1 : buf[j] # CRLF
    OBVIOUS
  <2>2. 1 \in 1 .. Len(buf) /\ buf[1] = CRLF
    BY <1>1
  <2> QED BY <1>1, <2>1, <2>2, FindCRLFIs DEF HasLine
<1>3. Text = <<>> /\ AfterLine = <<>>
  BY <1>1, <1>2 DEF Text, AfterLine
<1> QED BY <1>2, <1>3

\* What is left of a buffer is a buffer.
LEMMA AfterLineTyped ==
  ASSUME TypeOK, HasLine
  PROVE  /\ AfterLine \in Seq(Token)
         /\ Text \in Seq(Token)
<1>1. buf \in Seq(Token)
  BY DEF TypeOK
<1>2. findCRLF(buf) \in 1 .. Len(buf)
  BY <1>1, FindCRLF DEF HasLine, CrlfAt
<1>3. AfterLine \in Seq(Token)
  BY <1>1, <1>2 DEF AfterLine
<1>4. Text \in Seq(Token)
  BY <1>1, <1>2 DEF Text
<1> QED BY <1>3, <1>4
-------------------------------------------------------------------------------
\* What a step leaves alone when it does not write the variables concerned.

\* How the lines should be parsed depends on them only.
LEMMA SameLines ==
  ASSUME UNCHANGED lines
  PROVE  /\ Starts' = Starts /\ WholeLines' = WholeLines /\ EndOfHeaders' = EndOfHeaders
         /\ LineOk' <=> LineOk
         /\ \A i : TextAt(i)' = TextAt(i)
<1>1. CrlfAt(lines)' = CrlfAt(lines)
  BY DEF CrlfAt
<1>2. Starts' = Starts
  BY <1>1 DEF Starts
<1>3. WholeLines' = WholeLines
  BY <1>1, <1>2 DEF WholeLines
<1>4. \A i : TextAt(i)' = TextAt(i)
  BY <1>1 DEF TextAt
<1>5. EndOfHeaders' = EndOfHeaders
  BY <1>3, <1>4 DEF EndOfHeaders, HasColon
<1>6. LineOk' <=> LineOk
  BY <1>3, <1>4 DEF LineOk, IsRequestLine
<1> QED BY <1>2, <1>3, <1>4, <1>5, <1>6

LEMMA SameParse ==
  ASSUME ParseInv, ParsedRight, UNCHANGED <<pc, state, buf, lines>>
  PROVE  ParseInv' /\ ParsedRight'
<1>1. ParseInv'
  BY SameLines DEF ParseInv, HasColon
<1>2. ParsedRight'
  BY SameLines DEF ParsedRight
<1> QED BY <1>1, <1>2

LEMMA NotParsing ==
  ASSUME pc' \notin {"parse", "handle"}
  PROVE  ParseInv' /\ ParsedRight'
  BY DEF ParseInv, ParsedRight

LEMMA SameReplies ==
  ASSUME FirstHeaderGoverns, UNCHANGED <<asked, replies>>
  PROVE  FirstHeaderGoverns'
  BY DEF FirstHeaderGoverns, HeaderUntil

LEMMA SameHeaders ==
  ASSUME UNCHANGED <<asked, connection>>
  PROVE  /\ Unparsed' <=> Unparsed
         /\ UNCHANGED path => (Parsed' <=> Parsed)
         /\ (connection = HeaderUntil(Len(asked)))' <=> connection = HeaderUntil(Len(asked))
  BY DEF Unparsed, Parsed, HeaderUntil

\* The request a patient client awaits the response to.
LEMMA LastAsked ==
  ASSUME TypeOK, Len(asked) = Len(replies) + 1
  PROVE  /\ Len(asked) \in 1 .. Len(asked) /\ Len(asked) - 1 \in Nat
         /\ asked[Len(asked)] \in Request
<1>1. asked \in Seq(Request) /\ Len(replies) \in Nat /\ Len(asked) \in Nat
  BY DEF TypeOK
<1> QED BY <1>1

-------------------------------------------------------------------------------
\* One lemma per step: it keeps the invariant.  First the client's.
LEMMA AskInv ==
  ASSUME HandlerInv, NEW r \in Request, Ask(r)
  PROVE  HandlerInv'
<1> USE DEF HandlerInv, Ask, requestVars, localVars
<1>1. /\ asked \in Seq(Request) /\ asked' \in Seq(Request)
      /\ Len(asked') = Len(asked) + 1 /\ Len(asked) \in Nat
      /\ asked'[Len(asked) + 1] = r
      /\ \A i \in 1 .. Len(asked) : asked'[i] = asked[i]
  BY DEF TypeOK
<1>2. TypeOK'
  <2>1. Tokens(r) \in Seq(Token)
    BY TokensTyped
  <2>2. inbox \in Seq(Token) /\ unsent \in Seq(Token)
    BY DEF TypeOK
  <2>3. inbox' \in Seq(Token)
    <3>1. CASE inbox' = inbox \o Tokens(r)
      BY <2>1, <2>2, <3>1
    <3>2. CASE inbox' = inbox
      BY <2>2, <3>2
    <3> QED BY <3>1, <3>2
  <2>4. unsent' \in Seq(Token)
    BY <2>1, <2>2
  <2> QED BY <1>1, <2>3, <2>4 DEF TypeOK
<1>3. CallInv'
  BY DEF CallInv
<1>4. ParseInv' /\ ParsedRight'
  BY SameParse
<1>5. ASSUME client' = "patient" PROVE PatientInv'
  <2>1. /\ client = "patient" /\ Len(replies) = Len(asked) /\ r.form = "ok"
        /\ inbox' = inbox \o Tokens(r) /\ unsent' = unsent /\ ~gone
    BY <1>5
  <2>2. PatientInv /\ Len(replies) \in Nat /\ replies \in Seq([path : Paths \cup {NoPath}, close : BOOLEAN])
    BY DEF TypeOK
  <2>3. unsent = <<>> /\ Idle /\ FirstHeaderGoverns /\ \A i \in DOMAIN asked : asked[i].form = "ok"
    BY <2>1, <2>2, <1>1 DEF PatientInv, Awaited
  <2>4. \A i \in 0 .. Len(asked) : HeaderUntil(i)' = HeaderUntil(i)
    BY <1>1, HeaderUntilKept
  <2>5. FirstHeaderGoverns'
    BY <2>1, <2>2, <2>3, <2>4 DEF FirstHeaderGoverns
  <2>6. \A i \in DOMAIN asked' : asked'[i].form = "ok"
    BY <1>1, <2>1, <2>3
  <2>7. CASE Final
    <3>1. Awaited(asked[Len(asked)])'
      BY <2>7 DEF Awaited, Final
    <3> QED BY <1>1, <2>1, <2>3, <2>5, <2>6, <3>1 DEF PatientInv
  <2>8. CASE ~Final
    <3>1. pc = "armed" /\ inbox = <<>> /\ connection = HeaderUntil(Len(asked))
      BY <2>1, <2>3, <2>8 DEF Idle
    <3>2. inbox' = Tokens(r) /\ Tokens(r) \in Seq(Token)
      BY <2>1, <3>1, TokensTyped
    <3>3. PICK n \in Nat : n = Len(asked)
      BY <1>1
    <3>4. HeaderUntil(n)' = HeaderUntil(n)
      BY <2>4, <3>3
    <3>5. Unparsed'
      BY <1>1, <3>1, <3>3, <3>4 DEF Unparsed
    <3>6. (inbox = Tokens(asked[Len(asked)]))'
      BY <1>1, <3>2
    <3>7. Awaited(asked[Len(asked)])'
      BY <3>1, <3>5, <3>6 DEF Awaited
    <3> QED BY <1>1, <2>1, <2>3, <2>5, <2>6, <3>7 DEF PatientInv
  <2> QED BY <2>7, <2>8
<1> QED BY <1>2, <1>3, <1>4, <1>5 DEF PatientInv
LEMMA SendInv ==
  ASSUME HandlerInv, Send
  PROVE  HandlerInv'
<1> USE DEF HandlerInv, Send, requestVars, localVars
<1>1. unsent \in Seq(Token) /\ inbox \in Seq(Token) /\ unsent # <<>>
  BY DEF TypeOK
<1>2. TypeOK'
  <2>1. inbox' \in Seq(Token) /\ unsent' \in Seq(Token)
    BY <1>1
  <2> QED BY <2>1 DEF TypeOK
<1>3. PatientInv'
  BY <1>1 DEF PatientInv
<1>4. CallInv'
  BY DEF CallInv
<1>5. ParseInv' /\ ParsedRight'
  BY SameParse
<1> QED BY <1>2, <1>3, <1>4, <1>5

\* For a patient client nothing but what it awaits changes.
LEMMA PatientGoesOn ==
  ASSUME HandlerInv, UNCHANGED <<client, asked, unsent, replies>>,
         client = "patient" /\ Idle => Idle',
         \A r \in Request : client = "patient" /\ r.form = "ok" /\ r = asked[Len(asked)]
                              /\ Awaited(r) => Awaited(r)'
  PROVE  PatientInv'
<1> SUFFICES ASSUME client = "patient" PROVE PatientInv'
  BY DEF PatientInv
<1>1. PatientInv /\ TypeOK
  BY DEF HandlerInv
<1>2. FirstHeaderGoverns'
  BY <1>1, SameReplies DEF PatientInv
<1>3. CASE Len(asked) = Len(replies) /\ Idle
  BY <1>1, <1>2, <1>3 DEF PatientInv
<1>4. CASE Len(asked) = Len(replies) + 1 /\ Awaited(asked[Len(asked)])
  <2>1. PICK r \in Request : r = asked[Len(asked)] /\ r.form = "ok"
    BY <1>1, <1>4, LastAsked DEF PatientInv
  <2>2. Awaited(r)'
    BY <1>4, <2>1
  <2>3. Awaited(asked[Len(asked)])'
    <3>1. (asked[Len(asked)])' = r
      BY <2>1
    <3> QED BY <2>2, <3>1 DEF Awaited
  <2> QED BY <1>1, <1>2, <1>4, <2>3 DEF PatientInv
<1> QED BY <1>1, <1>3, <1>4 DEF PatientInv

LEMMA HangUpInv ==
  ASSUME HandlerInv, HangUp
  PROVE  HandlerInv'
<1> USE DEF HandlerInv, HangUp, requestVars, localVars
<1>1. TypeOK' /\ CallInv'
  BY DEF TypeOK, CallInv
<1>2. ParseInv' /\ ParsedRight'
  BY SameParse
<1>3. PatientInv'
  <2>1. Idle => Idle'
    BY SameHeaders DEF Idle, Final
  <2>2. ASSUME NEW r \in Request, Awaited(r) PROVE Awaited(r)'
    BY <2>2, SameHeaders DEF Awaited, Final
  <2> QED BY <2>1, <2>2, PatientGoesOn
<1> QED BY <1>1, <1>2, <1>3

-------------------------------------------------------------------------------
\* The callback, up to the parser.

\* Expire, Close, the end of the stream and the end of the server.
LEMMA FinalInv ==
  ASSUME HandlerInv, pc' \in {"close", "closed", "crashed"},
         UNCHANGED <<clientVars, requestVars, localVars, replies>>
  PROVE  HandlerInv'
<1> USE DEF HandlerInv, clientVars, requestVars, localVars
<1>1. TypeOK' /\ CallInv'
  BY DEF TypeOK, CallInv
<1>2. ParseInv' /\ ParsedRight'
  BY NotParsing
<1>3. Final'
  BY DEF Final
<1>4. PatientInv'
  BY <1>3, PatientGoesOn DEF Idle, Awaited
<1> QED BY <1>1, <1>2, <1>4

LEMMA BeginInv ==
  ASSUME HandlerInv, Begin
  PROVE  HandlerInv'
<1> USE DEF HandlerInv, Begin, clientVars, requestVars
<1>1. TypeOK'
  BY DEF TypeOK, NewResponse, Response, Statuses, Sizes
<1>2. CallInv'
  BY DEF CallInv
<1>3. ParseInv' /\ ParsedRight'
  BY NotParsing
<1>4. PatientInv'
  <2>1. Idle => Idle'
    BY SameHeaders DEF Idle, Final
  <2>2. ASSUME NEW r \in Request, Awaited(r) PROVE Awaited(r)'
    BY <2>2, SameHeaders DEF Awaited, Final
  <2> QED BY <2>1, <2>2, PatientGoesOn
<1> QED BY <1>1, <1>2, <1>3, <1>4

LEMMA ReadInv ==
  ASSUME HandlerInv, Read
  PROVE  HandlerInv'
<1> USE DEF HandlerInv, Read, clientVars, requestVars
<1>1. buf \in Seq(Token) /\ inbox \in Seq(Token)
  BY DEF TypeOK
<1>2. TypeOK'
  <2>1. buf' \in Seq(Token) /\ inbox' \in Seq(Token)
    BY <1>1
  <2> QED BY <2>1 DEF TypeOK
<1>3. CallInv'
  BY DEF CallInv
<1>4. ParseInv' /\ ParsedRight'
  BY NotParsing
<1>5. PatientInv'
  <2>1. Idle => Idle'
    BY SameHeaders DEF Idle, Final
  <2>2. ASSUME NEW r \in Request, Awaited(r) PROVE Awaited(r)'
    <3>1. inbox = Tokens(r) /\ buf = <<>> /\ Unparsed
      BY <2>2, TokensTyped DEF Awaited, Final
    <3>2. buf' = Tokens(r)
      BY <1>1, <3>1
    <3> QED BY <3>1, <3>2, SameHeaders DEF Awaited
  <2> QED BY <2>1, <2>2, PatientGoesOn
<1> QED BY <1>2, <1>3, <1>4, <1>5

LEMMA ReadAllInv ==
  ASSUME HandlerInv, ReadAll
  PROVE  HandlerInv'
<1> USE DEF HandlerInv, ReadAll, clientVars, requestVars
<1>1. TypeOK' /\ CallInv'
  BY DEF TypeOK, CallInv
<1>2. ParseInv' /\ ParsedRight'
  BY DEF ParseInv, ParsedRight, CallInv
<1>3. PatientInv'
  <2>1. ~Idle
    BY DEF Idle, Final
  <2>2. ASSUME NEW r \in Request, Awaited(r) PROVE Awaited(r)'
    <3>1. buf = Tokens(r) /\ Unparsed
      BY <2>2, TokensTyped DEF Awaited, Final
    <3>2. state' = "kExpectRequestLine"
      BY DEF CallInv
    <3> QED BY <3>1, <3>2, SameHeaders DEF Awaited
  <2> QED BY <2>1, <2>2, PatientGoesOn
<1> QED BY <1>1, <1>2, <1>3

-------------------------------------------------------------------------------
\* The parser.  Which line it takes next, if it is at the beginning of one.
LEMMA CutLine ==
  ASSUME TypeOK, NEW p \in Starts, buf = SubSeq(lines, p, Len(lines)), HasLine
  PROVE  \E j \in CrlfAt(lines) :
           /\ p \in WholeLines /\ Text = TextAt(p) /\ Len(Text) = j - p
           /\ j + 1 \in Starts \ {1} /\ AfterLine = SubSeq(lines, j + 1, Len(lines))
           /\ \A i \in WholeLines : i < j + 1 => i < p \/ i = p
<1>1. lines \in Seq(Token) /\ buf \in Seq(Token) /\ Len(lines) \in Nat /\ p \in Nat \ {0}
  BY DEF TypeOK, Starts, CrlfAt
<1>2. findCRLF(buf) \in CrlfAt(buf) /\ \A k \in CrlfAt(buf) : findCRLF(buf) <= k
  BY <1>1, FindCRLF DEF HasLine
<1>3. PICK f \in CrlfAt(buf) : f = findCRLF(buf) /\ \A k \in CrlfAt(buf) : f <= k
  BY <1>2
<1>4. f \in 1 .. Len(buf) /\ buf[f] = CRLF
  BY <1>1, <1>3 DEF CrlfAt
<1>5. p <= Len(lines) /\ Len(buf) = Len(lines) - p + 1
  BY <1>1, <1>4
<1>6. \A i \in 1 .. Len(buf) : buf[i] = lines[i + p - 1]
  BY <1>1, <1>5
<1> DEFINE j == f + p - 1
<1>7. j \in CrlfAt(lines) /\ j >= p /\ j \in Nat
  <2>1. j \in 1 .. Len(lines) /\ j >= p
    BY <1>1, <1>4, <1>5
  <2>2. lines[j] = CRLF
    BY <1>4, <1>6
  <2> QED BY <1>1, <2>1, <2>2 DEF CrlfAt
<1>8. ASSUME NEW k \in CrlfAt(lines), k >= p PROVE j <= k
  <2>1. k \in 1 .. Len(lines) /\ lines[k] = CRLF
    BY DEF CrlfAt
  <2>2. k - p + 1 \in 1 .. Len(buf) /\ (k - p + 1) + p - 1 = k
    BY <1>1, <1>5, <1>8, <2>1
  <2>3. buf[k - p + 1] = lines[k]
    BY <1>6, <2>2
  <2>4. k - p + 1 \in CrlfAt(buf)
    BY <1>1, <2>1, <2>2, <2>3 DEF CrlfAt
  <2>5. f <= k - p + 1
    BY <1>3, <2>4
  <2> QED BY <1>1, <1>4, <2>1, <2>5
<1> DEFINE first == CHOOSE i \in CrlfAt(lines) :
                      i >= p /\ \A k \in CrlfAt(lines) : k >= p => i <= k
<1>9. first = j
  <2>1. first \in CrlfAt(lines) /\ first >= p /\ \A k \in CrlfAt(lines) : k >= p => first <= k
    BY <1>7, <1>8
  <2>2. first \in Nat /\ first <= j /\ j <= first
    BY <1>7, <1>8, <2>1 DEF CrlfAt
  <2> HIDE DEF first, j
  <2> QED BY <1>7, <2>2
<1>10. TextAt(p) = SubSeq(lines, p, j - 1)
  BY <1>9 DEF TextAt
<1> HIDE DEF first
<1>11. Text = SubSeq(buf, 1, f - 1) /\ AfterLine = SubSeq(buf, f + 1, Len(buf))
  BY <1>3 DEF Text, AfterLine
<1>12. Text = TextAt(p) /\ Len(Text) = j - p
  <2>1. /\ Text \in Seq(Token) /\ Len(Text) = f - 1
        /\ \A i \in 1 .. f - 1 : Text[i] = buf[i]
    BY <1>1, <1>4, <1>11
  <2>2. /\ TextAt(p) \in Seq(Token) /\ Len(TextAt(p)) = f - 1
        /\ \A i \in 1 .. f - 1 : TextAt(p)[i] = lines[i + p - 1]
    BY <1>1, <1>4, <1>5, <1>7, <1>10
  <2>3. \A i \in 1 .. f - 1 : i \in 1 .. Len(buf)
    BY <1>1, <1>4
  <2>6. \A i \in 1 .. f - 1 : Text[i] = TextAt(p)[i]
    BY ONLY <1>6, <2>1, <2>2, <2>3
  <2>4. Text = TextAt(p)
    BY <2>1, <2>2, <2>6, SeqEqual
  <2>5. f - 1 = j - p
    BY <1>1, <1>4
  <2> QED BY <2>1, <2>4, <2>5
<1>13. AfterLine = SubSeq(lines, j + 1, Len(lines))
  <2>1. /\ AfterLine \in Seq(Token) /\ Len(AfterLine) = Len(buf) - f
        /\ \A i \in 1 .. Len(buf) - f : AfterLine[i] = buf[i + f]
    BY ONLY <1>1, <1>4, <1>11, SuffixOf
  <2> DEFINE rest == SubSeq(lines, j + 1, Len(lines))
  <2>2. /\ rest \in Seq(Token) /\ Len(rest) = Len(lines) - j
        /\ \A i \in 1 .. Len(lines) - j : rest[i] = lines[i + j]
    <3>1. j \in 1 .. Len(lines)
      BY <1>7 DEF CrlfAt
    <3> QED BY ONLY <1>1, <3>1, SuffixOf
  <2> HIDE DEF rest
  <2>3. Len(buf) - f = Len(lines) - j
    BY <1>1, <1>4, <1>5
  <2>4. \A i \in 1 .. Len(buf) - f : AfterLine[i] = rest[i]
    BY <1>1, <1>4, <1>5, <1>6, <2>1, <2>2, <2>3
  <2>5. AfterLine = rest
    BY <2>1, <2>2, <2>3, <2>4, SeqEqual
  <2> QED BY <2>5 DEF rest
<1>14. p \in WholeLines
  BY <1>7 DEF WholeLines
<1>15. j + 1 \in Starts \ {1}
  BY <1>1, <1>7 DEF Starts
<1>16. ASSUME NEW i \in WholeLines, i < j + 1 PROVE i < p \/ i = p
  <2>1. CASE i = 1
    BY <1>1, <2>1
  <2>2. CASE i # 1
    <3>1. PICK c \in CrlfAt(lines) : i = c + 1
      BY <2>2 DEF WholeLines, Starts
    <3>2. c \in Nat /\ c < j
      BY <1>7, <1>16, <3>1 DEF CrlfAt
    <3>3. ~(c >= p)
      BY <1>7, <1>8, <3>2
    <3> QED BY <1>1, <3>1, <3>2, <3>3
  <2> QED BY <2>1, <2>2
<1> QED BY <1>7, <1>12, <1>13, <1>14, <1>15, <1>16

LEMMA NoLine ==
  ASSUME TypeOK, NEW p \in Starts, buf = SubSeq(lines, p, Len(lines)), ~HasLine
  PROVE  \A i \in WholeLines : i < p
<1>1. lines \in Seq(Token) /\ Len(lines) \in Nat /\ p \in Nat \ {0}
  BY DEF TypeOK, Starts, CrlfAt
<1>2. SUFFICES ASSUME NEW i \in WholeLines, ~(i < p) PROVE FALSE
  OBVIOUS
<1>3. PICK k \in CrlfAt(lines) : k >= i
  BY DEF WholeLines
<1>4. k \in 1 .. Len(lines) /\ lines[k] = CRLF /\ i \in Nat
  BY DEF CrlfAt, WholeLines, Starts
<1>5. k >= p
  BY <1>1, <1>2, <1>3, <1>4
<1>6. Len(buf) = Len(lines) - p + 1 /\ \A l \in 1 .. Len(buf) : buf[l] = lines[l + p - 1]
  BY <1>1, <1>4, <1>5
<1>7. k - p + 1 \in 1 .. Len(buf) /\ (k - p + 1) + p - 1 = k
  BY <1>1, <1>4, <1>5, <1>6
<1>8. buf[k - p + 1] = CRLF
  BY <1>4, <1>6, <1>7
<1>9. k - p + 1 \in CrlfAt(buf)
  <2>1. buf \in Seq(Token)
    BY DEF TypeOK
  <2> QED BY <1>7, <1>8, <2>1 DEF CrlfAt
<1> QED BY <1>9 DEF HasLine

\* A parser that has passed nothing is at the beginning of the first line.
LEMMA FirstLine ==
  ASSUME TypeOK, buf = lines
  PROVE  1 \in Starts /\ buf = SubSeq(lines, 1, Len(lines))
<1>1. lines \in Seq(Token)
  BY DEF TypeOK
<1>2. SubSeq(lines, 1, Len(lines)) = lines
  BY <1>1
<1> QED BY <1>2 DEF Starts

\* The lines of a call stay, and its parser is past one more of them.
LEMMA ParseRequestLineInv ==
  ASSUME HandlerInv, ParseRequestLine
  PROVE  HandlerInv'
<1> USE DEF HandlerInv, ParseRequestLine, clientVars
<1>1. TypeOK'
  <2>1. Text \in Seq(Token) /\ AfterLine \in Seq(Token) /\ Text # <<>>
    BY AfterLineTyped DEF IsRequestLine
  <2>2. Head(Text) \in Token /\ Head(Text).kind = "line"
    BY <2>1 DEF IsRequestLine
  <2>3. Head(Text).path \in Paths
    BY <2>2, Kinds DEF Token
  <2> QED BY <2>1, <2>3 DEF TypeOK
<1>2. CallInv'
  BY DEF CallInv
<1>3. buf = lines
  BY DEF ParseInv
<1>4. PICK j \in CrlfAt(lines) :
        /\ 1 \in WholeLines /\ Text = TextAt(1)
        /\ j + 1 \in Starts \ {1} /\ AfterLine = SubSeq(lines, j + 1, Len(lines))
        /\ \A i \in WholeLines : i < j + 1 => i < 1 \/ i = 1
  BY <1>3, FirstLine, CutLine
<1>5. ParseInv'
  <2>1. LineOk
    BY <1>4 DEF LineOk
  <2>2. \A i \in WholeLines : i \in Nat \ {0}
    BY DEF WholeLines, Starts, CrlfAt, TypeOK
  <2>3. \A i \in WholeLines \ {1} : ~(i < j + 1)
    BY <1>4, <2>2
  <2>4. buf' = SubSeq(lines', j + 1, Len(lines')) /\ j + 1 \in Starts' \ {1}
    BY <1>4, SameLines
  <2>5. \A i \in WholeLines' \ {1} : ~(i < j + 1)
    BY <2>3, SameLines
  <2>6. LineOk'
    BY <2>1, SameLines
  <2> QED BY <2>4, <2>5, <2>6 DEF ParseInv
<1>6. ParsedRight'
  BY DEF ParsedRight
<1>7. PatientInv'
  <2>1. ~Idle
    BY DEF Idle, Final
  <2>2. ASSUME NEW r \in Request, Awaited(r) PROVE Awaited(r)'
    <3>1. buf = Tokens(r) /\ inbox = <<>> /\ Unparsed
      BY <2>2 DEF Awaited, Final
    <3>2. Text = <<Line(r.path, r.form)>> /\ AfterLine = Headers(r)
      BY <3>1, CutTokens
    <3>3. path' = r.path
      BY <3>2, Kinds
    <3>4. Unparsed'
      BY <3>1, SameHeaders
    <3> QED BY <3>1, <3>2, <3>3, <3>4 DEF Awaited
  <2> QED BY <2>1, <2>2, PatientGoesOn
<1> QED BY <1>1, <1>2, <1>5, <1>6, <1>7

LEMMA ParseBadRequestLineInv ==
  ASSUME HandlerInv, ParseBadRequestLine
  PROVE  HandlerInv'
<1> USE DEF HandlerInv, ParseBadRequestLine, clientVars, localVars
<1>1. TypeOK'
  <2>1. CASE IsRequestLine(Text)
    <3>1. Text \in Seq(Token) /\ Text # <<>>
      BY <2>1, AfterLineTyped DEF IsRequestLine
    <3>2. Head(Text) \in Token /\ Head(Text).kind = "line"
      BY <2>1, <3>1 DEF IsRequestLine
    <3>3. Head(Text).path \in Paths
      BY <3>2, Kinds DEF Token
    <3> QED BY <3>3 DEF TypeOK
  <2>2. CASE ~IsRequestLine(Text)
    BY <2>2 DEF TypeOK
  <2> QED BY <2>1, <2>2
<1>2. CallInv'
  BY DEF CallInv
<1>3. ParseInv'
  BY DEF ParseInv
<1>4. ParsedRight'
  <2>1. buf = lines
    BY DEF ParseInv
  <2>2. Text = TextAt(1)
    BY <2>1, FirstLine, CutLine
  <2>3. ~LineOk'
    BY <2>2, SameLines DEF LineOk
  <2> QED BY <2>3 DEF ParsedRight
<1>5. PatientInv'
  <2>1. ~Idle
    BY DEF Idle, Final
  <2>2. ASSUME NEW r \in Request, r.form = "ok", Awaited(r) PROVE FALSE
    <3>1. buf = Tokens(r)
      BY <2>2 DEF Awaited, Final
    <3>2. Text = <<Line(r.path, r.form)>>
      BY <3>1, CutTokens
    <3>3. IsRequestLine(Text) /\ Head(Text).form = "ok"
      BY <2>2, <3>2, Kinds DEF IsRequestLine
    <3> QED BY <3>3
  <2> QED BY <2>1, <2>2, PatientGoesOn
<1> QED BY <1>1, <1>2, <1>3, <1>4, <1>5

LEMMA ParseHeaderInv ==
  ASSUME HandlerInv, ParseHeader
  PROVE  HandlerInv'
<1> USE DEF HandlerInv, ParseHeader, clientVars
<1>1. TypeOK'
  <2>1. Text \in Seq(Token) /\ AfterLine \in Seq(Token) /\ Text # <<>>
    BY AfterLineTyped DEF HasColon
  <2>2. Head(Text) \in Token /\ Head(Text).kind = "header"
    BY <2>1 DEF HasColon
  <2>3. Head(Text).value \in Values
    BY <2>2, Kinds DEF Token
  <2>4. connection' \in Values \cup {"none"}
    BY <2>3 DEF addHeader, TypeOK
  <2> QED BY <2>1, <2>4 DEF TypeOK
<1>2. CallInv'
  BY DEF CallInv
<1>3. ParseInv'
  <2>1. PICK p \in Starts \ {1} : /\ buf = SubSeq(lines, p, Len(lines))
                                  /\ \A i \in WholeLines \ {1} : i < p => HasColon(TextAt(i))
    BY DEF ParseInv
  <2>2. PICK j \in CrlfAt(lines) :
          /\ Text = TextAt(p)
          /\ j + 1 \in Starts \ {1} /\ AfterLine = SubSeq(lines, j + 1, Len(lines))
          /\ \A i \in WholeLines : i < j + 1 => i < p \/ i = p
    BY <2>1, CutLine
  <2>3. \A i \in WholeLines \ {1} : i < j + 1 => HasColon(TextAt(i))
    BY <2>1, <2>2
  <2>4. buf' = SubSeq(lines', j + 1, Len(lines')) /\ j + 1 \in Starts' \ {1}
    BY <2>2, SameLines
  <2>5. \A i \in WholeLines' \ {1} : i < j + 1 => HasColon(TextAt(i)')
    BY <2>3, SameLines
  <2>6. LineOk'
    BY SameLines DEF ParseInv
  <2> QED BY <2>4, <2>5, <2>6 DEF ParseInv, HasColon
<1>4. ParsedRight'
  BY DEF ParsedRight
<1>5. PatientInv'
  <2>1. ~Idle
    BY DEF Idle, Final
  <2>2. ASSUME client = "patient", NEW r \in Request, r = asked[Len(asked)], Awaited(r)
        PROVE  Awaited(r)'
    <3>1. CASE buf = <<CRLF>>
      BY <3>1, CutEnd DEF HasColon
    <3>2. CASE /\ buf = Headers(r) /\ path = r.path /\ inbox = <<>> /\ Unparsed
               /\ r.connection # "none"
      <4>1. r.connection \in Values
        BY <3>2 DEF Request
      <4>2. Text = <<Header(r.connection)>> /\ AfterLine = <<CRLF>>
        BY <3>2, <4>1, CutHeaders DEF Headers
      <4>3. connection' = addHeader(r.connection)
        BY <4>2, Kinds
      <4>4. PICK n \in Nat : n = Len(asked)
        BY DEF TypeOK
      <4>5. n # 0
        <5>1. Len(asked) = Len(replies) \/ Len(asked) = Len(replies) + 1
          BY <2>2 DEF PatientInv
        <5>2. Len(asked) = Len(replies) + 1 /\ Len(replies) \in Nat
          BY <2>1, <2>2 DEF PatientInv, TypeOK
        <5> QED BY <4>4, <5>2
      <4>6. HeaderUntil(n) = IF HeaderUntil(n - 1) = "none" THEN asked[n].connection
                             ELSE HeaderUntil(n - 1)
        BY <4>4, <4>5, HeaderUntilStep
      <4>7. connection' = HeaderUntil(n)
        BY <2>2, <3>2, <4>3, <4>4, <4>6 DEF Unparsed, addHeader
      <4>8. HeaderUntil(n)' = HeaderUntil(n)
        BY DEF HeaderUntil
      <4>9. Parsed'
        BY <2>2, <3>2, <4>4, <4>7, <4>8 DEF Parsed
      <4> QED BY <3>2, <4>2, <4>9 DEF Awaited
    <3>3. CASE buf = Headers(r) /\ r.connection = "none"
      BY <3>3, CutEnd DEF HasColon, Headers
    <3> QED BY <2>2, <3>1, <3>2, <3>3 DEF Awaited, Final
  <2> QED BY <2>1, <2>2, PatientGoesOn
<1> QED BY <1>1, <1>2, <1>3, <1>4, <1>5

LEMMA ParseEndInv ==
  ASSUME HandlerInv, ParseEnd
  PROVE  HandlerInv'
<1> USE DEF HandlerInv, ParseEnd, clientVars, requestVars
<1>1. TypeOK'
  BY AfterLineTyped DEF TypeOK
<1>2. CallInv'
  BY DEF CallInv
<1>3. ParseInv'
  BY DEF ParseInv
<1>4. ParsedRight'
  <2>1. PICK p \in Starts \ {1} : /\ buf = SubSeq(lines, p, Len(lines))
                                  /\ \A i \in WholeLines \ {1} : i < p => HasColon(TextAt(i))
    BY DEF ParseInv
  <2>2. PICK j \in CrlfAt(lines) :
          /\ p \in WholeLines /\ Text = TextAt(p) /\ Len(Text) = j - p
          /\ AfterLine = SubSeq(lines, j + 1, Len(lines))
    BY <2>1, CutLine
  <2>3. p \in EndOfHeaders
    BY <2>1, <2>2 DEF EndOfHeaders
  <2>4. /\ \A i \in EndOfHeaders : i \in Nat /\ ~(i < p)
        /\ p \in Nat /\ j \in Nat
    BY <2>1 DEF EndOfHeaders, WholeLines, Starts, CrlfAt, TypeOK
  <2>5. \A i \in EndOfHeaders : p <= i
    BY <2>4
  <2>6. p + Len(TextAt(p)) + 1 = j + 1
    BY <2>2, <2>4
  <2>7. buf' = SubSeq(lines, p + Len(TextAt(p)) + 1, Len(lines))
    BY <2>2, <2>6
  <2>8. LineOk
    BY DEF ParseInv
  <2>9. /\ p \in EndOfHeaders' /\ \A i \in EndOfHeaders' : p <= i
        /\ buf' = SubSeq(lines', p + Len(TextAt(p)') + 1, Len(lines'))
        /\ LineOk'
    BY <2>3, <2>5, <2>7, <2>8, SameLines
  <2> QED BY <2>9 DEF ParsedRight
<1>5. PatientInv'
  <2>1. ~Idle
    BY DEF Idle, Final
  <2>2. ASSUME client = "patient", NEW r \in Request, r = asked[Len(asked)], Awaited(r)
        PROVE  Awaited(r)'
    <3>1. CASE buf = <<CRLF>> /\ Parsed /\ inbox = <<>>
      BY <3>1, SameHeaders DEF Awaited
    <3>2. CASE buf = Headers(r) /\ r.connection # "none"
      <4>1. r.connection \in Values
        BY <3>2 DEF Request
      <4>2. Text = <<Header(r.connection)>>
        BY <3>2, <4>1, CutHeaders DEF Headers
      <4> QED BY <4>2, Kinds DEF HasColon
    <3>3. CASE /\ buf = Headers(r) /\ path = r.path /\ inbox = <<>> /\ Unparsed
               /\ r.connection = "none"
      <4>1. PICK n \in Nat : n = Len(asked)
        BY DEF TypeOK
      <4>2. n # 0
        <5>1. Len(asked) = Len(replies) + 1 /\ Len(replies) \in Nat
          BY <2>1, <2>2 DEF PatientInv, TypeOK
        <5> QED BY <4>1, <5>1
      <4>3. HeaderUntil(n) = IF HeaderUntil(n - 1) = "none" THEN asked[n].connection
                             ELSE HeaderUntil(n - 1)
        BY <4>1, <4>2, HeaderUntilStep
      <4>4. connection = HeaderUntil(n)
        BY <2>2, <3>3, <4>1, <4>3 DEF Unparsed
      <4>5. Parsed
        BY <2>2, <3>3, <4>1, <4>4 DEF Parsed
      <4> QED BY <3>3, <4>5, SameHeaders DEF Awaited
    <3> QED BY <2>2, <3>1, <3>2, <3>3 DEF Awaited, Final
  <2> QED BY <2>1, <2>2, PatientGoesOn
<1> QED BY <1>1, <1>2, <1>3, <1>4, <1>5

LEMMA ParseStopsInv ==
  ASSUME HandlerInv, ParseStops
  PROVE  HandlerInv'
<1> USE DEF HandlerInv, ParseStops, clientVars, requestVars, localVars
<1>1. TypeOK' /\ CallInv'
  BY DEF TypeOK, CallInv
<1>2. ParseInv'
  BY DEF ParseInv
<1>3. ParsedRight'
  <2>1. CASE state = "kExpectRequestLine" /\ buf = lines
    <3>1. 1 \notin WholeLines
      BY <2>1, FirstLine, NoLine
    <3>2. ~LineOk'
      BY <3>1, SameLines DEF LineOk
    <3> QED BY <2>1, <3>2 DEF ParsedRight
  <2>2. CASE state = "kExpectHeaders" /\ LineOk
    <3>1. PICK p \in Starts \ {1} : /\ buf = SubSeq(lines, p, Len(lines))
                                    /\ \A i \in WholeLines \ {1} : i < p => HasColon(TextAt(i))
      BY <2>2 DEF ParseInv
    <3>2. \A i \in WholeLines : i < p
      BY <3>1, NoLine
    <3>3. EndOfHeaders = {}
      BY <3>1, <3>2 DEF EndOfHeaders
    <3>4. EndOfHeaders' = {} /\ LineOk'
      BY <2>2, <3>3, SameLines
    <3> QED BY <2>2, <3>4 DEF ParsedRight
  <2> QED BY <2>1, <2>2 DEF ParseInv
<1>4. PatientInv'
  <2>1. ~Idle
    BY DEF Idle, Final
  <2>2. ASSUME NEW r \in Request, Awaited(r) PROVE FALSE
    <3>1. \/ buf = Tokens(r) \/ buf = <<CRLF>>
          \/ buf = Headers(r) /\ r.connection = "none"
          \/ buf = Headers(r) /\ r.connection \in Values
      BY <2>2 DEF Awaited, Final, Request
    <3> QED BY <3>1, CutTokens, CutHeaders, CutEnd DEF Headers
  <2> QED BY <2>1, <2>2, PatientGoesOn
<1> QED BY <1>1, <1>2, <1>3, <1>4

-------------------------------------------------------------------------------
\* The rest of the call.
LEMMA HandleHeadersInv ==
  ASSUME HandlerInv, HandleHeaders
  PROVE  HandlerInv'
<1> USE DEF HandlerInv, HandleHeaders, clientVars, requestVars
<1>1. response' \in Response /\ (response'.close <=> connection = "close")
  <2>1. response = NewResponse
    BY DEF CallInv
  <2>2. response.close = FALSE /\ response \in Response
    BY <2>1 DEF NewResponse, TypeOK
  <2>3. CASE connection = "none"
    BY <2>2, <2>3 DEF handleFunc
  <2>4. CASE connection = "close"
    BY <2>2, <2>4 DEF handleFunc, handle_keep_alive, Response
  <2>5. CASE connection = "keep-alive"
    BY <2>2, <2>5 DEF handleFunc, handle_keep_alive, Response
  <2> QED BY <2>3, <2>4, <2>5 DEF TypeOK, Values
<1>2. TypeOK' /\ CallInv'
  BY <1>1 DEF TypeOK, CallInv
<1>3. ParseInv' /\ ParsedRight'
  BY NotParsing
<1>4. PatientInv'
  <2>1. ~Idle
    BY DEF Idle, Final
  <2>2. ASSUME NEW r \in Request, Awaited(r) PROVE Awaited(r)'
    <3>1. Parsed /\ inbox = <<>>
      BY <2>2 DEF Awaited, Final
    <3> QED BY <1>1, <3>1, SameHeaders DEF Awaited
  <2> QED BY <2>1, <2>2, PatientGoesOn
<1> QED BY <1>1, <1>2, <1>3, <1>4

\* The file found, denied or missing: the status and the size are set.
LEMMA FileInv ==
  ASSUME HandlerInv, pc = "stat", pc' = "write", NEW n \in Sizes, NEW s \in Statuses,
         response' = [response EXCEPT !.status = s, !.size = n],
         UNCHANGED <<clientVars, requestVars, buf, lines, state, replies>>
  PROVE  HandlerInv'
<1> USE DEF HandlerInv, clientVars, requestVars
<1>1. response' \in Response /\ response'.close = response.close
  BY DEF TypeOK, Response
<1>2. TypeOK' /\ CallInv'
  BY <1>1 DEF TypeOK, CallInv
<1>3. ParseInv' /\ ParsedRight'
  BY NotParsing
<1>4. PatientInv'
  <2>1. ~Idle
    BY DEF Idle, Final
  <2>2. ASSUME NEW r \in Request, Awaited(r) PROVE Awaited(r)'
    BY <1>1, <2>2, SameHeaders DEF Awaited, Final
  <2> QED BY <2>1, <2>2, PatientGoesOn
<1> QED BY <1>2, <1>3, <1>4

\* What is to be written is at least a head.
LEMMA TotalPositive ==
  ASSUME TypeOK
  PROVE  Total \in Nat \ {0}
<1>1. response.size \in Nat
  BY DEF TypeOK, Response, Sizes
<1> QED BY <1>1 DEF Total, HeadSize

LEMMA WriteInv ==
  ASSUME HandlerInv, NEW count \in Counts, Write(count)
  PROVE  HandlerInv'
<1> USE DEF HandlerInv, Write, clientVars, requestVars
<1>1. TypeOK'
  <2> DEFINE Reply == [path : Paths \cup {NoPath}, close : BOOLEAN]
  <2>1. replies' \in Seq(Reply)
    <3>1. replies \in Seq(Reply)
      BY DEF TypeOK
    <3>2. [path |-> path, close |-> response.close] \in Reply
      BY DEF TypeOK, Response
    <3> HIDE DEF Reply
    <3> QED BY <3>1, <3>2
  <2> QED BY <2>1 DEF TypeOK, NewResponse, Response, Statuses, Sizes
<1>2. CallInv'
  BY DEF CallInv
<1>3. ParseInv' /\ ParsedRight'
  BY NotParsing
<1>4. PatientInv'
  <2> SUFFICES ASSUME client = "patient" PROVE PatientInv'
    BY DEF PatientInv
  <2>1. ~Idle
    BY DEF Idle, Final
  <2>2. PatientInv
    OBVIOUS
  <2>3. Len(asked) = Len(replies) + 1 /\ Awaited(asked[Len(asked)])
    BY <2>1, <2>2 DEF PatientInv
  <2>4. inbox = <<>> /\ Parsed /\ (response.close <=> connection = "close")
    BY <2>3 DEF Awaited, Final
  <2>5. PICK n \in Nat \ {0} : n = Len(asked) /\ n = Len(replies) + 1
    BY <2>3 DEF TypeOK
  <2>6. HeaderUntil(n)' = HeaderUntil(n)
    BY DEF HeaderUntil
  <2>7. CASE count = -1
    <3>1. gone /\ ~(count > 0)
      BY <2>7, TotalPositive DEF Counts
    <3>2. replies' = replies
      BY <3>1
    <3>3. Awaited(asked[Len(asked)])'
      BY <2>4, <3>1 DEF Awaited, Final
    <3>4. FirstHeaderGoverns'
      BY <2>2, <3>2, SameReplies DEF PatientInv
    <3> QED BY <2>2, <2>3, <3>2, <3>3, <3>4 DEF PatientInv
  <2>8. CASE count = Total
    <3>1. replies' = Append(replies, [path |-> path, close |-> response.close])
      BY <2>8, TotalPositive
    <3>2. /\ Len(replies') = n /\ replies'[n].close = response.close
          /\ \A i \in 1 .. n - 1 : replies'[i] = replies[i]
      BY <2>5, <3>1 DEF TypeOK
    <3>3. FirstHeaderGoverns
      BY <2>2 DEF PatientInv
    <3>4. connection = HeaderUntil(n)
      BY <2>4, <2>5 DEF Parsed
    <3>5. \A i \in 1 .. n : HeaderUntil(i)' = HeaderUntil(i)
      BY DEF HeaderUntil
    <3>6. DOMAIN replies = 1 .. n - 1 /\ DOMAIN replies' = 1 .. n
      <4>1. replies \in Seq([path : Paths \cup {NoPath}, close : BOOLEAN])
        BY DEF TypeOK
      <4>2. replies' \in Seq([path : Paths \cup {NoPath}, close : BOOLEAN])
        BY <1>1 DEF TypeOK
      <4> QED BY <2>5, <3>2, <4>1, <4>2
    <3>7. \A i \in 1 .. n - 1 : replies'[i].close <=> HeaderUntil(i)' = "close"
      BY <3>2, <3>3, <3>5, <3>6 DEF FirstHeaderGoverns
    <3>8. replies'[n].close <=> HeaderUntil(n)' = "close"
      BY <2>4, <2>6, <3>2, <3>4
    <3>9. FirstHeaderGoverns'
      <4>1. \A i \in 1 .. n : i \in 1 .. n - 1 \/ i = n
        OBVIOUS
      <4> QED BY <3>6, <3>7, <3>8, <4>1 DEF FirstHeaderGoverns
    <3>10. Idle'
      BY <2>4, <2>5, <2>6, <3>4 DEF Idle, Final
    <3>11. unsent' = <<>> /\ \A i \in DOMAIN asked' : asked'[i].form = "ok"
      BY <2>2 DEF PatientInv
    <3> QED BY <2>5, <3>2, <3>9, <3>10, <3>11 DEF PatientInv
  <2> QED BY <2>7, <2>8 DEF Counts
<1> QED BY <1>1, <1>2, <1>3, <1>4

-------------------------------------------------------------------------------
LEMMA InitInv ==
  ASSUME Init
  PROVE  HandlerInv
<1> USE DEF HandlerInv, Init
<1>1. TypeOK
  <2>1. NewResponse \in Response
    BY DEF NewResponse, Response, Statuses, Sizes
  <2>2. response \in Response
    BY <2>1
  <2>3. /\ asked \in Seq(Request) /\ unsent \in Seq(Token) /\ inbox \in Seq(Token)
        /\ buf \in Seq(Token) /\ lines \in Seq(Token)
        /\ replies \in Seq([path : Paths \cup {NoPath}, close : BOOLEAN])
    OBVIOUS
  <2> QED BY <2>2, <2>3 DEF TypeOK
<1>2. PatientInv
  <2>1. With(0) = {}
    BY DEF With
  <2>2. HeaderUntil(0) = "none"
    BY <2>1, HeaderUntilNone
  <2>3. Len(asked) = 0 /\ Len(replies) = 0
    OBVIOUS
  <2>4. Idle
    BY <2>2, <2>3 DEF Idle
  <2> QED BY <2>3, <2>4 DEF PatientInv, FirstHeaderGoverns
<1>3. CallInv /\ ParseInv /\ ParsedRight
  BY DEF CallInv, ParseInv, ParsedRight
<1> QED BY <1>1, <1>2, <1>3

LEMMA StutterInv ==
  ASSUME HandlerInv, UNCHANGED vars
  PROVE  HandlerInv'
<1> USE DEF HandlerInv, vars, clientVars, requestVars, localVars
<1>1. TypeOK' /\ CallInv'
  BY DEF TypeOK, CallInv
<1>2. ParseInv' /\ ParsedRight'
  BY SameParse
<1>3. PatientInv'
  <2>1. Idle => Idle'
    BY SameHeaders DEF Idle, Final
  <2>2. ASSUME NEW r \in Request, Awaited(r) PROVE Awaited(r)'
    BY <2>2, SameHeaders DEF Awaited, Final
  <2> QED BY <2>1, <2>2, PatientGoesOn
<1> QED BY <1>1, <1>2, <1>3

LEMMA NextInv ==
  ASSUME HandlerInv, [Next]_vars
  PROVE  HandlerInv'
<1>1. CASE UNCHANGED vars
  BY <1>1, StutterInv
<1>2. CASE \E r \in Request : Ask(r)
  BY <1>2, AskInv
<1>3. CASE Send
  BY <1>3, SendInv
<1>4. CASE HangUp
  BY <1>4, HangUpInv
<1>5. CASE Expire
  BY <1>5, FinalInv DEF Expire
<1>6. CASE Callback
  <2>1. CASE Begin
    BY <2>1, BeginInv
  <2>2. CASE Read
    BY <2>2, ReadInv
  <2>3. CASE ReadEnd
    BY <2>3, FinalInv DEF ReadEnd
  <2>4. CASE ReadAll
    BY <2>4, ReadAllInv
  <2>5. CASE ParseRequestLine
    BY <2>5, ParseRequestLineInv
  <2>6. CASE ParseBadRequestLine
    BY <2>6, ParseBadRequestLineInv
  <2>7. CASE ParseHeader
    BY <2>7, ParseHeaderInv
  <2>8. CASE ParseEnd
    BY <2>8, ParseEndInv
  <2>9. CASE ParseStops
    BY <2>9, ParseStopsInv
  <2>10. CASE HandleHeaders
    BY <2>10, HandleHeadersInv
  <2>11. ASSUME NEW n \in Sizes, FileMissing(n) PROVE HandlerInv'
    BY <2>11, FileInv DEF FileMissing, Statuses
  <2>12. ASSUME NEW n \in Sizes, FileDenied(n) PROVE HandlerInv'
    BY <2>12, FileInv DEF FileDenied, Statuses
  <2>13. ASSUME NEW n \in Sizes, FileFound(n) PROVE HandlerInv'
    BY <2>13, FileInv DEF FileFound, Statuses
  <2>14. ASSUME NEW n \in Sizes, FileVanishes(n) PROVE HandlerInv'
    BY <2>14, FinalInv DEF FileVanishes
  <2>15. ASSUME NEW count \in Counts, Write(count) PROVE HandlerInv'
    BY <2>15, WriteInv
  <2>16. CASE Close
    BY <2>16, FinalInv DEF Close
  <2> QED BY <1>6, <2>1, <2>2, <2>3, <2>4, <2>5, <2>6, <2>7, <2>8, <2>9, <2>10,
             <2>11, <2>12, <2>13, <2>14, <2>15, <2>16 DEF Callback
<1> QED BY <1>1, <1>2, <1>3, <1>4, <1>5, <1>6 DEF Next

\* The parser, the response and what the client has got and awaits fit together
\* in every state.
THEOREM Invariance == Spec => []HandlerInv
<1>1. Init => HandlerInv
  BY InitInv
<1>2. HandlerInv /\ [Next]_vars => HandlerInv'
  BY NextInv
<1> QED BY <1>1, <1>2, PTL DEF Spec

\* However the bytes arrived, HttpParse::parseRequest goes on to the headers only
\* after a request line in order, ends at the first line without a colon, and
\* leaves unread what follows (http_parse.cpp:53).
THEOREM ParsedRightAlways == Spec => []ParsedRight
<1>1. HandlerInv => ParsedRight
  BY DEF HandlerInv
<1> QED BY <1>1, Invariance, PTL

\* On a connection to a patient client, whether a response says Connection: close
\* is decided by the first Connection header the connection has brought
\* (http_request.h:114).
THEOREM FirstHeader == Spec => []FirstHeaderGoverns
<1>1. HandlerInv => FirstHeaderGoverns
  <2>1. ASSUME HandlerInv, client = "patient" PROVE FirstHeaderGoverns
    BY <2>1 DEF HandlerInv, PatientInv
  <2>2. ASSUME HandlerInv, client = "hasty" PROVE FirstHeaderGoverns
    BY <2>2 DEF HandlerInv, CallInv, FirstHeaderGoverns
  <2>3. ASSUME HandlerInv PROVE client \in {"patient", "hasty"}
    BY <2>3, RequestHandlerAssumption DEF HandlerInv, TypeOK
  <2> QED BY <2>1, <2>2, <2>3
<1> QED BY <1>1, Invariance, PTL

-------------------------------------------------------------------------------
\* The refinement of HttpExchange.  A patient client asks when nothing is pending
\* and is answered when something is.
LEMMA ExchangeInit ==
  ASSUME Init
  PROVE  Exchange!Init
<1>1. replies = <<>> /\ ~(Len(asked) > Len(replies)) /\ pc = "armed"
  BY DEF Init
<1> QED BY <1>1 DEF Exchange!Init

LEMMA ExchangeAsk ==
  ASSUME HandlerInv, NEW r \in Request, Ask(r)
  PROVE  [Exchange!Next]_(Exchange!vars)
<1> USE DEF HandlerInv, Ask
<1>1. /\ Len(asked') = Len(asked) + 1 /\ Len(asked) \in Nat /\ Len(replies) \in Nat
      /\ asked'[Len(asked')] = r /\ r.path \in Paths
  BY DEF TypeOK, Request
<1>2. CASE client = "patient"
  <2>1. ~(Len(asked) > Len(replies)) /\ Len(asked') > Len(replies')
    BY <1>1, <1>2
  <2>2. Exchange!Ask(r.path)
    BY <1>1, <1>2, <2>1 DEF Exchange!Ask
  <2> QED BY <1>1, <2>2 DEF Exchange!Next
<1>3. CASE client # "patient"
  BY <1>3 DEF Exchange!vars
<1> QED BY <1>2, <1>3

LEMMA ExchangeWrite ==
  ASSUME HandlerInv, NEW count \in Counts, Write(count)
  PROVE  [Exchange!Next]_(Exchange!vars)
<1> USE DEF HandlerInv, Write, clientVars, requestVars
<1>1. pc \notin {"closed", "crashed"} /\ pc' \notin {"closed", "crashed"}
  OBVIOUS
<1>2. CASE client = "patient" /\ count > 0
  <2>1. Len(asked) = Len(replies) + 1 /\ Awaited(asked[Len(asked)])
    BY <1>2 DEF PatientInv, Idle, Final
  <2>2. path = asked[Len(asked)].path
    BY <2>1 DEF Awaited, Final, Parsed
  <2>3. path \in Paths
    <3>1. asked[Len(asked)] \in Request
      BY <2>1, LastAsked
    <3> QED BY <2>2, <3>1 DEF Request
  <2>4. PICK m \in Nat : m = Len(replies)
    BY DEF TypeOK
  <2>5. Len(replies') = m + 1 /\ replies'[m + 1].path = path
    <3>1. replies' = Append(replies, [path |-> path, close |-> response.close])
      BY <1>2
    <3>2. replies \in Seq([path : Paths \cup {NoPath}, close : BOOLEAN])
      BY DEF TypeOK
    <3> DEFINE r == [path |-> path, close |-> response.close]
    <3>3. r.path = path
      OBVIOUS
    <3> HIDE DEF r
    <3>4. Len(Append(replies, r)) = m + 1 /\ Append(replies, r)[m + 1] = r
      BY <2>4, <3>2
    <3> QED BY <3>1, <3>3, <3>4 DEF r
  <2>6. Len(asked) > Len(replies) /\ ~(Len(asked') > Len(replies')) /\ replies' # <<>>
    BY <2>1, <2>4, <2>5
  <2>7. Exchange!Reply
    BY <1>1, <1>2, <2>2, <2>3, <2>4, <2>5, <2>6, RequestHandlerAssumption DEF Exchange!Reply
  <2> QED BY <2>7 DEF Exchange!Next
<1>3. CASE ~(client = "patient" /\ count > 0)
  BY <1>1, <1>3 DEF Exchange!vars
<1> QED BY <1>2, <1>3

LEMMA ExchangeNext ==
  ASSUME HandlerInv, [Next]_vars
  PROVE  [Exchange!Next]_(Exchange!vars)
<1>1. CASE UNCHANGED <<client, asked, replies>>
  <2>1. UNCHANGED pc \/ pc' \in {"closed", "crashed"}
        \/ {pc, pc'} \cap {"closed", "crashed"} = {}
    BY <1>1 DEF Next, Callback, vars, Send, HangUp, Expire, Begin, Read, ReadEnd,
       ReadAll, ParseRequestLine, ParseBadRequestLine, ParseHeader, ParseEnd, ParseStops,
       HandleHeaders, FileMissing, FileDenied, FileFound, FileVanishes, Write, Close, Ask
  <2>2. CASE pc' \in {"closed", "crashed"}
    BY <1>1, <2>2 DEF Exchange!Close, Exchange!Next
  <2>3. CASE UNCHANGED pc \/ {pc, pc'} \cap {"closed", "crashed"} = {}
    BY <1>1, <2>3 DEF Exchange!vars
  <2> QED BY <2>1, <2>2, <2>3
<1>2. CASE \E r \in Request : Ask(r)
  BY <1>2, ExchangeAsk
<1>3. CASE \E count \in Counts : Write(count)
  BY <1>3, ExchangeWrite
<1>4. UNCHANGED <<client, asked, replies>> \/ (\E r \in Request : Ask(r))
      \/ (\E count \in Counts : Write(count))
  BY DEF Next, Callback, vars, clientVars, Send, HangUp, Expire, Begin, Read, ReadEnd,
     ReadAll, ParseRequestLine, ParseBadRequestLine, ParseHeader, ParseEnd, ParseStops,
     HandleHeaders, FileMissing, FileDenied, FileFound, FileVanishes, Close
<1> QED BY <1>1, <1>2, <1>3, <1>4

\* CallBack::request implements HttpExchange for a patient client: a response is
\* about the path of the request it answers, whatever earlier requests have left
\* in the HttpRequest of the connection, and nothing is answered twice or after
\* the connection is closed (callback.cpp:22).
THEOREM Refinement == Spec => Implements
<1>1. Init => Exchange!Init
  BY ExchangeInit
<1>2. HandlerInv /\ [Next]_vars => [Exchange!Next]_(Exchange!vars)
  BY ExchangeNext
<1> QED BY <1>1, <1>2, Invariance, PTL DEF Spec, Implements, Exchange!Spec
===============================================================================
