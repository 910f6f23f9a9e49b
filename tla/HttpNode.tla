------------------------------ MODULE HttpNode ------------------------------
(***************************************************************************)
(* CNode::run(): one connection at the server.  The node reads the header  *)
(* and the body of the request, finds who answers it (a registered         *)
(* endpoint, a static file, or the 404 response), writes the response      *)
(* piece by piece and closes.  Every read and every piece written is a     *)
(* step, because the client, its process and the 5 second timeout of the   *)
(* socket act between them.                                                *)
(***************************************************************************)
EXTENDS HttpWire

CONSTANTS Chunk,            \* SOLUSEK_DEFAULT_CHUNK_SIZE
          MaxReserve,       \* a longer Body.reserve() may throw bad_alloc
          Endpoints,        \* registered: a set of [path, method]
          Responses,        \* what a callback may return
          StaticEndpoints,  \* sequence of [host, dir], as they were added
          StaticIndexes,    \* sequence of file names
          Files,            \* full path of a file |-> its contents
          Mime              \* file name |-> type, for the known extensions

VARIABLES npc,      \* where CNode::run() is
          headers,  \* Headers
          request,  \* Method, Path, QueryString and Body
          got,      \* n of readBody()
          called,   \* history: the MRequest the callback was given
          response, \* the MResponse
          out       \* the lines of it that are still to be written

ASSUME ChunkAssumption == Chunk \in Nat \ {0}

\* The length of a body, of a callback's or of a file, is a number that the
\* client can hold.
IsBody(body) == body \in Seq(ToSet(body)) /\ Len(body) < Wrap
IsMResponse(r) ==
  r.code \in Nat /\ IsBody(r.body) /\ r.cookies \in Seq(ToSet(r.cookies))
ASSUME ResponsesAssumption ==
  /\ \A r \in Responses : IsMResponse(r)
  /\ \A f \in DOMAIN Files : IsBody(Files[f])

nodeVars == <<npc, headers, request, got, called, response, out>>

NoRequest  == [method |-> "", path |-> <<>>, query |-> <<>>, body |-> <<>>]
NotCalled  == [path |-> <<>>]
LowerCase(method) ==
  CASE method = "GET" -> "get" [] method = "POST" -> "post"
    [] method = "PUT" -> "put" [] method = "DELETE" -> "delete"
    [] OTHER -> method

\* The line of that kind, the first one if there are several.
Has(kind)       == \E i \in DOMAIN headers : headers[i].k = kind
GetHeader(kind) == headers[SelectInSeq(headers, LAMBDA l : l.k = kind)]

\* readHeader() splits every line at its first colon and puts what is before
\* it in lower case, the start line too: with a colon in the query string
\* the method is in lower case and the rest of the query string is gone.
ParseStart(line) ==
  LET colon == Len(line.target.query) > 1
  IN  [method |-> IF colon THEN LowerCase(line.method) ELSE line.method,
       path   |-> line.target.path,
       query  |-> IF colon THEN <<line.target.query[1]>> ELSE line.target.query,
       body   |-> <<>>]

ContentLength == IF Has("length") THEN Unsigned(GetHeader("length").n) ELSE 0

(***************************************************************************)
(* Who answers.  A static directory is the first one without a host or     *)
(* whose host is the end of the request's; a path that ends in "/" stands  *)
(* for the first index file there is.  Names are in lower case.            *)
(***************************************************************************)
Host == IF Has("host") THEN GetHeader("host").host ELSE <<>>

Matching == SelectInSeq(StaticEndpoints, LAMBDA e : IsSuffix(e.host, Host))

IsFile(path) ==
  /\ \A i \in DOMAIN path : path[i] # ".."
  /\ Matching > 0
  /\ <<StaticEndpoints[Matching].dir>> \o path \in DOMAIN Files

IndexOf(path) ==
  SelectInSeq(StaticIndexes, LAMBDA name : IsFile(Append(Front(path), name)))

StaticPath(path) ==
  IF Last(path) # "" THEN path
  ELSE IF IndexOf(path) = 0 THEN <<"..">>
  ELSE Append(Front(path), StaticIndexes[IndexOf(path)])

FileResponse(path) ==
  [NoResponse EXCEPT
     !.code = 200,
     !.type = IF Last(path) \in DOMAIN Mime THEN Mime[Last(path)]
              ELSE "application/force-download",
     !.body = Files[<<StaticEndpoints[Matching].dir>> \o path]]

NotFound == [NoResponse EXCEPT !.code = 404, !.type = "application/json",
                               !.body = <<"404">>]

\* A cookie without "=" passes the test for it, made on an unsigned int, and
\* its name is taken as its value too.
Cookies ==
  IF ~Has("cookie") THEN <<>>
  ELSE [i \in DOMAIN GetHeader("cookie").crumbs |->
          LET c == GetHeader("cookie").crumbs[i]
          IN  [name |-> c.name, value |-> IF c.eq THEN c.value ELSE c.name]]

SID == LET at == SelectLastInSeq(Cookies, LAMBDA c : c.name = "SolusekSID")
       IN  IF at = 0 THEN "" ELSE Cookies[at].value

(***************************************************************************)
(* The response is written piece by piece, each with one send(); a piece   *)
(* of no characters makes it return 0, which writeBuffer() throws.         *)
(***************************************************************************)
ResponseLines(r) ==
  <<StatusLine(r.code), OtherLine, TypeLine(r.type), LengthLine(Len(r.body)),
    OtherLine>>
  \o (IF r.sid = "" THEN <<>> ELSE <<SetCookie("SolusekSID", r.sid)>>)
  \o [i \in DOMAIN r.cookies |->
        SetCookie(r.cookies[i].name, r.cookies[i].value)]
  \o <<OtherLine, OtherLine, BlankLine>>

HasEmptyPiece(line) ==
  \/ line.k = "type" /\ line.type = ""
  \/ line.k = "setcookie" /\ (line.name = "" \/ line.value = "")

NodeTypeOK ==
  /\ npc \in {"off", "listen", "header", "body", "dispatch", "write", "close",
              "gone"}
  /\ got = 0 \/ got \in 1..ContentLength + Chunk - 1
  /\ response.code \in Nat

NodeInit ==
  /\ headers = <<>> /\ request = NoRequest /\ got = 0
  /\ called = NotCalled /\ response = NoResponse /\ out = <<>>

\* An exception of either kind empties Path: nothing answers.
GiveUp == npc' = "close" /\ request' = NoRequest

\* recv() of the next byte of a line, up to its end.
ReadHeaderLine ==
  /\ npc = "header" /\ up # <<>>
  /\ up' = Tail(up)
  /\ headers' = Append(headers, Head(up))
  /\ IF ~EndsHeader(Head(up), Len(headers))
     THEN UNCHANGED <<npc, request>>
     ELSE IF headers[1].k # "start"        \* no blank in it: "Invalid header."
     THEN GiveUp
     ELSE npc' = "body" /\ request' = ParseStart(headers[1])
  /\ UNCHANGED <<upOpen, down, downOpen, fault, got, called, response, out>>

ReserveThrows ==
  /\ npc = "body" /\ got = 0 /\ ContentLength > MaxReserve
  /\ fault' = TRUE
  /\ GiveUp
  /\ UNCHANGED <<up, upOpen, down, downOpen, headers, got, called, response,
                 out>>

\* mutant of ReadBodyChunk: the loop does not compare with the length
ReadBodyChunk_Unbounded ==
  /\ npc = "body" /\ Has("length")
  /\ \E n \in 1..Chunk :
       /\ n <= Len(up)
       /\ request' = [request EXCEPT !.body =
                        @ \o CString(Text(SubSeq(up, 1, n)))]
       /\ up' = SubSeq(up, n + 1, Len(up))
       /\ got' = got + n
  /\ UNCHANGED <<upOpen, down, downOpen, fault, npc, headers, called,
                 response, out>>

\* recv() of what has come of the body, at most Chunk bytes whatever is
\* left of the announced length.
ReadBodyChunk ==
  /\ npc = "body" /\ got < ContentLength
  /\ \E n \in 1..Chunk :
       /\ n <= Len(up)
       /\ request' = [request EXCEPT !.body =
                        @ \o CString(Text(SubSeq(up, 1, n)))]
       /\ up' = SubSeq(up, n + 1, Len(up))
       /\ got' = got + n
  /\ UNCHANGED <<upOpen, down, downOpen, fault, npc, headers, called,
                 response, out>>

BodyRead ==
  /\ npc = "body" /\ got >= ContentLength
  /\ npc' = "dispatch"
  /\ UNCHANGED <<wireVars, headers, request, got, called, response, out>>

Reading == npc = "header" \/ (npc = "body" /\ got < ContentLength)

\* recv() returns 0 at the end of the stream: "Connection unexpectedly closed."
ReadEnds ==
  /\ Reading /\ up = <<>> /\ ~upOpen
  /\ GiveUp
  /\ UNCHANGED <<wireVars, headers, got, called, response, out>>

\* mutant of ReadTimesOut: the socket of the node has no timeout
ReadTimesOut_Never == FALSE

\* recv() returns -1 when nothing came for the 5 seconds of setTimeout().
ReadTimesOut ==
  /\ Reading /\ up = <<>> /\ upOpen
  /\ fault' = TRUE
  /\ GiveUp
  /\ UNCHANGED <<up, upOpen, down, downOpen, headers, got, called, response,
                 out>>

Respond(r) == response' = r /\ out' = ResponseLines(r) /\ npc' = "write"

IsRegistered ==
  \E e \in Endpoints : e.path = request.path /\ e.method = request.method

Callback ==
  /\ npc = "dispatch" /\ IsRegistered
  /\ called' = [method |-> request.method, path |-> request.path,
                query |-> request.query, body |-> request.body,
                host |-> Host, cookies |-> Cookies, sid |-> SID]
  /\ \E r \in Responses : Respond(r)
  /\ UNCHANGED <<wireVars, headers, request, got>>

ServeStatic ==
  /\ npc = "dispatch" /\ ~IsRegistered
  /\ LET path == StaticPath(request.path)
     IN  Respond(IF IsFile(path) THEN FileResponse(path) ELSE NotFound)
  /\ UNCHANGED <<wireVars, headers, request, got, called>>

WriteLine ==
  /\ npc = "write" /\ out # <<>>
  /\ IF HasEmptyPiece(Head(out))
     THEN npc' = "close" /\ UNCHANGED <<down, out>>
     ELSE down' = Append(down, Head(out)) /\ out' = Tail(out) /\ UNCHANGED npc
  /\ UNCHANGED <<up, upOpen, downOpen, fault, headers, request, got, called,
                 response>>

\* The body goes out with one send(): an empty one throws as any empty
\* piece, with nothing left to lose; when its time is over before the client
\* made room, send() took a part of it only and nobody looks at how much.
WriteBody ==
  /\ npc = "write" /\ out = <<>>
  /\ \E n \in 0..Len(response.body) :
       /\ n = 0 => response.body = <<>>
       /\ down' = down \o Bytes(SubSeq(response.body, 1, n))
       /\ fault' = (fault \/ n < Len(response.body))
  /\ npc' = "close"
  /\ UNCHANGED <<up, upOpen, downOpen, headers, request, got, called,
                 response, out>>

\* mutant of WriteFails: the request is answered once more
WriteFails_Again ==
  /\ npc = "write"
  /\ ~upOpen \/ (out = <<>> /\ response.body # <<>>)
  /\ fault' = TRUE
  /\ npc' = "dispatch"
  /\ UNCHANGED <<up, upOpen, down, downOpen, headers, request, got, called,
                 response, out>>

\* send() fails when the client is gone, or when its time is over and it
\* could not take a byte of the body.
WriteFails ==
  /\ npc = "write"
  /\ ~upOpen \/ (out = <<>> /\ response.body # <<>>)
  /\ fault' = TRUE
  /\ npc' = "close"
  /\ UNCHANGED <<up, upOpen, down, downOpen, headers, request, got, called,
                 response, out>>

\* close() and dispose().  What the client has not received yet is lost to
\* it when the node had not read all it was sent: the kernel resets.
Close ==
  /\ npc = "close"
  /\ npc' = "gone" /\ downOpen' = FALSE
  /\ IF up = <<>> THEN down' = down
     ELSE \E n \in 0..Len(down) : down' = SubSeq(down, 1, n)
  /\ UNCHANGED <<up, upOpen, fault, headers, request, got, called, response,
                 out>>

NodeRuns ==
  \/ ReadHeaderLine \/ ReadBodyChunk \/ BodyRead
  \/ ReadEnds \/ Callback \/ ServeStatic \/ WriteLine \/ WriteBody \/ Close

NodeStep == NodeRuns \/ ReserveThrows \/ ReadTimesOut \/ WriteFails
=============================================================================
