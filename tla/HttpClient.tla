----------------------------- MODULE HttpClient -----------------------------
(***************************************************************************)
(* CClient::runRequest(): it takes the endpoint apart, connects, sends the *)
(* header and the body, and reads the response, all on a socket whose      *)
(* errors are exceptions.  One catch at the end swallows them: the caller  *)
(* gets the code and the part of the body that were read until then.       *)
(***************************************************************************)
EXTENDS HttpWire

CONSTANT Segment   \* bytes of the body in one writeBuffer(): 1024

VARIABLES job,    \* the request: endpoint, Method, AdditionalHeaders, body
          cpc,    \* where runRequest() is
          sent,   \* done: bytes of the body that were sent
          lines,  \* lines of the response's header read so far
          clen,   \* headers["content-length"], -1 if there is none
          chunked,\* headers["transfer-encoding"] is not empty
          left,   \* bytes to read of the body or of the chunk
          code,   \* code
          resp,   \* resp
          error   \* history: "Socket error" was printed

ASSUME SegmentAssumption == Segment \in Nat \ {0}

clientVars == <<job, cpc, sent, lines, clen, chunked, left, code, resp, error>>
readVars   == <<lines, clen, chunked, left>>

\* MResponse(), which a request that is not made returns: its code is 200.
Default == [code |-> 200, body |-> <<>>]

ClientTypeOK ==
  /\ cpc \in {"off", "start", "header", "body", "readHeader", "readBody",
              "readSize", "readChunk", "readCrlf", "done", "dead"}
  /\ sent \in Nat /\ lines \in Nat /\ clen \in Int /\ left \in Nat
  /\ chunked \in BOOLEAN /\ error \in BOOLEAN /\ code \in Nat

ClientInit ==
  /\ sent = 0 /\ lines = 0 /\ clen = -1 /\ chunked = FALSE
  /\ left = 0 /\ code = 0 /\ resp = <<>> /\ error = FALSE

\* The port is looked for behind the first ":" of host and path together:
\* without a port, a colon further on spoils host, port and path.
Misread == ~job.hasPort /\ Len(job.target.query) > 1

\* The end of runRequest(): delete MainSocket closes the connection.
Return == cpc' = "done" /\ upOpen' = FALSE

\* An exception of the socket: "Socket error", which chunked reading does
\* not even print.
Abandon ==
  /\ Return
  /\ error' = (cpc \notin {"readSize", "readChunk", "readCrlf"})

InvalidEndpoint ==
  /\ cpc = "start" /\ ~job.valid
  /\ Return
  /\ code' = Default.code /\ resp' = Default.body
  /\ UNCHANGED <<up, down, downOpen, fault, job, sent, readVars, error>>

Connect ==
  /\ cpc = "start" /\ job.valid /\ ~Misread
  /\ cpc' = "header" /\ upOpen' = TRUE
  /\ UNCHANGED <<up, down, downOpen, fault, job, sent, readVars, code, resp,
                 error>>

\* The result of connect() is not looked at: the first send() throws.
ConnectFails ==
  /\ cpc = "start" /\ job.valid
  /\ fault' = (fault \/ ~Misread)
  /\ Abandon
  /\ UNCHANGED <<up, down, downOpen, job, sent, readVars, code, resp>>

RequestHeader ==
  <<StartLine(job.method, job.target), HostLine(job.host)>>
  \o (IF job.crumbs = <<>> THEN <<>> ELSE <<CookieLine(job.crumbs)>>)
  \o <<OtherLine>>
  \o (IF job.body = <<>> THEN <<>> ELSE <<LengthLine(Len(job.body))>>)
  \o <<BlankLine>>

SendHeader ==
  /\ cpc = "header"
  /\ up' = IF downOpen THEN up \o RequestHeader ELSE up
  /\ cpc' = "body"
  /\ UNCHANGED <<upOpen, down, downOpen, fault, job, sent, readVars, code,
                 resp, error>>

\* The next Segment bytes, or what is left.  To a node that is gone the
\* kernel still takes them.
SendBody ==
  /\ cpc = "body" /\ sent < Len(job.body)
  /\ LET end == IF sent + Segment > Len(job.body) THEN Len(job.body)
                ELSE sent + Segment
     IN  /\ sent' = end
         /\ up' = IF downOpen THEN up \o Bytes(SubSeq(job.body, sent + 1, end))
                  ELSE up
  /\ UNCHANGED <<upOpen, down, downOpen, fault, job, cpc, readVars, code,
                 resp, error>>

\* send() fails: the node is gone and has reset the connection.
SendFails ==
  /\ cpc \in {"header", "body"} /\ ~downOpen
  /\ cpc = "body" => sent < Len(job.body)
  /\ Abandon
  /\ UNCHANGED <<up, down, downOpen, fault, job, sent, readVars, code, resp>>

RequestSent ==
  /\ cpc = "body" /\ sent = Len(job.body)
  /\ IF job.ignoreResult THEN Return ELSE cpc' = "readHeader" /\ UNCHANGED upOpen
  /\ UNCHANGED <<up, down, downOpen, fault, job, sent, readVars, code, resp,
                 error>>

-----------------------------------------------------------------------------
Take(n) == down' = SubSeq(down, n + 1, Len(down))

\* mutant of AfterHeader: it waits for the body of a response without one
AfterHeader_Waits ==
  IF clen >= 0 THEN cpc' = "readBody" /\ left' = Unsigned(clen) /\ UNCHANGED upOpen
  ELSE IF chunked THEN cpc' = "readSize" /\ UNCHANGED <<left, upOpen>>
  ELSE Return /\ UNCHANGED left

\* What is read once the header is over: the announced length first, else
\* the chunks, else nothing.
AfterHeader ==
  IF clen >= 0
  THEN IF Unsigned(clen) = 0 THEN Return /\ UNCHANGED left
       ELSE cpc' = "readBody" /\ left' = Unsigned(clen) /\ UNCHANGED upOpen
  ELSE IF chunked THEN cpc' = "readSize" /\ UNCHANGED <<left, upOpen>>
  ELSE Return /\ UNCHANGED left

ReadResponseLine ==
  /\ cpc = "readHeader" /\ down # <<>>
  /\ Take(1)
  /\ lines' = lines + 1
  /\ LET line == Head(down)
     IN  /\ code' = IF line.k = "status" THEN line.code ELSE code
         /\ clen' = IF line.k = "length" THEN line.n ELSE clen
         /\ chunked' = (chunked \/ line.k = "chunked")
         /\ IF EndsHeader(line, lines) THEN AfterHeader
            ELSE UNCHANGED <<cpc, left, upOpen>>
  /\ UNCHANGED <<up, downOpen, fault, job, sent, resp, error>>

\* One byte of a body with a length.
ReadBodyByte ==
  /\ cpc = "readBody" /\ down # <<>>
  /\ Take(1)
  /\ resp' = Append(resp, Head(down).b)
  /\ left' = left - 1
  /\ IF left = 1 THEN Return ELSE UNCHANGED <<cpc, upOpen>>
  /\ UNCHANGED <<up, downOpen, fault, job, sent, lines, clen, chunked, code,
                 error>>

\* The line with the size of the next chunk; what the read of the last "\r\n"
\* left of it stands before the number, where sscanf() passes over it.
ReadSize ==
  /\ cpc = "readSize" /\ down # <<>>
  /\ Take(1)
  /\ IF Head(down).k = "lf" THEN UNCHANGED <<cpc, left, upOpen>>
     ELSE IF Head(down).n = 0 THEN Return /\ UNCHANGED left
     ELSE cpc' = "readChunk" /\ left' = Head(down).n /\ UNCHANGED upOpen
  /\ UNCHANGED <<up, downOpen, fault, job, sent, lines, clen, chunked, code,
                 resp, error>>

ReadChunkByte ==
  /\ cpc = "readChunk" /\ down # <<>>
  /\ Take(1)
  /\ resp' = Append(resp, Head(down).b)
  /\ left' = left - 1
  /\ cpc' = IF left = 1 THEN "readCrlf" ELSE cpc
  /\ UNCHANGED <<up, upOpen, downOpen, fault, job, sent, lines, clen, chunked,
                 code, error>>

\* readBuffer(bbuf, 2) may return after the "\r" alone.
ReadCrlf ==
  /\ cpc = "readCrlf"
  /\ \E n \in 1..2 : n <= Len(down) /\ Take(n)
  /\ cpc' = "readSize"
  /\ UNCHANGED <<up, upOpen, downOpen, fault, job, sent, readVars, code, resp,
                 error>>

Receiving ==
  cpc \in {"readHeader", "readBody", "readSize", "readChunk", "readCrlf"}

\* mutant of ServerCloses: the end of the stream is the end of the body
ServerCloses_IsEnd ==
  /\ Receiving /\ down = <<>> /\ ~downOpen
  /\ Return
  /\ UNCHANGED <<up, down, downOpen, fault, job, sent, readVars, code, resp,
                 error>>

ServerCloses ==
  /\ Receiving /\ down = <<>> /\ ~downOpen
  /\ Abandon
  /\ UNCHANGED <<up, down, downOpen, fault, job, sent, readVars, code, resp>>

ReceiveTimesOut ==
  /\ Receiving /\ down = <<>> /\ downOpen
  /\ fault' = TRUE
  /\ Abandon
  /\ UNCHANGED <<up, down, downOpen, job, sent, readVars, code, resp>>

\* The process of the client ends: its socket is closed for it.
ClientDies ==
  /\ cpc \notin {"off", "start", "done", "dead"}
  /\ cpc' = "dead" /\ upOpen' = FALSE
  /\ fault' = TRUE
  /\ UNCHANGED <<up, down, downOpen, job, sent, readVars, code, resp, error>>

ClientRuns ==
  \/ InvalidEndpoint \/ SendHeader \/ SendBody \/ RequestSent
  \/ ReadResponseLine \/ ReadBodyByte \/ ReadSize \/ ReadChunkByte \/ ReadCrlf
  \/ ServerCloses

ClientStep ==
  ClientRuns \/ ConnectFails \/ SendFails \/ ReceiveTimesOut
=============================================================================
