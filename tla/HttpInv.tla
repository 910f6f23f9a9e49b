------------------------------ MODULE HttpInv -------------------------------
(***************************************************************************)
(* The inductive invariant of HttpExchange from which HttpProofs derives   *)
(* its theorems, in named parts.                                           *)
(***************************************************************************)
EXTENDS HttpExchange

(* Solusek is at both ends. *)
Both == cpc # "off" /\ npc # "off"

(* The node has not answered, and has not given up. *)
Hears == npc \in {"listen", "header", "body", "dispatch"}

(* All that the client is going to send, and how much of it was received.  *)
Request == RequestHeader \o Bytes(job.body)
Taken  == Len(headers) + got

(* The connection holds what was sent and not received, in order, and how  *)
(* much was sent is known by where the client is, unless it was cut off.   *)
StreamInv ==
  /\ job \in Jobs
  /\ npc = "off" => called = NotCalled
  /\ Both =>
       /\ sent \in 0..Len(job.body)
       /\ cpc \in {"start", "header"} => sent = 0
       /\ Hears =>
            /\ downOpen
            /\ \E m \in Taken..Len(Request) :
                 /\ up = SubSeq(Request, Taken + 1, m)
                 /\ cpc \in {"start", "header"} => m = 0
                 /\ cpc = "body" => m = Len(RequestHeader) + sent

(* The lines read are the first ones of the request, and reading goes on   *)
(* to its last line and no further.                                        *)
HeadInv ==
  Both =>
    /\ npc \in {"listen", "header"} =>
         /\ got = 0
         /\ Len(headers) \in 0..Len(RequestHeader) - 1
         /\ headers = SubSeq(RequestHeader, 1, Len(headers))
    /\ npc \in {"body", "dispatch"} => headers = RequestHeader

(* What is made of the start line, and the bytes of the body so far.       *)
BodyInv ==
  Both /\ npc \in {"body", "dispatch"} =>
    /\ got \in 0..Len(job.body)
    /\ npc = "dispatch" => got = Len(job.body)
    /\ request = [ParseStart(StartLine(job.method, job.target))
                    EXCEPT !.body = request.body]
    /\ NulByte \notin ToSet(job.body) =>
         request.body = SubSeq(job.body, 1, got)

RequestIInv == StreamInv /\ HeadInv /\ BodyInv /\ WholeRequest

(* All that the server is going to send.                                   *)
Reply == IF npc = "off" THEN answer.items
         ELSE ResponseLines(response) \o Bytes(response.body)

(* All that was sent of it and not taken is on its way.                    *)
Between(p, m) ==
  p \in Nat /\ m \in Nat /\ p <= m /\ m <= Len(Reply)
  /\ down = SubSeq(Reply, p + 1, m)

(* Where the node is when it has sent m items; another server has sent all *)
(* that it is going to.                                                    *)
NodeAt(m) ==
  /\ npc = "off" => m = Len(Reply)
  /\ Hears => m = 0
  /\ npc = "write" =>
       LET all == ResponseLines(response)
       IN  m <= Len(all) /\ out = SubSeq(all, m + 1, Len(all))

(* Where the client is when it has taken p items: it has the first bytes   *)
(* of the body, and the code since it has read a line.                     *)
Holds(p) ==
  /\ code \in {0, Answer.code} /\ clen \in Int
  /\ p = 0 => code = 0 /\ resp = <<>> /\ clen = -1
  /\ Len(resp) \in 0..Len(Answer.body) /\ resp = SubSeq(Answer.body, 1, Len(resp))

(* It has not begun to read; it is in the header; it has read the header   *)
(* and as many bytes as are among the items.                               *)
BeforeReply(p) == p = 0 /\ lines = 0 /\ ~chunked

InHeader(p) ==
  /\ p = lines /\ resp = <<>> /\ ~Precedes(Reply, p, "blank")
  /\ p > 0 => code = Answer.code
  /\ clen = IF Precedes(Reply, p, "length") THEN Len(Answer.body) ELSE -1
  /\ chunked <=> Precedes(Reply, p, "chunked")

PastHeader(p) ==
  p > 0 /\ code = Answer.code /\ Len(resp) = BytesIn(Reply, p)

InBody(p) ==
  /\ left \in Nat \ {0} /\ Len(resp) + left = Len(Answer.body)
  /\ \A j \in p + 1..Len(Reply) : Reply[j].k = "byte"

(* In chunks it reads the next item for what it is.                        *)
InChunks(p) ==
  /\ clen = -1
  /\ cpc = "readSize" =>
       \/ KindAt(Reply, p + 1, "size")
       \/ KindAt(Reply, p + 1, "lf") /\ KindAt(Reply, p + 2, "size")
  /\ cpc = "readChunk" => left \in Nat \ {0} /\ ChunkAt(Reply, p + 1, left)
  /\ cpc = "readCrlf" => CrlfAt(Reply, p + 1)

(* It returns a response with a length only when it has all of it.         *)
Returned ==
  ~error /\ ~job.ignoreResult /\ clen >= 0 =>
    code = Answer.code /\ resp = Answer.body

ChunkReads == {"readSize", "readChunk", "readCrlf"}

ClientAt(p) ==
  /\ Holds(p)
  /\ cpc \in {"start", "header", "body"} => BeforeReply(p)
  /\ cpc = "readHeader" => InHeader(p)
  /\ cpc \in ChunkReads \cup {"readBody"} => PastHeader(p)
  /\ cpc = "readBody" => InBody(p)
  /\ cpc \in ChunkReads => InChunks(p)
  /\ cpc = "done" => Returned

(* What is sent is a response, or a first part of it, and the connection   *)
(* holds what was sent and not taken, but for what a reset has lost.       *)
ReplyIInv ==
  /\ IsMResponse(response)
  /\ IsResponse(Reply, Answer.code, Answer.body)
  /\ job.valid =>
       \E p, m \in 0..Len(Reply) :
         Between(p, m) /\ NodeAt(m) /\ ClientAt(p)

(* What goes on as it should while nobody was late and nothing failed.     *)
Sent ==
  cpc \notin {"start", "header"} /\ (cpc = "body" => sent = Len(job.body))

(* A node that heard all of the request sends all of the response, or      *)
(* stops before the first piece that is empty: then the header does not    *)
(* end, else as many items are on their way as the client has to read.     *)
NodeClean ==
  /\ npc = "listen" <=> cpc = "start" \/ (cpc = "done" /\ Misread)
  /\ cpc = "done" /\ ~Misread => ~Hears
  /\ cpc \notin ChunkReads
  /\ downOpen \/ npc = "gone"
  /\ Hears \/ (Sent /\ up = <<>>)
  /\ npc = "write" /\ Torn => \E i \in DOMAIN out : HasEmptyPiece(out[i])
  /\ cpc = "readBody" => ~Torn
  /\ npc \in {"close", "gone"} /\ cpc # "done" =>
       IF Torn THEN lines + Len(down) < Len(ResponseLines(response))
       ELSE Len(down) = IF cpc = "readBody" THEN left ELSE Len(Reply) - lines

(* Another server has not closed early, and if its stream was whole, what  *)
(* the client goes on to read is there.                                    *)
ServerClean ==
  /\ cpc \in {"start", "header", "body"} => downOpen
  /\ answer.whole =>
       /\ cpc = "readBody" => Len(down) = left
       /\ cpc = "readSize" =>
            down # <<>> /\ (Head(down).k = "lf" => Len(down) > 1)
       /\ cpc = "readChunk" => left + 3 <= Len(down)
       /\ cpc = "readCrlf"  => 3 <= Len(down)

Clean ==
  /\ cpc \notin {"off", "dead"}
  /\ cpc # "done" => ~error
  /\ cpc \notin {"start", "done"} => upOpen /\ ~Misread
  /\ IF npc = "off" THEN ServerClean ELSE NodeClean
  /\ CleanExchange

CleanIInv ==
  /\ npc = "off" => answer \in Servers
  /\ ~fault /\ job.valid /\ ~job.ignoreResult => Clean

(* The endpoint was not called before there is a response, and the node is *)
(* there only for a request that was sent.                                 *)
CallIInv ==
  /\ Hears => called = NotCalled
  /\ Both /\ npc # "listen" => job.valid /\ cpc # "start"

(* What the types rest on: the lengths that the node reads are integers,   *)
(* it counts bytes in the body only, and the client reads only what it has *)
(* asked for.                                                              *)
IsItems(items) ==
  /\ items \in Seq(ToSet(items))
  /\ \A i \in DOMAIN items : items[i].k = "length" => items[i].n \in Int

TypeIInv ==
  /\ TypeOK
  /\ IsItems(up) /\ IsItems(headers)
  /\ npc \in {"off", "listen", "header"} => got = 0
  /\ cpc \notin {"off", "start", "done"} => job.valid
  /\ npc = "off" => answer.code \in Nat

(* The types of both ends, and the request and the response as the client, *)
(* the connection and the node hold them between them.                     *)
HttpIInv == TypeIInv /\ RequestIInv /\ CallIInv /\ ReplyIInv /\ CleanIInv
=============================================================================
