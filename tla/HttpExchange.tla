---------------------------- MODULE HttpExchange ----------------------------
(***************************************************************************)
(* One request over one connection: CClient::runRequest() at one end and   *)
(* CNode::run() at the other, or one of them against a peer that is not    *)
(* Solusek's, which has sent a stream of its own and may have closed.      *)
(***************************************************************************)
EXTENDS HttpNode, HttpClient

CONSTANTS Jobs,      \* what runRequest() is asked
          Strangers, \* item sequences that some other client sends
          Servers    \* streams of some other server: [items, whole, code,
                     \* body], the last two being the response they stand for

VARIABLES answer     \* the stream the client reads when the server is another

\* The length of a body is a number that the node can hold; no endpoint is
\* registered under the form in lower case of a method.
ASSUME StrangersAssumption ==
  \A s \in Strangers :
    /\ s \in Seq(ToSet(s))
    /\ \A i \in DOMAIN s : s[i].k = "length" => s[i].n \in Int

\* What the items of another server have to be for the response that they
\* stand for, or a first part of it: a header, then bytes if it has a length,
\* or chunks: a size, as many bytes, and the end of a line.
BytesIn(items, i)        == Cardinality({j \in 1..i : items[j].k = "byte"})
Precedes(items, i, kind) == \E j \in 1..i : items[j].k = kind
KindAt(items, i, kind)   == i \in DOMAIN items => items[i].k = kind
CrlfAt(items, i) ==
  KindAt(items, i, "cr") /\ KindAt(items, i + 1, "lf")
  /\ KindAt(items, i + 2, "size")
ChunkAt(items, i, n) ==
  (\A j \in 0..n - 1 : KindAt(items, i + j, "byte")) /\ CrlfAt(items, i + n)

IsResponse(items, number, body) ==
  /\ items \in Seq(ToSet(items)) /\ IsBody(body)
  /\ items # <<>> => items[1] = StatusLine(number)
  /\ \A i \in DOMAIN items :
       /\ items[i].k = "status" => i = 1
       /\ items[i].k = "length" => items[i].n = Len(body)
       /\ items[i].k = "byte" =>
            BytesIn(items, i) <= Len(body) /\ items[i].b = body[BytesIn(items, i)]
       /\ items[i].k = "size" =>
            /\ items[i].n \in Nat
            /\ items[i].n > 0 => ChunkAt(items, i + 1, items[i].n)
       /\ items[i].k = "blank" =>
            /\ ~Precedes(items, i - 1, "blank") /\ ~Precedes(items, i, "byte")
            /\ IF Precedes(items, i, "length")
               THEN \A j \in i + 1..Len(items) : items[j].k = "byte"
               ELSE Precedes(items, i, "chunked") =>
                      KindAt(items, i + 1, "size")

\* A whole one: the header ends, and all of the body is among the bytes, or
\* in chunks, each with what is behind it, as far as the one of size 0.
IsWhole(items, body) ==
  /\ Precedes(items, Len(items), "blank")
  /\ \A i \in DOMAIN items :
       /\ items[i].k = "blank" =>
            IF Precedes(items, i, "length")
            THEN BytesIn(items, Len(items)) = Len(body)
            ELSE IF Precedes(items, i, "chunked") THEN i < Len(items)
            ELSE body = <<>>
       /\ items[i].k = "size" =>
            IF items[i].n = 0 THEN BytesIn(items, i) = Len(body)
            ELSE i + items[i].n + 3 <= Len(items)

ASSUME ServersAssumption ==
  \A s \in Servers : /\ s.code \in Nat /\ IsResponse(s.items, s.code, s.body)
                     /\ s.whole => IsWhole(s.items, s.body)

ASSUME JobsAssumption ==
  \A j \in Jobs : /\ IsBody(j.body)
                  /\ \A e \in Endpoints : e.method # LowerCase(j.method)

vars == <<wireVars, nodeVars, clientVars, answer>>

NoServer == [whole |-> FALSE, code |-> 0, body |-> <<>>, items |-> <<>>]

(* Solusek at both ends. *)
BothInit ==
  /\ job \in Jobs /\ cpc = "start" /\ npc = "listen"
  /\ up = <<>> /\ upOpen = FALSE /\ down = <<>> /\ downOpen = TRUE
  /\ answer = NoServer

(* Another client has connected and sent its stream. *)
StrangerInit ==
  /\ job \in {j \in Jobs : ~j.valid} /\ cpc = "off" /\ npc = "header"
  /\ up \in Strangers /\ upOpen = TRUE /\ down = <<>> /\ downOpen = TRUE
  /\ answer = NoServer

(* Another server, with the stream it is going to send. *)
ServerInit ==
  /\ job \in Jobs /\ cpc = "start" /\ npc = "off"
  /\ up = <<>> /\ upOpen = FALSE /\ answer \in Servers
  /\ down = answer.items /\ downOpen = TRUE

Init ==
  /\ fault = FALSE /\ NodeInit /\ ClientInit
  /\ BothInit \/ StrangerInit \/ ServerInit

(* The client connects and the server makes its node. *)
Establish ==
  /\ Connect
  /\ npc' = IF npc = "listen" THEN "header" ELSE npc
  /\ UNCHANGED <<headers, request, got, called, response, out, answer>>

(* The other peer closes after its stream; a server that does so before it *)
(* has the request has failed.                                             *)
PeerCloses ==
  /\ \/ cpc = "off" /\ upOpen /\ upOpen' = FALSE
        /\ UNCHANGED <<downOpen, fault>>
     \/ npc = "off" /\ downOpen /\ downOpen' = FALSE
        /\ fault' = (fault \/ cpc \in {"start", "header", "body"})
        /\ UNCHANGED upOpen
  /\ UNCHANGED <<up, down, nodeVars, clientVars, answer>>

Client == ClientStep /\ UNCHANGED <<nodeVars, answer>>
Dies   == ClientDies /\ UNCHANGED <<nodeVars, answer>>
Node   == NodeStep   /\ UNCHANGED <<clientVars, answer>>

Next == Establish \/ Client \/ Dies \/ Node \/ PeerCloses

Spec == Init /\ [][Next]_vars

(* Both ends go on while they can: a thread at each, and recv() and send() *)
(* that end, with a timeout at the latest (CNode.cpp:23, CClient.cpp:236). *)
FairSpec == Spec /\ WF_vars(Establish \/ Client) /\ WF_vars(Node)

-----------------------------------------------------------------------------
TypeOK == NodeTypeOK /\ ClientTypeOK

(* The callback of an endpoint runs only with the request runRequest() was *)
(* asked to make and with its body to the last byte, whatever was delayed, *)
(* cut off or timed out on the way (CNode.cpp:43-66, 313); but for a body  *)
(* with a NUL in it, which CNode.cpp:317 cuts.                             *)
WholeRequest ==
  called # NotCalled /\ cpc # "off" =>
    /\ called.method = job.method /\ called.host = job.host
    /\ called.path = job.target.path /\ called.query = job.target.query
    /\ NulByte \notin ToSet(job.body) => called.body = job.body

Answer == IF npc = "off" THEN answer ELSE response

(* What runRequest() returns is never anything but the response or a first *)
(* part of it, and when it returns a response with a length and printed no *)
(* "Socket error", it is all of it (CClient.cpp:234-453).  An endpoint it  *)
(* refused is left out: it returns the code 200 for that.                  *)
ResultIsAnswer ==
  job.valid =>
    /\ code \in {0, Answer.code} /\ IsPrefix(resp, Answer.body)
    /\ cpc = "done" /\ ~error /\ ~job.ignoreResult /\ clen >= 0 =>
         code = Answer.code /\ resp = Answer.body

Torn == \E i \in DOMAIN ResponseLines(response) :
          HasEmptyPiece(ResponseLines(response)[i])

(* When no one was late and nothing failed, runRequest() ends without a    *)
(* "Socket error", but for an endpoint that it misreads (CClient.cpp:150)  *)
(* and a response with an empty type or cookie, which CNode cuts off there *)
(* (CNode.cpp:159, 191, 219); a whole stream of another server, with a     *)
(* length or in chunks however they arrive, is decoded to its body.        *)
CleanExchange ==
  cpc = "done" /\ ~fault /\ job.valid /\ ~job.ignoreResult =>
    IF npc # "off" THEN error <=> Misread \/ Torn
    ELSE ~Misread /\ answer.whole =>
           ~error /\ code = answer.code /\ resp = answer.body

(* What the exchange is to the program and to the endpoint. *)
absAnswer ==
  [settled |-> npc \notin {"listen", "header", "body", "dispatch"},
   code |-> Answer.code, body |-> Answer.body]
absResult ==
  IF cpc = "done"
  THEN [returned |-> TRUE, code |-> code, body |-> resp,
        whole |-> ~error /\ ~job.ignoreResult /\ clen >= 0]
  ELSE [returned |-> FALSE, code |-> 0, body |-> <<>>, whole |-> FALSE]

Abs == INSTANCE Request WITH asked <- job, mine <- cpc # "off", ran <- called,
                             NotRun <- NotCalled, answer <- absAnswer,
                             result <- absResult

(* An endpoint is called at most once for a request, with what was asked,  *)
(* and runRequest() returns one answer or a first part of it, whether it   *)
(* gave up before the call, in between or behind it, and whatever was late *)
(* or was lost (CNode.cpp:43-154, CClient.cpp:82-453).                     *)
ImplementsRequest == Abs!Spec

(* Both ends come to their end and close, whatever the other one does: the *)
(* node is disposed of (CNode.cpp:147-154) and runRequest() returns.       *)
ExchangeEnds ==
  <>(cpc \in {"off", "done", "dead"} /\ npc \in {"off", "listen", "gone"})
=============================================================================
