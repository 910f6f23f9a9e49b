----------------------------- MODULE HttpProofs -----------------------------
(***************************************************************************)
(* Theorems about HttpExchange for any requests, endpoints, peers, and any *)
(* sizes of the reads and writes.                                          *)
(***************************************************************************)
EXTENDS HttpInv, SequenceTheorems, FiniteSetTheorems, WellFoundedInduction,
        TLAPS

(* What travels to the node when Solusek is at both ends. *)
Items ==
  {StartLine(job.method, job.target), HostLine(job.host), OtherLine,
   CookieLine(job.crumbs), LengthLine(Len(job.body)), BlankLine}
  \cup {Byte(b) : b \in ToSet(job.body)}

-----------------------------------------------------------------------------
(* The header of the request. *)

LEMMA HeaderPieces ==
  ASSUME NEW S, NEW s \in S, NEW h \in S, NEW o \in S, NEW b \in S,
         NEW c \in Seq(S), NEW l \in Seq(S), Len(c) <= 1, Len(l) <= 1
  PROVE  LET H == <<s, h>> \o c \o <<o>> \o l \o <<b>>
         IN  /\ H \in Seq(S) /\ Len(H) = 4 + Len(c) + Len(l)
             /\ H[1] = s /\ H[2] = h /\ H[Len(H)] = b
             /\ Len(c) = 1 => H[3] = c[1]
             /\ H[3 + Len(c)] = o
             /\ Len(l) = 1 => H[Len(H) - 1] = l[1]
<1> DEFINE H1 == <<s, h>> \o c
           H2 == H1 \o <<o>>
           H3 == H2 \o l
           H4 == H3 \o <<b>>
<1>0. Len(c) \in Nat /\ Len(l) \in Nat
  OBVIOUS
<1>1. /\ H1 \in Seq(S) /\ Len(H1) = 2 + Len(c)
      /\ H1[1] = s /\ H1[2] = h /\ (Len(c) = 1 => H1[3] = c[1])
  BY <1>0, ConcatProperties
<1> HIDE DEF H1
<1>2. /\ H2 \in Seq(S) /\ Len(H2) = 3 + Len(c)
      /\ H2[1] = s /\ H2[2] = h /\ (Len(c) = 1 => H2[3] = c[1])
      /\ H2[3 + Len(c)] = o
  BY <1>0, <1>1
<1> HIDE DEF H2
<1>3. /\ H3 \in Seq(S) /\ Len(H3) = 3 + Len(c) + Len(l)
      /\ H3[1] = s /\ H3[2] = h /\ (Len(c) = 1 => H3[3] = c[1])
      /\ H3[3 + Len(c)] = o /\ (Len(l) = 1 => H3[4 + Len(c)] = l[1])
  BY <1>0, <1>2
<1> HIDE DEF H3
<1>4. /\ H4 \in Seq(S) /\ Len(H4) = 4 + Len(c) + Len(l)
      /\ H4[1] = s /\ H4[2] = h /\ (Len(c) = 1 => H4[3] = c[1])
      /\ H4[3 + Len(c)] = o /\ (Len(l) = 1 => H4[4 + Len(c)] = l[1])
      /\ H4[4 + Len(c) + Len(l)] = b
  BY <1>0, <1>3
<1> QED
  BY <1>0, <1>4 DEF H1, H2, H3

(* The header begins with the start line and the line of the host, ends    *)
(* with its only blank line, and announces a body, if there is one, in the *)
(* line before (CClient.cpp:199-222).                                      *)
LEMMA HeaderShape ==
  LET H == RequestHeader
      n == Len(RequestHeader)
  IN  /\ H \in Seq(Items) /\ n \in Nat /\ n >= 4
      /\ H[1] = StartLine(job.method, job.target)
      /\ \A i \in 1..n : H[i].k = "host" <=> i = 2
      /\ H[2].host = job.host
      /\ \A i \in 1..n : H[i].k = "blank" <=> i = n
      /\ \A i \in 1..n : H[i].k = "length" <=> job.body # <<>> /\ i = n - 1
      /\ job.body # <<>> => H[n - 1].n = Len(job.body)
<1> DEFINE s == StartLine(job.method, job.target)
           h == HostLine(job.host)
           c == IF job.crumbs = <<>> THEN <<>> ELSE <<CookieLine(job.crumbs)>>
           l == IF job.body = <<>> THEN <<>> ELSE <<LengthLine(Len(job.body))>>
           H == <<s, h>> \o c \o <<OtherLine>> \o l \o <<BlankLine>>
<1>1. /\ s \in Items /\ h \in Items /\ OtherLine \in Items /\ BlankLine \in Items
      /\ CookieLine(job.crumbs) \in Items /\ LengthLine(Len(job.body)) \in Items
  BY DEF Items
<1>2. c \in Seq(Items) /\ l \in Seq(Items)
  BY <1>1
<1>3. /\ Len(c) = IF job.crumbs = <<>> THEN 0 ELSE 1
      /\ Len(l) = IF job.body = <<>> THEN 0 ELSE 1
      /\ Len(c) <= 1 /\ Len(l) <= 1
      /\ job.crumbs # <<>> => c[1] = CookieLine(job.crumbs)
      /\ job.body # <<>> => l[1] = LengthLine(Len(job.body))
  OBVIOUS
<1>4. /\ s.k = "start" /\ h.k = "host" /\ h.host = job.host
      /\ OtherLine.k = "other" /\ BlankLine.k = "blank"
      /\ CookieLine(job.crumbs).k = "cookie"
      /\ LengthLine(Len(job.body)).k = "length"
      /\ LengthLine(Len(job.body)).n = Len(job.body)
  BY DEF StartLine, HostLine, OtherLine, BlankLine, CookieLine, LengthLine
<1>5. RequestHeader = H
  BY DEF RequestHeader
<1> HIDE DEF s, h, c, l
<1>6. /\ H \in Seq(Items) /\ Len(H) = 4 + Len(c) + Len(l)
      /\ H[1] = s /\ H[2] = h /\ H[Len(H)] = BlankLine
      /\ Len(c) = 1 => H[3] = c[1]
      /\ H[3 + Len(c)] = OtherLine
      /\ Len(l) = 1 => H[Len(H) - 1] = l[1]
  <2> HIDE DEF H
  <2>1. Len(c) <= 1 /\ Len(l) <= 1
    BY <1>3
  <2> QED
    BY <1>1, <1>2, <2>1, HeaderPieces DEF H
<1> HIDE DEF H
<1>7. Len(H) \in 4..6 /\ Len(H) = 4 + Len(c) + Len(l)
  BY <1>3, <1>6
<1>8. ASSUME NEW i \in 1..Len(H)
      PROVE  /\ H[i].k = "host" <=> i = 2
             /\ H[i].k = "blank" <=> i = Len(H)
             /\ H[i].k = "length" <=> job.body # <<>> /\ i = Len(H) - 1
  <2>1. CASE job.crumbs = <<>> /\ job.body = <<>>
    BY <1>3, <1>4, <1>6, <1>7, <2>1
  <2>2. CASE job.crumbs # <<>> /\ job.body = <<>>
    BY <1>3, <1>4, <1>6, <1>7, <2>2
  <2>3. CASE job.crumbs = <<>> /\ job.body # <<>>
    BY <1>3, <1>4, <1>6, <1>7, <2>3
  <2>4. CASE job.crumbs # <<>> /\ job.body # <<>>
    BY <1>3, <1>4, <1>6, <1>7, <2>4
  <2> QED
    BY <2>1, <2>2, <2>3, <2>4
<1> QED
  BY <1>3, <1>4, <1>5, <1>6, <1>7, <1>8 DEF s

LEMMA JobIsRight ==
  ASSUME job \in Jobs
  PROVE  /\ job.body \in Seq(ToSet(job.body))
         /\ Len(job.body) \in Nat /\ Len(job.body) < Wrap
         /\ DOMAIN job.body = 1..Len(job.body)
         /\ \A i \in 1..Len(job.body) : job.body[i] \in ToSet(job.body)
         /\ job.body = <<>> <=> Len(job.body) = 0
         /\ \A e \in Endpoints : e.method # LowerCase(job.method)
<1>1. /\ job.body \in Seq(ToSet(job.body)) /\ Len(job.body) < Wrap
      /\ \A e \in Endpoints : e.method # LowerCase(job.method)
  BY JobsAssumption, Zenon DEF IsBody
<1> QED
  BY <1>1

(* What is sent: the header, then a byte for each byte of the body.        *)
LEMMA RequestIsSeq ==
  ASSUME job \in Jobs
  PROVE  /\ Request \in Seq(Items)
         /\ Len(RequestHeader) \in Nat
         /\ Len(Request) = Len(RequestHeader) + Len(job.body)
         /\ \A i \in 1..Len(RequestHeader) : Request[i] = RequestHeader[i]
         /\ \A i \in 1..Len(job.body) :
              Request[Len(RequestHeader) + i] = Byte(job.body[i])
<1>1. RequestHeader \in Seq(Items) /\ Len(RequestHeader) \in Nat
  BY HeaderShape, Zenon
<1>2. /\ Bytes(job.body) \in Seq(Items)
      /\ Len(Bytes(job.body)) = Len(job.body)
      /\ \A i \in 1..Len(job.body) : Bytes(job.body)[i] = Byte(job.body[i])
  <2>1. \A i \in 1..Len(job.body) : Byte(job.body[i]) \in Items
    BY JobIsRight, Zenon DEF Items
  <2> QED
    BY <2>1, JobIsRight DEF Bytes
<1> HIDE DEF Items
<1> QED
  <2> HIDE DEF Items
  <2>1. /\ Request \in Seq(Items)
        /\ Len(Request) = Len(RequestHeader) + Len(Bytes(job.body))
        /\ \A i \in 1..Len(RequestHeader) + Len(Bytes(job.body)) :
             Request[i] = IF i <= Len(RequestHeader) THEN RequestHeader[i]
                          ELSE Bytes(job.body)[i - Len(RequestHeader)]
    <3>1. PICK h, b : h = RequestHeader /\ b = Bytes(job.body)
      OBVIOUS
    <3>2. PICK S : S = Items
      OBVIOUS
    <3>3. h \in Seq(S) /\ b \in Seq(S)
      BY <1>1, <1>2, <3>1, <3>2, Zenon
    <3>4. /\ h \o b \in Seq(S) /\ Len(h \o b) = Len(h) + Len(b)
          /\ \A i \in 1..Len(h) + Len(b) :
               (h \o b)[i] = IF i <= Len(h) THEN h[i] ELSE b[i - Len(h)]
      BY <3>3, ConcatProperties, Zenon
    <3> QED
      BY <3>1, <3>2, <3>4, Zenon DEF Request
  <2>2. Len(job.body) \in Nat
    BY JobIsRight
  <2>3. ASSUME NEW i \in 1..Len(job.body)
        PROVE  Request[Len(RequestHeader) + i] = Byte(job.body[i])
    <3>1. PICK j \in 1..Len(RequestHeader) + Len(Bytes(job.body)) :
            j = Len(RequestHeader) + i /\ ~(j <= Len(RequestHeader))
      BY <1>1, <1>2, <2>2
    <3>2. Request[j] = Bytes(job.body)[j - Len(RequestHeader)]
      BY <2>1, <3>1, Zenon
    <3>3. j - Len(RequestHeader) = i
      BY <1>1, <2>2, <3>1
    <3> QED
      BY <1>2, <3>1, <3>2, <3>3, Zenon
  <2>4. ASSUME NEW i \in 1..Len(RequestHeader)
        PROVE  Request[i] = RequestHeader[i]
    <3>1. i \in 1..Len(RequestHeader) + Len(Bytes(job.body))
          /\ i <= Len(RequestHeader)
      BY <1>1, <1>2, <2>2
    <3> QED
      BY <2>1, <3>1, Zenon
  <2> QED
    BY <1>1, <1>2, <2>1, <2>3, <2>4, Zenon

(* The line that GetHeader() finds when there is one of its kind.          *)
LEMMA KindIsOnly ==
  ASSUME NEW kind, Len(headers) \in Nat, NEW n \in 1..Len(headers),
         \A i \in 1..Len(headers) : headers[i].k = kind <=> i = n
  PROVE  GetHeader(kind) = headers[n]
<1>1. {i \in 1..Len(headers) : headers[i].k = kind} = {n}
  OBVIOUS
<1>2. Min({n}) = n
  BY DEF Min
<1> QED
  BY <1>1, <1>2 DEF GetHeader, SelectInSeq

(* A length that an unsigned number can hold is itself.                    *)
LEMMA UnsignedIs ==
  ASSUME NEW n \in Nat, n < Wrap
  PROVE  Unsigned(n) = n
BY WrapAssumption DEF Unsigned

(* What the node finds in a header that it has read whole.                 *)
LEMMA HeaderRead ==
  ASSUME job \in Jobs, headers = RequestHeader
  PROVE  ContentLength = Len(job.body) /\ Host = job.host
<1>1. /\ Len(headers) \in Nat /\ Len(headers) >= 4
      /\ DOMAIN headers = 1..Len(headers)
      /\ \A i \in 1..Len(headers) : headers[i].k = "host" <=> i = 2
      /\ headers[2].host = job.host
      /\ \A i \in 1..Len(headers) :
           headers[i].k = "length" <=> job.body # <<>> /\ i = Len(headers) - 1
      /\ job.body # <<>> => headers[Len(headers) - 1].n = Len(job.body)
  <2>1. RequestHeader \in Seq(Items)
    BY HeaderShape, Zenon
  <2>2. DOMAIN RequestHeader = 1..Len(RequestHeader)
    BY <2>1
  <2> QED
    BY <2>2, HeaderShape
<1>2. Len(headers) \in Nat /\ Len(headers) >= 4
  BY <1>1, Zenon
<1>3. Host = job.host
  <2>1. 2 \in 1..Len(headers)
    BY <1>2
  <2>2. GetHeader("host") = headers[2]
    BY <1>1, <2>1, KindIsOnly, Zenon
  <2>3. Has("host")
    BY <1>1, <2>1, Zenon DEF Has
  <2> QED
    BY <1>1, <2>2, <2>3, Zenon DEF Host
<1>4. ContentLength = Len(job.body)
  <2>1. CASE job.body = <<>>
    <3>1. ~Has("length")
      BY <1>1, <2>1, Zenon DEF Has
    <3> QED
      BY <2>1, <3>1, JobIsRight DEF ContentLength
  <2>2. CASE job.body # <<>>
    <3>1. Len(headers) - 1 \in 1..Len(headers)
      BY <1>2
    <3>2. GetHeader("length") = headers[Len(headers) - 1]
      <4>1. PICK n \in 1..Len(headers) : n = Len(headers) - 1
        BY <3>1
      <4>2. \A i \in 1..Len(headers) : headers[i].k = "length" <=> i = n
        BY <1>1, <2>2, <4>1, Zenon
      <4>3. GetHeader("length") = headers[n]
        BY <1>2, <4>2, KindIsOnly, Zenon
      <4> QED
        BY <4>1, <4>3, Zenon
    <3>3. Has("length")
      BY <1>1, <2>2, <3>1, Zenon DEF Has
    <3>4. ContentLength = Unsigned(Len(job.body))
      BY <1>1, <2>2, <3>2, <3>3, Zenon DEF ContentLength
    <3>5. Len(job.body) \in Nat /\ Len(job.body) < Wrap
      BY JobIsRight, Zenon
    <3> QED
      BY <3>4, <3>5, UnsignedIs, Zenon
  <2> QED
    BY <2>1, <2>2
<1> QED
  BY <1>3, <1>4

-----------------------------------------------------------------------------
(* A part of a sequence is cut in two. *)

LEMMA Cut ==
  ASSUME NEW S, NEW X \in Seq(S), NEW k \in Nat, NEW m \in k..Len(X),
         NEW n \in 0..(m - k)
  PROVE  LET part == SubSeq(X, k + 1, m)
         IN  /\ Len(part) = m - k
             /\ SubSeq(part, 1, n) = SubSeq(X, k + 1, k + n)
             /\ SubSeq(part, n + 1, Len(part)) = SubSeq(X, k + n + 1, m)
             /\ part # <<>> <=> k < m
             /\ k < m => Head(part) = X[k + 1]
             /\ k < m => Tail(part) = SubSeq(X, k + 2, m)
<1> DEFINE part == SubSeq(X, k + 1, m)
<1>1. part \in Seq(S) /\ Len(part) = m - k
  OBVIOUS
<1>2. \A i \in 1..m - k : part[i] = X[k + i]
  OBVIOUS
<1> HIDE DEF part
<1>3. SubSeq(part, 1, n) = SubSeq(X, k + 1, k + n)
  BY <1>1, <1>2
<1>4. SubSeq(part, n + 1, Len(part)) = SubSeq(X, k + n + 1, m)
  BY <1>1, <1>2
<1>5. part # <<>> <=> k < m
  BY <1>1
<1>6. k < m => Head(part) = X[k + 1] /\ Tail(part) = SubSeq(X, k + 2, m)
  BY <1>1, <1>2
<1> QED
  BY <1>1, <1>3, <1>4, <1>5, <1>6 DEF part

(* Its first item, and what is behind it.                                  *)
LEMMA CutHead ==
  ASSUME NEW S, NEW X \in Seq(S), NEW k \in Nat, NEW m \in k..Len(X),
         NEW part, part = SubSeq(X, k + 1, m)
  PROVE  /\ part # <<>> <=> k < m
         /\ k < m => Head(part) = X[k + 1] /\ Tail(part) = SubSeq(X, k + 2, m)
<1>1. 0 \in 0..(m - k)
  OBVIOUS
<1> QED
  BY <1>1, Cut

LEMMA Joined ==
  ASSUME NEW S, NEW X \in Seq(S), NEW k \in Nat, NEW m \in k..Len(X),
         NEW n \in m..Len(X)
  PROVE  SubSeq(X, k + 1, m) \o SubSeq(X, m + 1, n) = SubSeq(X, k + 1, n)
BY ConcatAdjacentSubSeq

(* A part of the bytes of the body is the bytes of the part.               *)
LEMMA BodyPart ==
  ASSUME job \in Jobs, NEW i \in 0..Len(job.body), NEW j \in i..Len(job.body)
  PROVE  LET H == Len(RequestHeader)
         IN  /\ Bytes(SubSeq(job.body, i + 1, j))
                  = SubSeq(Request, H + i + 1, H + j)
             /\ Text(SubSeq(Request, H + i + 1, H + j))
                  = SubSeq(job.body, i + 1, j)
<1>1. PICK S : S = Items
  OBVIOUS
<1>2. PICK T : T = ToSet(job.body)
  OBVIOUS
<1>3. PICK X \in Seq(S) : X = Request
  BY <1>1, RequestIsSeq
<1>4. PICK B \in Seq(T) : B = job.body
  BY <1>2, JobIsRight
<1>5. PICK H \in Nat : H = Len(RequestHeader)
  BY RequestIsSeq
<1>6. Len(X) = H + Len(B) /\ \A n \in 1..Len(B) : X[H + n] = Byte(B[n])
  BY <1>3, <1>4, <1>5, RequestIsSeq, Zenon
<1>7. i \in 0..Len(B) /\ j \in i..Len(B)
  BY <1>4
<1> DEFINE u == SubSeq(B, i + 1, j)
           v == SubSeq(X, H + i + 1, H + j)
<1>8. /\ u \in Seq(T) /\ Len(u) = j - i /\ DOMAIN u = 1..j - i
      /\ \A n \in 1..j - i : u[n] = B[i + n]
  BY <1>7
<1>9. /\ v \in Seq(S) /\ Len(v) = j - i /\ DOMAIN v = 1..j - i
      /\ \A n \in 1..j - i : v[n] = X[H + (i + n)]
  BY <1>6, <1>7
<1>10. \A n \in 1..j - i : X[H + (i + n)] = Byte(B[i + n])
  BY <1>6, <1>7
<1> HIDE DEF u, v
<1>11. \A n \in 1..j - i : v[n] = Byte(u[n])
  BY <1>8, <1>9, <1>10
<1>12. Bytes(u) = v
  <2>1. v = [n \in 1..j - i |-> v[n]]
    BY <1>9
  <2>2. [n \in 1..j - i |-> v[n]] = [n \in 1..j - i |-> Byte(u[n])]
    BY <1>11, Zenon
  <2> QED
    BY <1>8, <2>1, <2>2, Zenon DEF Bytes
<1>13. Text(v) = u
  <2>1. \A x : Byte(x).b = x
    BY DEF Byte
  <2>2. \A n \in 1..j - i : v[n].b = u[n]
    BY <1>11, <2>1, Zenon
  <2>3. u = [n \in 1..j - i |-> u[n]]
    BY <1>8
  <2>4. [n \in 1..j - i |-> v[n].b] = [n \in 1..j - i |-> u[n]]
    BY <2>2, Zenon
  <2> QED
    BY <1>9, <2>3, <2>4, Zenon DEF Text
<1> QED
  BY <1>3, <1>4, <1>5, <1>12, <1>13, Zenon DEF u, v

-----------------------------------------------------------------------------
(* The steps of both ends, by what they do to the request. *)

(* After the request is sent the client leaves the connection to the node  *)
(* alone.                                                                  *)
LEMMA ClientMoves ==
  ASSUME Client \/ Dies
  PROVE  /\ UNCHANGED <<nodeVars, downOpen, job>>
         /\ cpc # "off" /\ cpc' # "off"
         /\ \/ SendHeader
            \/ SendBody
            \/ /\ cpc' \notin {"start", "header", "body"}
               /\ up' = up /\ sent' = sent
<1>1. UNCHANGED nodeVars
  BY DEF Client, Dies
<1>2. CASE ClientDies
  BY <1>1, <1>2 DEF ClientDies, readVars
<1>3. CASE ClientStep
  <2>1. CASE InvalidEndpoint \/ ConnectFails \/ SendFails \/ RequestSent
    BY <1>1, <2>1
    DEF InvalidEndpoint, ConnectFails, SendFails, RequestSent, Abandon, Return,
        readVars
  <2>2. CASE ReadResponseLine
    <3>1. cpc = "readHeader"
          /\ cpc' \in {"readHeader", "done", "readBody", "readSize"}
      BY <2>2 DEF ReadResponseLine, AfterHeader, Return
    <3> QED
      BY <1>1, <2>2, <3>1 DEF ReadResponseLine
  <2>3. CASE ReadBodyByte \/ ReadSize \/ ReadChunkByte \/ ReadCrlf
    BY <1>1, <2>3
    DEF ReadBodyByte, ReadSize, ReadChunkByte, ReadCrlf, Return, readVars
  <2>4. CASE ServerCloses \/ ReceiveTimesOut
    BY <1>1, <2>4
    DEF ServerCloses, ReceiveTimesOut, Receiving, Abandon, Return, readVars
  <2>5. CASE SendHeader \/ SendBody
    BY <1>1, <2>5 DEF SendHeader, SendBody, readVars
  <2> QED
    BY <1>3, <2>1, <2>2, <2>3, <2>4, <2>5 DEF ClientStep, ClientRuns
<1> QED
  BY <1>2, <1>3 DEF Client, Dies

(* But for its reads of the request, and for the call of the endpoint, a   *)
(* step of the node is past them or ends them.                             *)
LEMMA NodeMoves ==
  ASSUME Node
  PROVE  /\ UNCHANGED <<clientVars, upOpen>>
         /\ npc \notin {"off", "listen"} /\ npc' \notin {"off", "listen"}
         /\ \/ ReadHeaderLine
            \/ ReadBodyChunk
            \/ BodyRead
            \/ Callback
            \/ ~Hears' /\ called' = called
<1>1. UNCHANGED clientVars
  BY DEF Node
<1>2. CASE ReadHeaderLine \/ ReadBodyChunk \/ BodyRead
  BY <1>1, <1>2 DEF ReadHeaderLine, ReadBodyChunk, BodyRead, GiveUp, wireVars
<1>3. CASE ReserveThrows \/ ReadTimesOut \/ ReadEnds
  BY <1>1, <1>3
  DEF ReserveThrows, ReadTimesOut, ReadEnds, Reading, GiveUp, wireVars, Hears
<1>4. CASE Callback \/ ServeStatic
  BY <1>1, <1>4 DEF Callback, ServeStatic, Respond, wireVars, Hears
<1>5. CASE WriteLine \/ WriteBody \/ WriteFails \/ Close
  BY <1>1, <1>5 DEF WriteLine, WriteBody, WriteFails, Close, Hears
<1> QED
  BY <1>2, <1>3, <1>4, <1>5 DEF Node, NodeStep, NodeRuns

-----------------------------------------------------------------------------
(* The inductive invariant. *)

LEMMA RequestInit ==
  ASSUME Init
  PROVE  RequestIInv
<1> USE DEF Init, NodeInit, ClientInit
<1>1. job \in Jobs /\ called = NotCalled
  BY DEF BothInit, StrangerInit, ServerInit
<1>2. Len(RequestHeader) \in Nat /\ Len(RequestHeader) >= 4
      /\ RequestHeader \in Seq(Items)
  BY HeaderShape
<1>3. Request \in Seq(Items) /\ Len(Request) \in Nat /\ Len(job.body) \in Nat
  BY <1>1, <1>2, RequestIsSeq, JobIsRight
<1>4. CASE BothInit
  <2>1. /\ cpc = "start" /\ npc = "listen" /\ up = <<>> /\ downOpen
        /\ Len(headers) = 0 /\ got = 0 /\ sent = 0 /\ headers = <<>>
    BY <1>4 DEF BothInit
  <2>2. /\ SubSeq(Request, 1, 0) = <<>> /\ SubSeq(RequestHeader, 1, 0) = <<>>
    BY SubSeqEmpty
  <2>3. StreamInv
    <3>1. 0 \in 0..Len(Request) /\ 0 \in 0..Len(job.body) /\ 0 + 0 = 0
      BY <1>3
    <3>2. Taken = 0 /\ Taken + 1 = 1
      BY <2>1 DEF Taken
    <3> QED
      BY <1>1, <2>1, <2>2, <3>1, <3>2 DEF StreamInv
  <2>4. HeadInv
    BY <1>2, <2>1, <2>2 DEF HeadInv
  <2>5. BodyInv
    BY <2>1 DEF BodyInv
  <2> QED
    BY <1>1, <2>3, <2>4, <2>5 DEF RequestIInv, WholeRequest
<1>5. CASE StrangerInit \/ ServerInit
  <2>1. ~Both
    BY <1>5 DEF StrangerInit, ServerInit, Both
  <2> QED
    BY <1>1, <2>1
    DEF RequestIInv, StreamInv, HeadInv, BodyInv, WholeRequest
<1> QED
  BY <1>4, <1>5

LEMMA SameRequest ==
  ASSUME job' = job
  PROVE  RequestHeader' = RequestHeader /\ Request' = Request
BY DEF RequestHeader, Request

(* With the call and the request as they were, what was made of it stays.  *)
LEMMA WholeKept ==
  ASSUME WholeRequest, job' = job, called' = called, cpc' = "off" <=> cpc = "off"
  PROVE  WholeRequest'
BY DEF WholeRequest

(* Nothing is said of a connection with another peer or of a node that     *)
(* hears no more.                                                          *)
LEMMA NotHeard ==
  ASSUME RequestIInv, job' = job, called' = called,
         cpc' = "off" <=> cpc = "off", npc' = "off" <=> npc = "off",
         ~Both \/ ~Hears',
         Both => /\ sent' \in 0..Len(job.body)
                 /\ cpc' \in {"start", "header"} => sent' = 0
  PROVE  RequestIInv'
<1>1. StreamInv'
  BY DEF RequestIInv, StreamInv, Both
<1>2. HeadInv' /\ BodyInv'
  BY DEF HeadInv, BodyInv, Hears, Both
<1> QED
  BY <1>1, <1>2, WholeKept DEF RequestIInv

(* The node is as it was: what is said of its header and body stays.       *)
LEMMA NodeKept ==
  ASSUME RequestIInv, job' = job, UNCHANGED nodeVars,
         cpc' = "off" <=> cpc = "off"
  PROVE  HeadInv' /\ BodyInv' /\ WholeRequest' /\ Taken' = Taken
         /\ Hears' = Hears /\ Both' = Both
<1> USE DEF nodeVars
<1>1. HeadInv'
  BY SameRequest DEF RequestIInv, HeadInv, Both
<1>2. BodyInv'
  BY DEF RequestIInv, BodyInv, Both, ParseStart, StartLine
<1>3. WholeRequest'
  BY WholeKept DEF RequestIInv
<1> QED
  BY <1>1, <1>2, <1>3 DEF Taken, Hears, Both

LEMMA EstablishStep ==
  ASSUME RequestIInv, Establish
  PROVE  RequestIInv'
<1>1. /\ cpc = "start" /\ cpc' = "header" /\ job' = job /\ sent' = sent
      /\ up' = up /\ downOpen' = downOpen /\ called' = called
      /\ headers' = headers /\ got' = got /\ request' = request
      /\ npc' = IF npc = "listen" THEN "header" ELSE npc
  BY DEF Establish, Connect, readVars
<1>2. /\ Both' = Both /\ (Hears' <=> Hears) /\ Taken' = Taken
      /\ (npc' = "off" <=> npc = "off")
      /\ npc \notin {"listen", "header"} => npc' = npc
      /\ npc' \in {"listen", "header"} <=> npc \in {"listen", "header"}
      /\ npc' \in {"body", "dispatch"} <=> npc \in {"body", "dispatch"}
      /\ npc' = "dispatch" <=> npc = "dispatch"
  BY <1>1 DEF Both, Hears, Taken
<1>3. StreamInv'
  BY <1>1, <1>2, SameRequest DEF RequestIInv, StreamInv
<1>4. HeadInv'
  BY <1>1, <1>2, SameRequest DEF RequestIInv, HeadInv
<1>5. BodyInv'
  BY <1>1, <1>2 DEF RequestIInv, BodyInv, ParseStart, StartLine
<1>6. WholeRequest'
  BY <1>1, WholeKept DEF RequestIInv
<1> QED
  BY <1>3, <1>4, <1>5, <1>6 DEF RequestIInv

(* What was read is counted by natural numbers, and is no more than there  *)
(* is; a part of the request is no other sequence than the connection's.   *)
LEMMA Counts ==
  ASSUME RequestIInv, Both, Hears
  PROVE  /\ Len(headers) \in Nat /\ got \in Nat /\ Taken \in Nat
         /\ Len(RequestHeader) \in Nat /\ Len(RequestHeader) >= 4
         /\ RequestHeader \in Seq(Items) /\ Request \in Seq(Items)
         /\ Len(job.body) \in Nat /\ sent \in 0..Len(job.body)
         /\ Len(Request) = Len(RequestHeader) + Len(job.body)
         /\ job \in Jobs
<1>1. job \in Jobs
  BY DEF RequestIInv, StreamInv
<1>2. /\ Len(RequestHeader) \in Nat /\ Len(RequestHeader) >= 4
      /\ RequestHeader \in Seq(Items) /\ Request \in Seq(Items)
      /\ Len(job.body) \in Nat
      /\ Len(Request) = Len(RequestHeader) + Len(job.body)
  BY <1>1, HeaderShape, RequestIsSeq, JobIsRight, Zenon
<1>3. Len(headers) \in Nat /\ got \in Nat
  BY <1>2 DEF RequestIInv, HeadInv, BodyInv, Hears
<1> QED
  BY <1>1, <1>2, <1>3 DEF Taken, RequestIInv, StreamInv

(* writeBuffer(): the node will find what was sent behind what it has not  *)
(* read yet (CClient.cpp:224-231).                                         *)
LEMMA SendHeaderStep ==
  ASSUME RequestIInv, SendHeader, UNCHANGED nodeVars
  PROVE  RequestIInv'
<1>1. /\ cpc = "header" /\ cpc' = "body" /\ job' = job /\ sent' = sent
      /\ downOpen' = downOpen
      /\ up' = IF downOpen THEN up \o RequestHeader ELSE up
  BY DEF SendHeader
<1>2. HeadInv' /\ BodyInv' /\ WholeRequest' /\ Taken' = Taken
      /\ Hears' = Hears /\ Both' = Both
  BY <1>1, NodeKept
<1>3. RequestHeader' = RequestHeader /\ Request' = Request
  BY <1>1, SameRequest
<1>4. job \in Jobs /\ called' = called /\ npc' = npc
      /\ (npc = "off" => called = NotCalled)
  BY DEF RequestIInv, StreamInv, nodeVars
<1>5. ASSUME Both, Hears
      PROVE  /\ downOpen /\ sent = 0
             /\ Len(RequestHeader) \in Taken..Len(Request)
             /\ up' = SubSeq(Request, Taken + 1, Len(RequestHeader))
  <2>1. /\ downOpen /\ sent = 0
        /\ 0 \in Taken..Len(Request) /\ up = SubSeq(Request, Taken + 1, 0)
    BY <1>1, <1>5 DEF RequestIInv, StreamInv
  <2>2. Taken = 0 /\ Len(RequestHeader) \in 0..Len(Request)
        /\ RequestHeader \in Seq(Items) /\ Request \in Seq(Items)
    BY <1>5, <2>1, Counts
  <2>3. up = <<>>
    BY <2>1, <2>2, SubSeqEmpty
  <2>4. up' = RequestHeader
    BY <1>1, <2>1, <2>2, <2>3, ConcatEmptySeq
  <2>5. SubSeq(Request, 1, Len(RequestHeader)) = RequestHeader
    BY <1>4, <2>2, RequestIsSeq
  <2> QED
    BY <2>1, <2>2, <2>4, <2>5
<1>6. Both => sent \in 0..Len(job.body)
  BY DEF RequestIInv, StreamInv
<1>7. ASSUME Both, Hears
      PROVE  Len(RequestHeader) = Len(RequestHeader) + sent
  BY <1>5, <1>7, Counts
<1>8. StreamInv'
  BY <1>1, <1>2, <1>3, <1>4, <1>5, <1>6, <1>7 DEF StreamInv
<1> QED
  BY <1>2, <1>8 DEF RequestIInv

LEMMA SendBodyStep ==
  ASSUME RequestIInv, SendBody, UNCHANGED nodeVars
  PROVE  RequestIInv'
<1>1. /\ cpc = "body" /\ cpc' = "body" /\ job' = job /\ downOpen' = downOpen
      /\ sent < Len(job.body)
      /\ sent' = IF sent + Segment > Len(job.body) THEN Len(job.body)
                 ELSE sent + Segment
      /\ up' = IF downOpen THEN up \o Bytes(SubSeq(job.body, sent + 1, sent'))
               ELSE up
  BY DEF SendBody
<1>2. HeadInv' /\ BodyInv' /\ WholeRequest' /\ Taken' = Taken
      /\ Hears' = Hears /\ Both' = Both
  BY <1>1, NodeKept
<1>3. RequestHeader' = RequestHeader /\ Request' = Request
  BY <1>1, SameRequest
<1>4. job \in Jobs /\ called' = called /\ npc' = npc
      /\ (npc = "off" => called = NotCalled)
  BY DEF RequestIInv, StreamInv, nodeVars
<1>5. ASSUME Both
      PROVE  sent \in 0..Len(job.body) /\ sent' \in sent..Len(job.body)
  <2>1. sent \in 0..Len(job.body) /\ Len(job.body) \in Nat
    BY <1>4, <1>5, JobIsRight DEF RequestIInv, StreamInv
  <2> QED
    BY <1>1, <2>1, SegmentAssumption
<1>6. ASSUME Both, Hears
      PROVE  /\ downOpen
             /\ Len(RequestHeader) + sent' \in Taken..Len(Request)
             /\ up' = SubSeq(Request, Taken + 1, Len(RequestHeader) + sent')
  <2>1. /\ downOpen
        /\ Len(RequestHeader) + sent \in Taken..Len(Request)
        /\ up = SubSeq(Request, Taken + 1, Len(RequestHeader) + sent)
    BY <1>1, <1>6 DEF RequestIInv, StreamInv
  <2>2. /\ Taken \in Nat /\ Len(RequestHeader) \in Nat
        /\ Len(job.body) \in Nat /\ Request \in Seq(Items)
        /\ Len(Request) = Len(RequestHeader) + Len(job.body)
        /\ job.body \in Seq(ToSet(job.body))
        /\ \A i \in 1..Len(job.body) :
             Request[Len(RequestHeader) + i] = Byte(job.body[i])
    BY <1>4, <1>6, Counts, JobIsRight, RequestIsSeq, Zenon
  <2>3. Len(RequestHeader) + sent' \in Len(RequestHeader) + sent..Len(Request)
    BY <1>5, <1>6, <2>2
  <2>4. Bytes(SubSeq(job.body, sent + 1, sent'))
          = SubSeq(Request, Len(RequestHeader) + sent + 1,
                   Len(RequestHeader) + sent')
    <3>0. PICK i \in 0..Len(job.body) : i = sent
      BY <1>5, <1>6
    <3>1. PICK j \in i..Len(job.body) : j = sent'
      BY <1>5, <1>6, <3>0
    <3>2. Bytes(SubSeq(job.body, i + 1, j))
            = SubSeq(Request, Len(RequestHeader) + i + 1,
                     Len(RequestHeader) + j)
      BY <1>4, BodyPart, Zenon
    <3> QED
      BY <3>0, <3>1, <3>2, Zenon
  <2>5. SubSeq(Request, Taken + 1, Len(RequestHeader) + sent)
          \o SubSeq(Request, Len(RequestHeader) + sent + 1,
                    Len(RequestHeader) + sent')
          = SubSeq(Request, Taken + 1, Len(RequestHeader) + sent')
    BY <2>1, <2>2, <2>3, Joined, Zenon
  <2>6. Len(RequestHeader) + sent' \in Taken..Len(Request)
    BY <1>5, <1>6, <2>1, <2>2, <2>3
  <2> QED
    BY <1>1, <2>1, <2>4, <2>5, <2>6
<1>7. Both => sent' \in 0..Len(job.body)
  BY <1>4, <1>5, JobIsRight
<1>8. StreamInv'
  BY <1>1, <1>2, <1>3, <1>4, <1>6, <1>7 DEF StreamInv
<1> QED
  BY <1>2, <1>8 DEF RequestIInv

(* readHeader(): the next line is the next one of the request, and the     *)
(* last one is the only one that ends it (CNode.cpp:256-306).              *)
LEMMA ReadHeaderStep ==
  ASSUME RequestIInv, ReadHeaderLine, UNCHANGED clientVars, Both
  PROVE  RequestIInv' /\ npc' # "close"
<1> DEFINE k == Len(headers)
<1>0. Hears /\ npc = "header"
  BY DEF ReadHeaderLine, Hears
<1>1. /\ npc = "header" /\ up # <<>> /\ up' = Tail(up)
      /\ headers' = Append(headers, Head(up))
      /\ IF ~EndsHeader(Head(up), Len(headers))
         THEN npc' = npc /\ request' = request
         ELSE IF headers[1].k # "start" THEN npc' = "close"
         ELSE npc' = "body" /\ request' = ParseStart(headers[1])
      /\ downOpen' = downOpen /\ got' = got /\ called' = called
  BY DEF ReadHeaderLine, GiveUp
<1>2. job' = job /\ cpc' = cpc /\ sent' = sent
  BY DEF clientVars
<1>3. /\ job \in Jobs /\ sent \in 0..Len(job.body)
      /\ cpc \in {"start", "header"} => sent = 0
      /\ downOpen
  BY <1>0 DEF RequestIInv, StreamInv
<1>4. PICK m \in Taken..Len(Request) :
        /\ up = SubSeq(Request, Taken + 1, m)
        /\ cpc \in {"start", "header"} => m = 0
        /\ cpc = "body" => m = Len(RequestHeader) + sent
  BY <1>0 DEF RequestIInv, StreamInv
<1>5. /\ got = 0 /\ k \in 0..Len(RequestHeader) - 1
      /\ headers = SubSeq(RequestHeader, 1, k) /\ Taken = k
      /\ Len(RequestHeader) \in Nat /\ Len(RequestHeader) >= 4
      /\ RequestHeader \in Seq(Items) /\ Request \in Seq(Items)
  BY <1>0, Counts DEF RequestIInv, HeadInv, Taken
<1>6. k < m /\ Head(up) = Request[k + 1] /\ Tail(up) = SubSeq(Request, k + 2, m)
  <2>1. /\ k \in Nat /\ m \in k..Len(Request) /\ Request \in Seq(Items)
        /\ up = SubSeq(Request, k + 1, m)
    BY <1>4, <1>5
  <2> HIDE DEF k
  <2>2. /\ up # <<>> <=> k < m
        /\ k < m => Head(up) = Request[k + 1] /\ Tail(up) = SubSeq(Request, k + 2, m)
    BY <2>1, CutHead, Zenon
  <2> QED
    BY <1>1, <2>2
<1>7. Head(up) = RequestHeader[k + 1]
  <2>1. k + 1 \in 1..Len(RequestHeader)
    BY <1>5
  <2> QED
    BY <1>3, <1>6, <2>1, RequestIsSeq, Zenon
<1>8. headers' = SubSeq(RequestHeader, 1, k + 1) /\ Len(headers') = k + 1
  BY <1>1, <1>5, <1>7
<1>9. EndsHeader(Head(up), k) <=> k + 1 = Len(RequestHeader)
  BY <1>5, <1>7, HeaderShape DEF EndsHeader
<1>10. k + 1 = Len(RequestHeader) => headers[1] = RequestHeader[1]
  BY <1>5
<1>11. ASSUME k + 1 = Len(RequestHeader)
       PROVE  /\ npc' = "body" /\ headers' = RequestHeader
              /\ request' = ParseStart(StartLine(job.method, job.target))
  BY <1>1, <1>5, <1>8, <1>9, <1>10, <1>11, HeaderShape DEF StartLine
<1>12. k + 1 # Len(RequestHeader) => npc' = "header" /\ request' = request
  BY <1>1, <1>9
<1>13. Taken' = k + 1
  BY <1>1, <1>5, <1>8 DEF Taken
<1>14. StreamInv'
  <2>1. m \in k + 1..Len(Request) /\ (k + 1) + 1 = k + 2
    BY <1>4, <1>5, <1>6
  <2>2. up' = SubSeq(Request, Taken' + 1, m)
    BY <1>1, <1>6, <1>13, <2>1
  <2>3. npc' # "off"
    BY <1>11, <1>12
  <2> QED
    BY <1>1, <1>2, <1>3, <1>4, <1>13, <2>1, <2>2, <2>3, SameRequest
    DEF StreamInv
<1>15. HeadInv'
  BY <1>1, <1>2, <1>5, <1>8, <1>11, <1>12, SameRequest DEF HeadInv
<1>16. BodyInv'
  <2>1. CASE k + 1 # Len(RequestHeader)
    BY <1>12, <2>1 DEF BodyInv
  <2>2. CASE k + 1 = Len(RequestHeader)
    <3>1. /\ request' = [request' EXCEPT !.body = request'.body]
          /\ request'.body = <<>>
      BY <1>11, <2>2 DEF ParseStart
    <3>2. SubSeq(job.body, 1, 0) = <<>>
      BY SubSeqEmpty
    <3>3. 0 \in 0..Len(job.body)
      BY <1>3
    <3> QED
      BY <1>1, <1>2, <1>5, <1>11, <2>2, <3>1, <3>2, <3>3 DEF BodyInv, ParseStart
  <2> QED
    BY <2>1, <2>2
<1> QED
  BY <1>1, <1>2, <1>11, <1>12, <1>14, <1>15, <1>16, WholeKept DEF RequestIInv

(* readBody(): what recv() brings goes behind what is there, but for what  *)
(* is behind a NUL (CNode.cpp:308-322).                                    *)
LEMMA ReadBodyStep ==
  ASSUME RequestIInv, ReadBodyChunk, UNCHANGED clientVars, Both
  PROVE  RequestIInv'
<1> DEFINE H == Len(RequestHeader)
<1>1. PICK n \in 1..Chunk :
        /\ n <= Len(up)
        /\ request' = [request EXCEPT !.body =
                         @ \o CString(Text(SubSeq(up, 1, n)))]
        /\ up' = SubSeq(up, n + 1, Len(up))
        /\ got' = got + n
  BY DEF ReadBodyChunk
<1>2. /\ npc = "body" /\ npc' = "body" /\ Hears /\ Hears' /\ Both'
      /\ downOpen' = downOpen /\ headers' = headers /\ called' = called
      /\ job' = job /\ cpc' = cpc /\ sent' = sent
  BY DEF ReadBodyChunk, clientVars, Hears, Both
<1>3. /\ job \in Jobs /\ sent \in 0..Len(job.body)
      /\ cpc \in {"start", "header"} => sent = 0
      /\ downOpen
  BY <1>2 DEF RequestIInv, StreamInv
<1>4. PICK m \in Taken..Len(Request) :
        /\ up = SubSeq(Request, Taken + 1, m)
        /\ cpc \in {"start", "header"} => m = 0
        /\ cpc = "body" => m = H + sent
  BY <1>2 DEF RequestIInv, StreamInv
<1>5. /\ headers = RequestHeader /\ got \in 0..Len(job.body)
      /\ request = [ParseStart(StartLine(job.method, job.target))
                      EXCEPT !.body = request.body]
      /\ NulByte \notin ToSet(job.body) =>
           request.body = SubSeq(job.body, 1, got)
  BY <1>2 DEF RequestIInv, HeadInv, BodyInv
<1>6. /\ Taken = H + got /\ H \in Nat /\ H >= 4 /\ Len(job.body) \in Nat
      /\ Len(Request) = H + Len(job.body) /\ Request \in Seq(Items)
      /\ job.body \in Seq(ToSet(job.body)) /\ Taken \in Nat
  BY <1>2, <1>3, <1>5, Counts, JobIsRight DEF Taken
<1> HIDE DEF H
<1>7. /\ n \in Nat /\ n >= 1 /\ n \in 0..m - Taken
      /\ Len(up) = m - Taken
      /\ SubSeq(up, 1, n) = SubSeq(Request, Taken + 1, Taken + n)
      /\ SubSeq(up, n + 1, Len(up)) = SubSeq(Request, Taken + n + 1, m)
  <2>1. n \in Nat /\ n >= 1
    BY ChunkAssumption
  <2>2. Len(up) = m - Taken
    BY <1>4, <1>6, Cut
  <2>3. n \in 0..m - Taken
    BY <1>1, <1>4, <1>6, <2>1, <2>2
  <2> QED
    <3>1. PICK X \in Seq(Items) : X = Request
      BY <1>6
    <3>2. PICK k \in Nat : k = Taken
      BY <1>6
    <3>3. m \in k..Len(X) /\ n \in 0..(m - k) /\ up = SubSeq(X, k + 1, m)
      BY <1>4, <2>3, <3>1, <3>2
    <3>4. /\ SubSeq(up, 1, n) = SubSeq(X, k + 1, k + n)
          /\ SubSeq(up, n + 1, Len(up)) = SubSeq(X, k + n + 1, m)
      BY <3>3, Cut
    <3> QED
      BY <2>1, <2>2, <2>3, <3>1, <3>2, <3>4, Zenon
<1>8. /\ got' \in 0..Len(job.body) /\ got' = got + n /\ Taken' = Taken + n
      /\ m \in Taken'..Len(Request) /\ got + n <= Len(job.body)
  <2>1. Taken' = H + got'
    BY <1>2, <1>5, Zenon DEF Taken, H
  <2>2. /\ got' = got + n /\ got \in Nat /\ n \in 0..m - (H + got)
        /\ m \in H + got..H + Len(job.body) /\ n \in Nat
    BY <1>1, <1>4, <1>5, <1>6, <1>7
  <2> QED
    BY <1>6, <2>1, <2>2
<1>9. StreamInv'
  <2>1. up' = SubSeq(Request, Taken' + 1, m)
    BY <1>1, <1>7, <1>8
  <2>2. cpc = "body" => m = Len(RequestHeader) + sent
    BY <1>4 DEF H
  <2> QED
    BY <1>2, <1>3, <1>4, <1>8, <2>1, <2>2, SameRequest DEF StreamInv
<1>10. HeadInv'
  BY <1>2, <1>5, SameRequest DEF HeadInv
<1>11. Text(SubSeq(up, 1, n)) = SubSeq(job.body, got + 1, got + n)
  <2>1. PICK i \in 0..Len(job.body) : i = got
    BY <1>5
  <2>2. PICK j \in i..Len(job.body) : j = got + n
    BY <1>7, <1>8, <2>1
  <2>3. Text(SubSeq(Request, H + i + 1, H + j)) = SubSeq(job.body, i + 1, j)
    BY <1>3, BodyPart, Zenon DEF H
  <2>4. Taken + 1 = H + i + 1 /\ Taken + n = H + j
    BY <1>6, <1>7, <2>1, <2>2
  <2> QED
    BY <1>7, <2>1, <2>2, <2>3, <2>4, Zenon
<1>12. /\ request' = [ParseStart(StartLine(job.method, job.target))
                        EXCEPT !.body = request'.body]
       /\ request'.body = request.body \o CString(Text(SubSeq(up, 1, n)))
  BY <1>1, <1>5 DEF ParseStart
<1>13. ASSUME NulByte \notin ToSet(job.body)
       PROVE  request'.body = SubSeq(job.body, 1, got')
  <2>1. CString(SubSeq(job.body, got + 1, got + n))
          = SubSeq(job.body, got + 1, got + n)
    <3>1. \A i \in DOMAIN SubSeq(job.body, got + 1, got + n) :
            SubSeq(job.body, got + 1, got + n)[i] \in ToSet(job.body)
      <4>1. PICK T : T = ToSet(job.body)
        OBVIOUS
      <4>2. PICK B \in Seq(T) : B = job.body
        BY <1>6, <4>1
      <4>3. got \in Nat /\ n \in Nat /\ got + n <= Len(B)
        BY <1>5, <1>7, <1>8, <4>2
      <4>4. SubSeq(B, got + 1, got + n) \in Seq(T)
        BY <4>3
      <4>5. \A i \in DOMAIN SubSeq(B, got + 1, got + n) :
              SubSeq(B, got + 1, got + n)[i] \in T
        <5>1. PICK part \in Seq(T) : part = SubSeq(B, got + 1, got + n)
          BY <4>4
        <5>2. \A i \in DOMAIN part : part[i] \in T
          BY ElementOfSeq
        <5> QED
          BY <5>1, <5>2, Zenon
      <4> QED
        BY <4>1, <4>2, <4>5
    <3> QED
      BY <1>13, <3>1, Zenon DEF CString
  <2>2. SubSeq(job.body, 1, got) \o SubSeq(job.body, got + 1, got + n)
          = SubSeq(job.body, 1, got + n)
    <3>1. 0 \in Nat /\ got \in 0..Len(job.body)
          /\ got + n \in got..Len(job.body) /\ 0 + 1 = 1
      BY <1>5, <1>7, <1>8
    <3> QED
      BY <1>6, <3>1, Joined
  <2> QED
    BY <1>5, <1>8, <1>11, <1>12, <1>13, <2>1, <2>2, Zenon
<1>14. BodyInv'
  BY <1>2, <1>8, <1>12, <1>13 DEF BodyInv, ParseStart, StartLine
<1> QED
  BY <1>2, <1>9, <1>10, <1>14, WholeKept DEF RequestIInv

(* readBody() ends with all that was announced, which is all of the body.  *)
LEMMA BodyReadStep ==
  ASSUME RequestIInv, BodyRead, UNCHANGED clientVars, Both
  PROVE  RequestIInv'
<1>1. /\ npc = "body" /\ npc' = "dispatch" /\ got >= ContentLength
      /\ UNCHANGED wireVars /\ UNCHANGED clientVars
      /\ UNCHANGED <<headers, request, got, called>>
  BY DEF BodyRead
<1>2. Hears /\ Hears' /\ Both' /\ Taken' = Taken
  BY <1>1 DEF Hears, Both, Taken, clientVars
<1>3. RequestHeader' = RequestHeader /\ Request' = Request
  BY <1>1, SameRequest DEF clientVars
<1>4. StreamInv'
  BY <1>1, <1>2, <1>3 DEF RequestIInv, StreamInv, wireVars, clientVars
<1>5. HeadInv'
  BY <1>1, <1>3 DEF RequestIInv, HeadInv, clientVars
<1>6. got \in 0..Len(job.body) /\ got = Len(job.body)
  <2>1. job \in Jobs /\ headers = RequestHeader
    BY <1>1 DEF RequestIInv, StreamInv, HeadInv
  <2>2. ContentLength = Len(job.body) /\ Len(job.body) \in Nat
    BY <2>1, HeaderRead, JobIsRight
  <2> QED
    BY <1>1, <2>2 DEF RequestIInv, BodyInv
<1>7. BodyInv'
  BY <1>1, <1>6 DEF RequestIInv, BodyInv, clientVars, ParseStart, StartLine
<1> QED
  BY <1>1, <1>4, <1>5, <1>7, WholeKept DEF RequestIInv, clientVars

(* callEndpoint(): with a colon in the query string the method is not one  *)
(* that any endpoint is registered for, and nothing is called.             *)
LEMMA CallbackStep ==
  ASSUME RequestIInv, Callback, UNCHANGED clientVars, Both
  PROVE  RequestIInv'
<1>1. /\ npc = "dispatch" /\ IsRegistered
      /\ called'.method = request.method /\ called'.path = request.path
      /\ called'.query = request.query /\ called'.body = request.body
      /\ called'.host = Host
      /\ npc' = "write"
  BY DEF Callback, Respond
<1>2. /\ job' = job /\ cpc' = cpc /\ sent' = sent
  BY DEF clientVars
<1>3. /\ job \in Jobs /\ headers = RequestHeader /\ got = Len(job.body)
      /\ request = [ParseStart(StartLine(job.method, job.target))
                      EXCEPT !.body = request.body]
      /\ NulByte \notin ToSet(job.body) =>
           request.body = SubSeq(job.body, 1, got)
  BY <1>1 DEF RequestIInv, StreamInv, HeadInv, BodyInv
<1>4. Host = job.host
  BY <1>3, HeaderRead
<1>5. /\ request.method = job.method
      /\ request.path = job.target.path /\ request.query = job.target.query
  <2>1. request.method # LowerCase(job.method)
    BY <1>1, <1>3, JobIsRight DEF IsRegistered
  <2>2. ~(Len(job.target.query) > 1)
    BY <1>3, <2>1 DEF ParseStart, StartLine
  <2> QED
    BY <1>3, <2>2 DEF ParseStart, StartLine
<1>6. NulByte \notin ToSet(job.body) => request.body = job.body
  BY <1>3, JobIsRight, SubSeqFull
<1>7. WholeRequest'
  BY <1>1, <1>2, <1>4, <1>5, <1>6 DEF WholeRequest
<1>8. StreamInv'
  BY <1>1, <1>2 DEF RequestIInv, StreamInv, Hears, Both
<1>9. HeadInv' /\ BodyInv'
  BY <1>1 DEF HeadInv, BodyInv
<1> QED
  BY <1>7, <1>8, <1>9 DEF RequestIInv

LEMMA RequestNext ==
  ASSUME RequestIInv, [Next]_vars
  PROVE  RequestIInv'
<1>1. CASE Establish
  BY <1>1, EstablishStep
<1>2. CASE Client \/ Dies
  <2>1. /\ UNCHANGED nodeVars /\ downOpen' = downOpen /\ job' = job
        /\ cpc # "off" /\ cpc' # "off"
    BY <1>2, ClientMoves
  <2>2. CASE SendHeader
    BY <2>1, <2>2, SendHeaderStep
  <2>3. CASE SendBody
    BY <2>1, <2>3, SendBodyStep
  <2>4. CASE /\ cpc' \notin {"start", "header", "body"}
             /\ up' = up /\ sent' = sent
    <3>1. HeadInv' /\ BodyInv' /\ WholeRequest' /\ Taken' = Taken
          /\ Hears' = Hears /\ Both' = Both
      BY <2>1, NodeKept
    <3>2. StreamInv'
      BY <2>1, <2>4, <3>1, SameRequest DEF RequestIInv, StreamInv, nodeVars
    <3> QED
      BY <3>1, <3>2 DEF RequestIInv
  <2> QED
    BY <1>2, <2>2, <2>3, <2>4, ClientMoves
<1>3. CASE Node
  <2>1. /\ UNCHANGED clientVars /\ job' = job /\ cpc' = cpc /\ sent' = sent
        /\ npc \notin {"off", "listen"} /\ npc' \notin {"off", "listen"}
    BY <1>3, NodeMoves DEF clientVars
  <2>2. CASE ~Both
    <3>1. WholeRequest'
      BY <2>1, <2>2 DEF WholeRequest, Both
    <3>2. StreamInv' /\ HeadInv' /\ BodyInv'
      BY <2>1, <2>2 DEF RequestIInv, StreamInv, HeadInv, BodyInv, Both
    <3> QED
      BY <3>1, <3>2 DEF RequestIInv
  <2>3. CASE Both /\ ~Hears' /\ called' = called
    <3>1. /\ sent' \in 0..Len(job.body)
          /\ cpc' \in {"start", "header"} => sent' = 0
      BY <2>1, <2>3 DEF RequestIInv, StreamInv
    <3> QED
      BY <2>1, <2>3, <3>1, NotHeard
  <2> QED
    BY <1>3, <2>1, <2>2, <2>3, NodeMoves, ReadHeaderStep, ReadBodyStep,
       BodyReadStep, CallbackStep
<1>4. CASE PeerCloses
  BY <1>4, NotHeard
  DEF PeerCloses, RequestIInv, StreamInv, clientVars, nodeVars, Both
<1>5. CASE UNCHANGED vars
  <2>1. /\ UNCHANGED nodeVars /\ job' = job /\ cpc' = cpc /\ sent' = sent
        /\ up' = up /\ downOpen' = downOpen
    BY <1>5 DEF vars, wireVars, clientVars
  <2>2. HeadInv' /\ BodyInv' /\ WholeRequest' /\ Taken' = Taken
        /\ Hears' = Hears /\ Both' = Both
    BY <2>1, NodeKept
  <2>3. StreamInv'
    BY <2>1, <2>2, SameRequest DEF RequestIInv, StreamInv, nodeVars
  <2> QED
    BY <2>2, <2>3 DEF RequestIInv
<1> QED
  BY <1>1, <1>2, <1>3, <1>4, <1>5 DEF Next

(* The request, as the client, the connection and the node hold it between *)
(* them, is whole at every moment (CClient.cpp:199-231, CNode.cpp:43-66).  *)
THEOREM HttpRequest == Spec => []RequestIInv
<1>1. Init => RequestIInv
  BY RequestInit
<1>2. RequestIInv /\ [Next]_vars => RequestIInv'
  BY RequestNext
<1> QED
  BY <1>1, <1>2, PTL DEF Spec

(* An endpoint is called only with the request that was to be made and all *)
(* of its body, whatever the sizes of the reads and writes, and whoever    *)
(* dies, closes or is late (CNode.cpp:43-66, 308-322).                     *)
THEOREM HttpWholeRequest == Spec => []WholeRequest
<1>1. RequestIInv => WholeRequest
  BY DEF RequestIInv
<1> QED
  BY <1>1, HttpRequest, PTL

-----------------------------------------------------------------------------
(* The bytes among the items that the client has taken. *)

LEMMA BytesCounted ==
  ASSUME NEW items, NEW i \in Nat
  PROVE  /\ BytesIn(items, i) \in Nat
         /\ BytesIn(items, 0) = 0
         /\ BytesIn(items, i + 1)
              = BytesIn(items, i) + IF items[i + 1].k = "byte" THEN 1 ELSE 0
         /\ ~Precedes(items, i, "byte") => BytesIn(items, i) = 0
<1> DEFINE S(n) == {j \in 1..n : items[j].k = "byte"}
<1>1. IsFiniteSet(S(i))
  <2>1. IsFiniteSet(1..i)
    BY FS_Interval
  <2> QED
    BY <2>1, FS_Subset
<1>2. S(0) = {} /\ Cardinality({}) = 0
  BY FS_EmptySet
<1>3. S(i + 1) = IF items[i + 1].k = "byte" THEN S(i) \cup {i + 1} ELSE S(i)
  OBVIOUS
<1>4. i + 1 \notin S(i)
  OBVIOUS
<1>5. ~Precedes(items, i, "byte") => S(i) = {}
  BY DEF Precedes
<1> HIDE DEF S
<1>6. Cardinality(S(i)) \in Nat
  BY <1>1, FS_CardinalityType
<1>7. Cardinality(S(i) \cup {i + 1}) = Cardinality(S(i)) + 1
  BY <1>1, <1>4, FS_AddElement
<1>8. /\ BytesIn(items, i) = Cardinality(S(i))
      /\ BytesIn(items, 0) = Cardinality(S(0))
      /\ BytesIn(items, i + 1) = Cardinality(S(i + 1))
  BY DEF BytesIn, S
<1> QED
  BY <1>2, <1>3, <1>5, <1>6, <1>7, <1>8

(* The lines of a response, and the only ones that the client looks at.    *)
ReplyItems(r) ==
  {StatusLine(r.code), OtherLine, TypeLine(r.type), LengthLine(Len(r.body)),
   BlankLine, SetCookie("SolusekSID", r.sid)}
  \cup {SetCookie(r.cookies[i].name, r.cookies[i].value) : i \in DOMAIN r.cookies}
  \cup {Byte(b) : b \in ToSet(r.body)}

(* A sequence is one of m items and then one of n items.                   *)
Joins(u, S, s, m, t, n) ==
  /\ u \in Seq(S) /\ Len(u) = m + n
  /\ \A i \in 1..m : u[i] = s[i]
  /\ \A i \in 1..n : u[m + i] = t[i]
  /\ \A i \in m + 1..m + n : \E j \in 1..n : i = m + j /\ u[i] = t[j]

LEMMA ConcatAt ==
  ASSUME NEW S, NEW s \in Seq(S), NEW t \in Seq(S), NEW m \in Nat, NEW n \in Nat,
         Len(s) = m, Len(t) = n
  PROVE  Joins(s \o t, S, s, m, t, n)
<1> PICK u : u = s \o t
  OBVIOUS
<1>1. /\ u \in Seq(S) /\ Len(u) = m + n
      /\ \A i \in 1..m + n : u[i] = IF i <= m THEN s[i] ELSE t[i - m]
  BY ConcatProperties
<1>2. \A i \in 1..m : u[i] = s[i]
  BY <1>1
<1>3. ASSUME NEW i \in 1..n
      PROVE  u[m + i] = t[i]
  <2>1. m + i \in 1..m + n /\ ~(m + i <= m) /\ (m + i) - m = i
    OBVIOUS
  <2> QED
    BY <1>1, <2>1, Zenon
<1>4. ASSUME NEW i \in m + 1..m + n
      PROVE  \E j \in 1..n : i = m + j /\ u[i] = t[j]
  <2>1. i - m \in 1..n /\ i = m + (i - m)
    OBVIOUS
  <2> QED
    BY <1>3, <2>1, Zenon
<1> QED
  BY <1>1, <1>2, <1>3, <1>4 DEF Joins

(* Five items, those of b and c, and three items.                          *)
Pieces(all, S, a, b, c, d) ==
  /\ all \in Seq(S) /\ Len(all) \in Nat /\ Len(all) >= 8
  /\ \A i \in 1..5 : all[i] = a[i]
  /\ \A i \in 1..3 : all[Len(all) - 3 + i] = d[i]
  /\ \A i \in 6..Len(all) - 3 :
       \/ \E j \in 1..Len(b) : all[i] = b[j]
       \/ \E j \in 1..Len(c) : all[i] = c[j]

LEMMA ReplyPieces ==
  ASSUME NEW S, NEW a \in Seq(S), NEW b \in Seq(S), NEW c \in Seq(S),
         NEW d \in Seq(S), Len(a) = 5, Len(d) = 3
  PROVE  Pieces(a \o b \o c \o d, S, a, b, c, d)
<1> PICK all : all = a \o b \o c \o d
  OBVIOUS
<1>0. PICK B \in Nat : B = Len(b)
  OBVIOUS
<1>1. PICK C \in Nat : C = Len(c)
  OBVIOUS
<1>2. PICK ab : ab = a \o b
  OBVIOUS
<1>3. PICK abc : abc = ab \o c
  OBVIOUS
<1>4. all = abc \o d
  BY <1>2, <1>3
<1>5. /\ ab \in Seq(S) /\ Len(ab) = 5 + B
      /\ \A i \in 1..5 : ab[i] = a[i]
      /\ \A i \in 5 + 1..5 + B : \E j \in 1..B : i = 5 + j /\ ab[i] = b[j]
  <2>1. 5 \in Nat /\ B \in Nat /\ Len(b) = B
    BY <1>0
  <2>2. Joins(ab, S, a, 5, b, B)
    BY <1>2, <2>1, ConcatAt, Zenon
  <2> QED
    BY <2>2, Zenon DEF Joins
<1>6. PICK n \in Nat : n = 5 + B /\ n >= 5
  BY <1>5
<1>7. /\ abc \in Seq(S) /\ Len(abc) = n + C
      /\ \A i \in 1..n : abc[i] = ab[i]
      /\ \A i \in n + 1..n + C : \E j \in 1..C : i = n + j /\ abc[i] = c[j]
  <2>1. Len(ab) = n /\ Len(c) = C
    BY <1>1, <1>5, <1>6
  <2>2. Joins(abc, S, ab, n, c, C)
    BY <1>3, <1>5, <2>1, ConcatAt, Zenon
  <2> QED
    BY <2>2, Zenon DEF Joins
<1>8. PICK k \in Nat : k = n + C /\ k >= n
  BY <1>7
<1>9. /\ all \in Seq(S) /\ Len(all) = k + 3
      /\ \A i \in 1..k : all[i] = abc[i]
      /\ \A i \in 1..3 : all[k + i] = d[i]
  <2>1. Len(abc) = k /\ 3 \in Nat
    BY <1>7, <1>8
  <2>2. Joins(abc \o d, S, abc, k, d, 3)
    BY <1>7, <2>1, ConcatAt, Zenon
  <2> QED
    BY <1>4, <2>2, Zenon DEF Joins
<1>10. Len(all) \in Nat /\ Len(all) >= 8 /\ Len(all) - 3 = k
  BY <1>6, <1>8, <1>9
<1>11. \A i \in 1..5 : all[i] = a[i]
  <2>1. \A i \in 1..5 : i \in 1..n /\ i \in 1..k
    BY <1>6, <1>8
  <2> QED
    BY <1>5, <1>7, <1>9, <2>1, Zenon
<1>12. ASSUME NEW i \in 6..k
       PROVE  \/ \E j \in 1..B : all[i] = b[j]
              \/ \E j \in 1..C : all[i] = c[j]
  <2>1. CASE i <= n
    <3>1. i \in 1..n /\ i \in 1..k /\ i \in 5 + 1..5 + B
      BY <1>6, <1>8, <2>1
    <3>2. all[i] = ab[i]
      BY <1>7, <1>9, <3>1, Zenon
    <3>3. \E j \in 1..B : ab[i] = b[j]
      BY <1>5, <3>1, Zenon
    <3> QED
      BY <3>2, <3>3
  <2>2. CASE i > n
    <3>1. i \in n + 1..n + C /\ i \in 1..k
      BY <1>6, <1>8, <2>2
    <3>2. PICK j \in 1..C : i = n + j /\ abc[i] = c[j]
      BY <1>7, <3>1, Zenon
    <3>3. all[i] = abc[i]
      BY <1>9, <3>1, Zenon
    <3> QED
      BY <3>2, <3>3, Zenon
  <2>3. i <= n \/ i > n
    OBVIOUS
  <2> QED
    BY <2>1, <2>2, <2>3, Zenon
<1> QED
  BY <1>0, <1>1, <1>9, <1>10, <1>11, <1>12, Zenon DEF Pieces

(* A response has its code first and its length in the fourth line, ends   *)
(* its header with its only blank line and has no chunks.                  *)
IsHead(L, r) ==
  /\ L \in Seq(ReplyItems(r)) /\ Len(L) \in Nat /\ Len(L) >= 8
  /\ L[1] = StatusLine(r.code) /\ L[4].n = Len(r.body)
  /\ \A i \in 1..Len(L) :
       /\ L[i].k = "status" <=> i = 1
       /\ L[i].k = "length" <=> i = 4
       /\ L[i].k = "blank" <=> i = Len(L)
       /\ L[i].k \notin {"byte", "size", "chunked"}

LEMMA ReplyShape ==
  ASSUME NEW r, r.cookies \in Seq(ToSet(r.cookies))
  PROVE  IsHead(ResponseLines(r), r)
<1> DEFINE a == <<StatusLine(r.code), OtherLine, TypeLine(r.type),
                  LengthLine(Len(r.body)), OtherLine>>
           b == IF r.sid = "" THEN <<>> ELSE <<SetCookie("SolusekSID", r.sid)>>
           c == [i \in DOMAIN r.cookies |->
                   SetCookie(r.cookies[i].name, r.cookies[i].value)]
           d == <<OtherLine, OtherLine, BlankLine>>
           S == ReplyItems(r)
<1>1. /\ StatusLine(r.code) \in S /\ OtherLine \in S /\ TypeLine(r.type) \in S
      /\ LengthLine(Len(r.body)) \in S /\ BlankLine \in S
      /\ SetCookie("SolusekSID", r.sid) \in S
      /\ \A i \in DOMAIN r.cookies :
           SetCookie(r.cookies[i].name, r.cookies[i].value) \in S
  BY DEF ReplyItems
<1> HIDE DEF S
<1>2. a \in Seq(S) /\ Len(a) = 5
  BY <1>1
<1>3. b \in Seq(S) /\ \A j \in 1..Len(b) : b[j] = SetCookie("SolusekSID", r.sid)
  <2> PICK x \in S : x = SetCookie("SolusekSID", r.sid)
    BY <1>1
  <2>1. b = <<>> \/ b = <<x>>
    OBVIOUS
  <2> HIDE DEF a, b, c, d
  <2>2. CASE b = <<>>
    BY <2>2
  <2>3. CASE b = <<x>>
    <3>1. <<x>> \in Seq(S) /\ Len(<<x>>) = 1 /\ <<x>>[1] = x
      OBVIOUS
    <3> QED
      BY <2>3, <3>1
  <2> QED
    BY <2>1, <2>2, <2>3
<1>4. /\ c \in Seq(S)
      /\ \A j \in 1..Len(c) :
           c[j] = SetCookie(r.cookies[j].name, r.cookies[j].value)
  <2>1. DOMAIN r.cookies = 1..Len(r.cookies) /\ Len(r.cookies) \in Nat
    OBVIOUS
  <2>2. c = [i \in 1..Len(r.cookies) |->
               SetCookie(r.cookies[i].name, r.cookies[i].value)]
    BY <2>1
  <2> QED
    BY <1>1, <2>1, <2>2
<1>5. d \in Seq(S) /\ Len(d) = 3
  BY <1>1
<1>6. /\ a[1] = StatusLine(r.code) /\ a[2] = OtherLine
      /\ a[3] = TypeLine(r.type) /\ a[4] = LengthLine(Len(r.body))
      /\ a[5] = OtherLine
      /\ d[1] = OtherLine /\ d[2] = OtherLine /\ d[3] = BlankLine
  OBVIOUS
<1>7. ResponseLines(r) = a \o b \o c \o d
  BY DEF ResponseLines
<1> HIDE DEF a, b, c, d
<1>8. Pieces(a \o b \o c \o d, S, a, b, c, d)
  BY <1>2, <1>3, <1>4, <1>5, ReplyPieces, Zenon
<1>9. PICK L : L = ResponseLines(r)
  OBVIOUS
<1>10. Pieces(L, S, a, b, c, d)
  BY <1>7, <1>8, <1>9, Zenon
<1>11. PICK n \in Nat : n = Len(L) /\ n >= 8 /\ L \in Seq(S)
  BY <1>10 DEF Pieces
<1>12. /\ \A x : StatusLine(x).k = "status" /\ TypeLine(x).k = "type"
       /\ \A x : LengthLine(x).k = "length" /\ LengthLine(x).n = x
       /\ OtherLine.k = "other" /\ BlankLine.k = "blank"
       /\ \A x, y : SetCookie(x, y).k = "setcookie"
  BY DEF StatusLine, TypeLine, LengthLine, OtherLine, BlankLine, SetCookie
<1>13. /\ L[1] = StatusLine(r.code) /\ L[2] = OtherLine
       /\ L[3] = TypeLine(r.type) /\ L[4] = LengthLine(Len(r.body))
       /\ L[5] = OtherLine
  BY <1>6, <1>10 DEF Pieces
<1>14. L[n - 2] = OtherLine /\ L[n - 1] = OtherLine /\ L[n] = BlankLine
  <2>1. /\ L[n - 3 + 1] = d[1] /\ L[n - 3 + 2] = d[2] /\ L[n - 3 + 3] = d[3]
    BY <1>10, <1>11 DEF Pieces
  <2> QED
    BY <1>6, <1>11, <2>1
<1>15. ASSUME NEW i \in 6..n - 3
       PROVE  L[i].k = "setcookie"
  <2>1. \/ \E j \in 1..Len(b) : L[i] = b[j]
        \/ \E j \in 1..Len(c) : L[i] = c[j]
    BY <1>10, <1>11, Zenon DEF Pieces
  <2>2. ASSUME NEW j \in 1..Len(b), L[i] = b[j]
        PROVE  L[i].k = "setcookie"
    BY <1>3, <1>12, <2>2
  <2>3. ASSUME NEW j \in 1..Len(c), L[i] = c[j]
        PROVE  L[i].k = "setcookie"
    BY <1>4, <1>12, <2>3
  <2> QED
    BY <2>1, <2>2, <2>3
<1>16. ASSUME NEW i \in 1..n
       PROVE  /\ L[i].k = "status" <=> i = 1
              /\ L[i].k = "length" <=> i = 4
              /\ L[i].k = "blank" <=> i = n
              /\ L[i].k \notin {"byte", "size", "chunked"}
  <2>1. CASE i \in 1..5
    BY <1>11, <1>12, <1>13, <2>1
  <2>2. CASE i \in 6..n - 3
    BY <1>11, <1>15, <2>2
  <2>3. CASE i \in n - 2..n
    <3>1. (i = n - 2 \/ i = n - 1 \/ i = n) /\ i # 1 /\ i # 4
      BY <1>11, <2>3
    <3>2. CASE i = n
      BY <1>12, <1>14, <3>1, <3>2
    <3>3. CASE i # n
      <4>1. L[i] = OtherLine
        BY <1>14, <3>1, <3>3
      <4> QED
        BY <1>12, <3>1, <3>3, <4>1
    <3> QED
      BY <3>2, <3>3
  <2> QED
    BY <1>11, <2>1, <2>2, <2>3
<1>17. IsHead(L, r)
  BY <1>11, <1>12, <1>13, <1>16 DEF IsHead, S
<1> QED
  BY <1>9, <1>17

LEMMA SeqOfItself ==
  ASSUME NEW S, NEW s \in Seq(S)
  PROVE  s \in Seq(ToSet(s)) /\ DOMAIN s = 1..Len(s) /\ Len(s) \in Nat
BY DEF ToSet

(* What CNode writes is a response (CNode.cpp:324-395).                    *)
LEMMA ReplyIsResponse ==
  ASSUME NEW r, r.cookies \in Seq(ToSet(r.cookies)), IsBody(r.body)
  PROVE  IsResponse(ResponseLines(r) \o Bytes(r.body), r.code, r.body)
<1>1. PICK L : L = ResponseLines(r) /\ IsHead(L, r)
  BY ReplyShape
<1>2. PICK B : B = r.body
  OBVIOUS
<1>3. PICK S : S = ReplyItems(r)
  OBVIOUS
<1>4. PICK n \in Nat : n = Len(L) /\ n >= 8 /\ L \in Seq(S)
  BY <1>1, <1>3 DEF IsHead
<1>5. /\ L[1] = StatusLine(r.code) /\ L[4].n = Len(B)
      /\ \A i \in 1..n :
           /\ L[i].k = "status" <=> i = 1
           /\ L[i].k = "length" <=> i = 4
           /\ L[i].k = "blank" <=> i = n
           /\ L[i].k \notin {"byte", "size", "chunked"}
  BY <1>1, <1>2, <1>4 DEF IsHead
<1>6. B \in Seq(ToSet(B)) /\ \A b \in ToSet(B) : Byte(b) \in S
  BY <1>2, <1>3 DEF ReplyItems, IsBody
<1>7. PICK m \in Nat : m = Len(B)
  BY <1>6
<1>8. /\ Bytes(B) \in Seq(S) /\ Len(Bytes(B)) = m
      /\ \A i \in 1..m : Bytes(B)[i] = Byte(B[i])
  <2>1. /\ DOMAIN B = 1..m /\ \A i \in 1..m : B[i] \in ToSet(B)
    BY <1>6, <1>7
  <2>2. \A i \in 1..m : Byte(B[i]) \in S
    BY <1>6, <2>1, Zenon
  <2> QED
    BY <1>7, <2>1, <2>2 DEF Bytes
<1>9. PICK D : D = L \o Bytes(B)
  OBVIOUS
<1>10. Joins(L \o Bytes(B), S, L, n, Bytes(B), m)
  BY <1>4, <1>8, ConcatAt, Zenon
<1>11. /\ D \in Seq(S) /\ Len(D) = n + m /\ DOMAIN D = 1..n + m
       /\ \A i \in 1..n : D[i] = L[i]
       /\ \A i \in n + 1..n + m : \E j \in 1..m : i = n + j /\ D[i] = Bytes(B)[j]
  <2>1. /\ D \in Seq(S) /\ Len(D) = n + m
        /\ \A i \in 1..n : D[i] = L[i]
        /\ \A i \in n + 1..n + m :
             \E j \in 1..m : i = n + j /\ D[i] = Bytes(B)[j]
    BY <1>9, <1>10, Zenon DEF Joins
  <2>2. DOMAIN D = 1..Len(D)
    BY <2>1, SeqOfItself, Zenon
  <2> QED
    BY <2>1, <2>2, Zenon
<1>12. \A x : Byte(x).k = "byte" /\ Byte(x).b = x
  BY DEF Byte
<1>13. ASSUME NEW i \in n + 1..n + m
       PROVE  i - n \in 1..m /\ D[i].k = "byte" /\ D[i].b = B[i - n]
  <2>1. PICK j \in 1..m : i = n + j /\ D[i] = Bytes(B)[j]
    BY <1>11, Zenon
  <2>2. D[i] = Byte(B[j])
    BY <1>8, <2>1, Zenon
  <2>3. j = i - n
    BY <2>1
  <2> QED
    BY <1>12, <2>2, <2>3
<1>14. \A i \in 1..n : D[i].k \notin {"byte", "size", "chunked"}
  BY <1>5, <1>11, Zenon
<1>15. ASSUME NEW i \in n + 1..n + m
       PROVE  BytesIn(D, i) = i - n
  <2>1. {j \in 1..i : D[j].k = "byte"} = n + 1..i
    <3>1. ASSUME NEW j \in 1..i
          PROVE  D[j].k = "byte" <=> j \in n + 1..i
      BY <1>13, <1>14
    <3>2. n + 1..i \subseteq 1..i
      OBVIOUS
    <3> QED
      BY <3>1, <3>2
  <2>2. Cardinality(n + 1..i) = i - (n + 1) + 1
    BY FS_Interval
  <2>3. BytesIn(D, i) = Cardinality(n + 1..i)
    BY <2>1, Zenon DEF BytesIn
  <2> QED
    BY <2>2, <2>3
<1>16. D # <<>> => D[1] = StatusLine(r.code)
  BY <1>4, <1>5, <1>11
<1>17. ASSUME NEW i \in DOMAIN D
       PROVE  /\ D[i].k = "status" => i = 1
              /\ D[i].k = "length" => D[i].n = Len(B)
              /\ D[i].k = "byte" =>
                   BytesIn(D, i) <= Len(B) /\ D[i].b = B[BytesIn(D, i)]
              /\ D[i].k # "size"
  <2>0. i \in 1..n \/ i \in n + 1..n + m
    BY <1>11
  <2>1. CASE i \in 1..n
    BY <1>4, <1>5, <1>11, <1>14, <2>1
  <2>2. CASE i \in n + 1..n + m
    BY <1>7, <1>13, <1>15, <2>2
  <2> QED
    BY <2>0, <2>1, <2>2
<1>18. ASSUME NEW i \in DOMAIN D, D[i].k = "blank"
       PROVE  /\ ~Precedes(D, i - 1, "blank") /\ ~Precedes(D, i, "byte")
              /\ Precedes(D, i, "length")
              /\ \A j \in i + 1..Len(D) : D[j].k = "byte"
  <2>1. i = n
    <3>1. i \in 1..n \/ i \in n + 1..n + m
      BY <1>11
    <3>2. i \notin n + 1..n + m
      BY <1>13, <1>18
    <3> QED
      BY <1>5, <1>11, <1>18, <3>1, <3>2
  <2>2. ~Precedes(D, n - 1, "blank") /\ ~Precedes(D, n, "byte")
    BY <1>5, <1>11, <1>14 DEF Precedes
  <2>3. Precedes(D, n, "length")
    <3>1. 4 \in 1..n
      BY <1>4
    <3> QED
      BY <1>5, <1>11, <3>1 DEF Precedes
  <2> QED
    BY <1>11, <1>13, <2>1, <2>2, <2>3
<1>19. D \in Seq(ToSet(D))
  BY <1>11, SeqOfItself, Zenon
<1>20. IsResponse(D, r.code, B)
  BY <1>2, <1>16, <1>17, <1>18, <1>19, Zenon DEF IsResponse
<1> QED
  BY <1>1, <1>2, <1>9, <1>20

-----------------------------------------------------------------------------
(* What the client has taken of the reply. *)

LEMMA ReplyKept ==
  ASSUME npc' = npc, response' = response, out' = out, answer' = answer
  PROVE  /\ Reply' = Reply /\ Answer' = Answer
         /\ \A m : NodeAt(m)' <=> NodeAt(m)
<1>1. Reply' = Reply /\ Answer' = Answer
  BY DEF Reply, Answer
<1>2. \A m : NodeAt(m)' <=> NodeAt(m)
  BY <1>1 DEF NodeAt, Hears
<1> QED
  BY <1>1, <1>2

LEMMA ReplyIsSeq ==
  ASSUME IsResponse(Reply, Answer.code, Answer.body)
  PROVE  /\ Reply \in Seq(ToSet(Reply)) /\ Len(Reply) \in Nat
         /\ DOMAIN Reply = 1..Len(Reply)
         /\ Answer.body \in Seq(ToSet(Answer.body))
         /\ Len(Answer.body) \in Nat /\ Len(Answer.body) < Wrap
BY DEF IsResponse, IsBody

LEMMA TakesOne ==
  ASSUME IsResponse(Reply, Answer.code, Answer.body), NEW p, NEW m,
         Between(p, m), down # <<>>, Take(1), Reply' = Reply
  PROVE  /\ p + 1 \in DOMAIN Reply /\ Head(down) = Reply[p + 1]
         /\ Between(p + 1, m)'
<1>1. PICK D : D = Reply
  OBVIOUS
<1>2. PICK S : D \in Seq(S) /\ DOMAIN D = 1..Len(D)
  BY <1>1, ReplyIsSeq
<1>3. p \in Nat /\ m \in p..Len(D) /\ down = SubSeq(D, p + 1, m)
  BY <1>1, <1>2 DEF Between
<1>4. p < m /\ Head(down) = D[p + 1] /\ 1 \in 0..(m - p)
  BY <1>2, <1>3, Cut
<1>5. SubSeq(down, 1 + 1, Len(down)) = SubSeq(D, p + 1 + 1, m)
  BY <1>2, <1>3, <1>4, Cut
<1>6. down' = SubSeq(D, p + 1 + 1, m)
  BY <1>5 DEF Take
<1> QED
  BY <1>1, <1>2, <1>3, <1>4, <1>6 DEF Between

(* A byte goes behind those that are there.                                *)
LEMMA TakesByte ==
  ASSUME IsResponse(Reply, Answer.code, Answer.body), NEW p \in Nat,
         p + 1 \in DOMAIN Reply, Reply[p + 1].k = "byte",
         Holds(p), PastHeader(p),
         resp' = Append(resp, Reply[p + 1].b), code' = code, clen' = clen,
         Reply' = Reply, Answer' = Answer
  PROVE  /\ Holds(p + 1)' /\ PastHeader(p + 1)'
         /\ Len(resp') = Len(resp) + 1 /\ Len(resp) \in Nat
<1>1. PICK B : B = Answer.body
  OBVIOUS
<1>2. B \in Seq(ToSet(B)) /\ Len(B) \in Nat
  BY <1>1, ReplyIsSeq
<1>3. PICK n \in Nat : n = Len(resp) /\ n = BytesIn(Reply, p)
  BY BytesCounted DEF PastHeader
<1>4. BytesIn(Reply, p + 1) = n + 1
  BY <1>3, BytesCounted
<1>5. n + 1 <= Len(B) /\ Reply[p + 1].b = B[n + 1]
  BY <1>1, <1>4 DEF IsResponse
<1>6. resp = SubSeq(B, 1, n)
  BY <1>1, <1>3 DEF Holds
<1>7. resp' = SubSeq(B, 1, n + 1) /\ Len(resp') = n + 1
  BY <1>2, <1>5, <1>6
<1>8. Holds(p + 1)'
  BY <1>1, <1>5, <1>7 DEF Holds
<1>9. PastHeader(p + 1)'
  BY <1>3, <1>4, <1>7 DEF PastHeader
<1> QED
  BY <1>3, <1>7, <1>8, <1>9

(* Another item does not count.                                            *)
LEMMA TakesOther ==
  ASSUME NEW p \in Nat, Reply[p + 1].k # "byte", Holds(p), PastHeader(p),
         resp' = resp, code' = code, clen' = clen,
         Reply' = Reply, Answer' = Answer
  PROVE  Holds(p + 1)' /\ PastHeader(p + 1)'
<1>1. BytesIn(Reply, p + 1) = BytesIn(Reply, p)
  BY BytesCounted
<1>2. Holds(p + 1)'
  BY DEF Holds, PastHeader
<1>3. PastHeader(p + 1)'
  BY <1>1 DEF PastHeader
<1> QED
  BY <1>2, <1>3

(* A line of the header; the last one decides what is read next            *)
(* (CClient.cpp:243-302).                                                  *)
LEMMA LineRead ==
  ASSUME IsResponse(Reply, Answer.code, Answer.body), NEW p, NEW m,
         Between(p, m), ClientAt(p), ReadResponseLine,
         Reply' = Reply, Answer' = Answer
  PROVE  Between(p + 1, m)' /\ ClientAt(p + 1)'
<1>1. /\ cpc = "readHeader" /\ down # <<>> /\ Take(1)
      /\ lines' = lines + 1 /\ resp' = resp /\ error' = error /\ job' = job
  BY DEF ReadResponseLine
<1>2. /\ p + 1 \in DOMAIN Reply /\ Head(down) = Reply[p + 1]
      /\ Between(p + 1, m)' /\ p \in Nat
  BY <1>1, TakesOne DEF Between
<1>3. /\ Holds(p) /\ InHeader(p)
  BY <1>1 DEF ClientAt
<1>4. PICK line : line = Reply[p + 1]
  OBVIOUS
<1>5. /\ code' = IF line.k = "status" THEN line.code ELSE code
      /\ clen' = IF line.k = "length" THEN line.n ELSE clen
      /\ chunked' = (chunked \/ line.k = "chunked")
      /\ IF EndsHeader(line, lines) THEN AfterHeader
         ELSE UNCHANGED <<cpc, left, upOpen>>
  BY <1>2, <1>4 DEF ReadResponseLine
<1>6. /\ line.k = "status" => p + 1 = 1
      /\ line.k = "length" => line.n = Len(Answer.body)
      /\ p = 0 => line = StatusLine(Answer.code)
      /\ line.k = "blank" =>
           /\ ~Precedes(Reply, p + 1, "byte")
           /\ IF Precedes(Reply, p + 1, "length")
              THEN \A j \in p + 2..Len(Reply) : Reply[j].k = "byte"
              ELSE Precedes(Reply, p + 1, "chunked") =>
                     KindAt(Reply, p + 2, "size")
  <2>1. p = 0 => Reply[1] = StatusLine(Answer.code)
    BY <1>2 DEF IsResponse
  <2>2. p + 1 + 1 = p + 2
    BY <1>2
  <2> QED
    BY <1>2, <1>4, <2>1, <2>2 DEF IsResponse
<1>7. code' = Answer.code
  BY <1>2, <1>3, <1>5, <1>6 DEF InHeader, StatusLine
<1>8. \A kind : Precedes(Reply, p + 1, kind)
                  <=> Precedes(Reply, p, kind) \/ line.k = kind
  BY <1>2, <1>4 DEF Precedes
<1>9. clen' = IF Precedes(Reply, p + 1, "length") THEN Len(Answer.body) ELSE -1
  BY <1>3, <1>5, <1>6, <1>8 DEF InHeader
<1>10. chunked' <=> Precedes(Reply, p + 1, "chunked")
  BY <1>3, <1>5, <1>8 DEF InHeader
<1>11. Len(Answer.body) \in Nat /\ Len(Answer.body) < Wrap
       /\ Answer.body \in Seq(ToSet(Answer.body))
  BY ReplyIsSeq
<1>12. /\ resp' = <<>> /\ Len(resp') = 0
       /\ SubSeq(Answer.body, 1, 0) = <<>>
  BY <1>1, <1>3, SubSeqEmpty DEF InHeader
<1>13. Holds(p + 1)'
  BY <1>2, <1>7, <1>9, <1>11, <1>12 DEF Holds
<1>14. EndsHeader(line, lines) <=> line.k = "blank"
  BY <1>2, <1>3, <1>6 DEF EndsHeader, InHeader, StatusLine
<1>15. CASE line.k # "blank"
  <2>1. cpc' = "readHeader"
    BY <1>1, <1>5, <1>14, <1>15
  <2>2. InHeader(p + 1)'
    BY <1>1, <1>2, <1>3, <1>7, <1>8, <1>9, <1>10, <1>12, <1>15 DEF InHeader
  <2> QED
    BY <1>2, <1>13, <2>1, <2>2 DEF ClientAt, ChunkReads
<1>16. CASE line.k = "blank"
  <2>1. AfterHeader /\ clen' = clen /\ (chunked' <=> chunked)
    BY <1>3, <1>5, <1>14, <1>16 DEF InHeader
  <2>2. PastHeader(p + 1)'
    <3>1. BytesIn(Reply, p + 1) = 0
      BY <1>2, <1>6, <1>16, BytesCounted
    <3> QED
      BY <1>2, <1>7, <1>12, <3>1 DEF PastHeader
  <2>3. CASE clen >= 0
    <3>1. /\ Precedes(Reply, p + 1, "length") /\ clen = Len(Answer.body)
      BY <1>9, <2>1, <2>3
    <3>2. Unsigned(clen) = Len(Answer.body)
      BY <1>11, <3>1, UnsignedIs
    <3>3. CASE Len(Answer.body) = 0
      <4>1. cpc' = "done"
        BY <2>1, <2>3, <3>2, <3>3 DEF AfterHeader, Return
      <4>2. Returned'
        BY <1>7, <1>11, <1>12, <3>3 DEF Returned
      <4> QED
        BY <1>2, <1>13, <4>1, <4>2 DEF ClientAt, ChunkReads
    <3>4. CASE Len(Answer.body) # 0
      <4>1. cpc' = "readBody" /\ left' = Len(Answer.body)
        BY <2>1, <2>3, <3>2, <3>4 DEF AfterHeader
      <4>2. \A j \in p + 1 + 1..Len(Reply) : Reply[j].k = "byte"
        BY <1>2, <1>6, <1>16, <3>1
      <4>3. InBody(p + 1)'
        BY <1>11, <1>12, <3>4, <4>1, <4>2 DEF InBody
      <4> QED
        BY <1>2, <1>13, <2>2, <4>1, <4>3 DEF ClientAt, ChunkReads
    <3> QED
      BY <3>3, <3>4
  <2>4. CASE ~(clen >= 0)
    <3>1. ~Precedes(Reply, p + 1, "length") /\ clen' = -1
      BY <1>9, <1>11, <2>1, <2>4
    <3>2. CASE chunked
      <4>1. cpc' = "readSize"
        BY <2>1, <2>4, <3>2 DEF AfterHeader
      <4>2. KindAt(Reply, p + 1 + 1, "size")
        <5>1. p + 1 + 1 = p + 2
          BY <1>2
        <5> QED
          BY <1>6, <1>10, <1>16, <2>1, <3>1, <3>2, <5>1
      <4>3. InChunks(p + 1)'
        BY <3>1, <4>1, <4>2 DEF InChunks
      <4> QED
        BY <1>2, <1>13, <2>2, <4>1, <4>3 DEF ClientAt, ChunkReads
    <3>3. CASE ~chunked
      <4>1. cpc' = "done"
        BY <2>1, <2>4, <3>3 DEF AfterHeader, Return
      <4>2. Returned'
        BY <3>1 DEF Returned
      <4> QED
        BY <1>2, <1>13, <4>1, <4>2 DEF ClientAt, ChunkReads
    <3> QED
      BY <3>2, <3>3
  <2> QED
    BY <2>3, <2>4
<1> QED
  BY <1>15, <1>16

(* A byte of a body with a length: the last one ends it.                   *)
LEMMA BodyByteRead ==
  ASSUME IsResponse(Reply, Answer.code, Answer.body), NEW p, NEW m,
         Between(p, m), ClientAt(p), ReadBodyByte,
         Reply' = Reply, Answer' = Answer
  PROVE  Between(p + 1, m)' /\ ClientAt(p + 1)'
<1>1. /\ cpc = "readBody" /\ down # <<>> /\ Take(1)
      /\ resp' = Append(resp, Head(down).b) /\ left' = left - 1
      /\ IF left = 1 THEN Return ELSE UNCHANGED <<cpc, upOpen>>
      /\ code' = code /\ clen' = clen /\ job' = job
  BY DEF ReadBodyByte
<1>2. /\ p + 1 \in DOMAIN Reply /\ Head(down) = Reply[p + 1]
      /\ Between(p + 1, m)' /\ p \in Nat
  BY <1>1, TakesOne DEF Between
<1>3. Holds(p) /\ PastHeader(p) /\ InBody(p)
  BY <1>1 DEF ClientAt
<1>4. Len(Reply) \in Nat /\ DOMAIN Reply = 1..Len(Reply)
      /\ Len(Answer.body) \in Nat /\ Answer.body \in Seq(ToSet(Answer.body))
  BY ReplyIsSeq
<1>5. Reply[p + 1].k = "byte"
  BY <1>2, <1>3, <1>4 DEF InBody
<1>6. /\ Holds(p + 1)' /\ PastHeader(p + 1)'
      /\ Len(resp') = Len(resp) + 1 /\ Len(resp) \in Nat
  BY <1>1, <1>2, <1>3, <1>5, TakesByte
<1>7. CASE left = 1
  <2>1. cpc' = "done"
    BY <1>1, <1>7 DEF Return
  <2>2. Len(resp') = Len(Answer.body)
    BY <1>3, <1>6, <1>7 DEF InBody
  <2>3. resp' = Answer.body
    BY <1>4, <1>6, <2>2, SubSeqFull DEF Holds
  <2>4. Returned'
    BY <1>1, <1>3, <2>3 DEF Returned, PastHeader
  <2> QED
    BY <1>2, <1>6, <2>1, <2>4 DEF ClientAt, ChunkReads
<1>8. CASE left # 1
  <2>1. cpc' = "readBody"
    BY <1>1, <1>8
  <2>2. /\ left' \in Nat \ {0} /\ Len(resp') + left' = Len(Answer.body)
    <3>1. left \in Nat \ {0} /\ Len(resp) + left = Len(Answer.body)
      BY <1>3, Zenon DEF InBody
    <3>2. /\ left' = left - 1 /\ Len(resp') = Len(resp) + 1
          /\ Len(resp) \in Nat /\ Len(Answer.body) \in Nat
      BY <1>1, <1>4, <1>6, Zenon
    <3> QED
      BY <1>8, <3>1, <3>2
  <2>3. ASSUME NEW j \in p + 1 + 1..Len(Reply)
        PROVE  Reply[j].k = "byte"
    <3>1. p \in Nat /\ Len(Reply) \in Nat
      BY <1>2, <1>4, Zenon
    <3>2. j \in p + 1..Len(Reply)
      BY <3>1
    <3> QED
      BY <1>3, <3>2, Zenon DEF InBody
  <2>4. InBody(p + 1)'
    BY <2>2, <2>3 DEF InBody
  <2> QED
    BY <1>2, <1>6, <2>1, <2>4 DEF ClientAt, ChunkReads
<1> QED
  BY <1>7, <1>8

(* The size of a chunk, behind what was left of the end of a line.         *)
LEMMA SizeRead ==
  ASSUME IsResponse(Reply, Answer.code, Answer.body), NEW p, NEW m,
         Between(p, m), ClientAt(p), ReadSize,
         Reply' = Reply, Answer' = Answer
  PROVE  Between(p + 1, m)' /\ ClientAt(p + 1)'
<1>1. /\ cpc = "readSize" /\ down # <<>> /\ Take(1)
      /\ IF Head(down).k = "lf" THEN UNCHANGED <<cpc, left, upOpen>>
         ELSE IF Head(down).n = 0 THEN Return /\ UNCHANGED left
         ELSE cpc' = "readChunk" /\ left' = Head(down).n /\ UNCHANGED upOpen
      /\ resp' = resp /\ code' = code /\ clen' = clen /\ job' = job
  BY DEF ReadSize
<1>2. /\ p + 1 \in DOMAIN Reply /\ Head(down) = Reply[p + 1]
      /\ Between(p + 1, m)' /\ p \in Nat
  BY <1>1, TakesOne DEF Between
<1>3. Holds(p) /\ PastHeader(p) /\ InChunks(p)
  BY <1>1 DEF ClientAt, ChunkReads
<1>4. PICK item : item = Reply[p + 1]
  OBVIOUS
<1>5. \/ item.k = "size"
      \/ item.k = "lf" /\ KindAt(Reply, p + 2, "size")
  BY <1>1, <1>2, <1>3, <1>4 DEF InChunks, KindAt
<1>6. Holds(p + 1)' /\ PastHeader(p + 1)'
  BY <1>1, <1>2, <1>3, <1>4, <1>5, TakesOther
<1>7. clen' = -1 /\ p + 1 + 1 = p + 2
  BY <1>1, <1>2, <1>3 DEF InChunks
<1>8. CASE item.k = "lf"
  <2>1. cpc' = "readSize" /\ KindAt(Reply, p + 1 + 1, "size")
    BY <1>1, <1>2, <1>4, <1>5, <1>7, <1>8
  <2>2. InChunks(p + 1)'
    BY <1>7, <2>1 DEF InChunks
  <2> QED
    BY <1>2, <1>6, <2>1, <2>2 DEF ClientAt, ChunkReads
<1>9. CASE item.k = "size"
  <2>1. item.n \in Nat /\ (item.n > 0 => ChunkAt(Reply, p + 1 + 1, item.n))
    BY <1>2, <1>4, <1>9 DEF IsResponse
  <2>2. CASE item.n = 0
    <3>1. cpc' = "done" /\ Returned'
      BY <1>1, <1>2, <1>4, <1>7, <1>9, <2>2 DEF Return, Returned
    <3> QED
      BY <1>2, <1>6, <3>1 DEF ClientAt, ChunkReads
  <2>3. CASE item.n # 0
    <3>1. cpc' = "readChunk" /\ left' = item.n
      BY <1>1, <1>2, <1>4, <1>9, <2>3
    <3>2. left' \in Nat \ {0} /\ ChunkAt(Reply, p + 1 + 1, left')
      BY <2>1, <2>3, <3>1
    <3>3. InChunks(p + 1)'
      BY <1>7, <3>1, <3>2 DEF InChunks
    <3> QED
      BY <1>2, <1>6, <3>1, <3>3 DEF ClientAt, ChunkReads
  <2> QED
    BY <2>2, <2>3
<1> QED
  BY <1>5, <1>8, <1>9

(* A byte of a chunk.                                                      *)
LEMMA ChunkByteRead ==
  ASSUME IsResponse(Reply, Answer.code, Answer.body), NEW p, NEW m,
         Between(p, m), ClientAt(p), ReadChunkByte,
         Reply' = Reply, Answer' = Answer
  PROVE  Between(p + 1, m)' /\ ClientAt(p + 1)'
<1>1. /\ cpc = "readChunk" /\ down # <<>> /\ Take(1)
      /\ resp' = Append(resp, Head(down).b) /\ left' = left - 1
      /\ cpc' = IF left = 1 THEN "readCrlf" ELSE cpc
      /\ code' = code /\ clen' = clen /\ job' = job
  BY DEF ReadChunkByte
<1>2. /\ p + 1 \in DOMAIN Reply /\ Head(down) = Reply[p + 1]
      /\ Between(p + 1, m)' /\ p \in Nat
  BY <1>1, TakesOne DEF Between
<1>3. /\ Holds(p) /\ PastHeader(p) /\ clen = -1
      /\ left \in Nat \ {0} /\ ChunkAt(Reply, p + 1, left)
  BY <1>1 DEF ClientAt, ChunkReads, InChunks
<1>4. /\ \A j \in 0..left - 1 : KindAt(Reply, p + 1 + j, "byte")
      /\ CrlfAt(Reply, p + 1 + left)
  BY <1>3 DEF ChunkAt
<1>5. Reply[p + 1].k = "byte"
  <2>1. 0 \in 0..left - 1 /\ p + 1 + 0 = p + 1
    BY <1>2, <1>3
  <2> QED
    BY <1>2, <1>4, <2>1 DEF KindAt
<1>6. Holds(p + 1)' /\ PastHeader(p + 1)'
  BY <1>1, <1>2, <1>3, <1>5, TakesByte
<1>7. CASE left = 1
  <2>1. cpc' = "readCrlf" /\ CrlfAt(Reply, p + 1 + 1)
    BY <1>1, <1>4, <1>7
  <2>2. InChunks(p + 1)'
    BY <1>1, <1>3, <2>1 DEF InChunks
  <2> QED
    BY <1>2, <1>6, <2>1, <2>2 DEF ClientAt, ChunkReads
<1>8. CASE left # 1
  <2>1. cpc' = "readChunk" /\ left' = left - 1 /\ left' \in Nat \ {0}
    BY <1>1, <1>3, <1>8
  <2>2. CrlfAt(Reply, p + 1 + 1 + left')
    <3>1. p + 1 + 1 + left' = p + 1 + left
      BY <1>2, <1>3, <2>1
    <3> QED
      BY <1>4, <3>1
  <2>3. ASSUME NEW j \in 0..left' - 1
        PROVE  KindAt(Reply, p + 1 + 1 + j, "byte")
    <3>1. j + 1 \in 0..left - 1 /\ p + 1 + 1 + j = p + 1 + (j + 1)
      BY <1>2, <1>3, <2>1
    <3> QED
      BY <1>4, <3>1
  <2>4. ChunkAt(Reply, p + 1 + 1, left')
    BY <2>2, <2>3 DEF ChunkAt
  <2>5. InChunks(p + 1)'
    BY <1>1, <1>3, <2>1, <2>4 DEF InChunks
  <2> QED
    BY <1>2, <1>6, <2>1, <2>5 DEF ClientAt, ChunkReads
<1> QED
  BY <1>7, <1>8

LEMMA TakesMany ==
  ASSUME IsResponse(Reply, Answer.code, Answer.body), NEW p, NEW m,
         Between(p, m), NEW n \in Nat, n <= Len(down), Take(n), Reply' = Reply
  PROVE  p + n <= m /\ m <= Len(Reply) /\ Between(p + n, m)'
<1>1. PICK D : D = Reply
  OBVIOUS
<1>2. PICK S : D \in Seq(S) /\ Len(D) \in Nat
  BY <1>1, ReplyIsSeq
<1>3. /\ p \in Nat /\ m \in p..Len(D) /\ down = SubSeq(D, p + 1, m)
      /\ m \in Nat /\ m <= Len(D)
  BY <1>1, <1>2 DEF Between
<1>4. Len(down) = m - p
  <2>1. 0 \in 0..(m - p)
    BY <1>3
  <2> QED
    BY <1>2, <1>3, <2>1, Cut
<1>5. n \in 0..(m - p)
  BY <1>3, <1>4
<1>6. SubSeq(down, n + 1, Len(down)) = SubSeq(D, p + n + 1, m)
  BY <1>2, <1>3, <1>5, Cut
<1>7. down' = SubSeq(D, p + n + 1, m)
  BY <1>6 DEF Take
<1>8. p + n <= m /\ p + n \in Nat
  BY <1>3, <1>5
<1> QED
  BY <1>1, <1>3, <1>7, <1>8 DEF Between

(* The end of the line behind a chunk, of which the "\n" may come later    *)
(* (CClient.cpp:392).                                                      *)
LEMMA CrlfRead ==
  ASSUME IsResponse(Reply, Answer.code, Answer.body), NEW p, NEW m,
         Between(p, m), ClientAt(p), ReadCrlf,
         Reply' = Reply, Answer' = Answer
  PROVE  \E n \in 1..2 : Between(p + n, m)' /\ ClientAt(p + n)'
<1>1. /\ cpc = "readCrlf" /\ cpc' = "readSize"
      /\ resp' = resp /\ code' = code /\ clen' = clen /\ job' = job
  BY DEF ReadCrlf, readVars
<1>2. PICK n \in 1..2 : n <= Len(down) /\ Take(n)
  BY DEF ReadCrlf
<1>3. p + n <= m /\ m <= Len(Reply) /\ Between(p + n, m)'
  BY <1>2, TakesMany
<1>4. p \in Nat /\ m \in Nat /\ Len(Reply) \in Nat
      /\ DOMAIN Reply = 1..Len(Reply)
  BY ReplyIsSeq DEF Between
<1>5. /\ Holds(p) /\ PastHeader(p) /\ clen = -1
      /\ KindAt(Reply, p + 1, "cr") /\ KindAt(Reply, p + 1 + 1, "lf")
      /\ KindAt(Reply, p + 1 + 2, "size")
  BY <1>1 DEF ClientAt, ChunkReads, InChunks, CrlfAt
<1>6. Holds(p + 1)' /\ PastHeader(p + 1)'
  <2>1. p + 1 \in DOMAIN Reply
    BY <1>2, <1>3, <1>4
  <2>2. Reply[p + 1].k # "byte"
    BY <1>5, <2>1 DEF KindAt
  <2> QED
    BY <1>1, <1>4, <1>5, <2>2, TakesOther
<1>7. CASE n = 1
  <2>1. InChunks(p + 1)'
    <3>1. p + 1 + 2 = p + 3 /\ p + 1 + 1 + 1 = p + 3
      BY <1>4
    <3> QED
      BY <1>1, <1>5, <3>1 DEF InChunks, ChunkReads
  <2> QED
    BY <1>1, <1>3, <1>6, <1>7, <2>1 DEF ClientAt, ChunkReads
<1>8. CASE n = 2
  <2>1. p + 2 \in DOMAIN Reply
    BY <1>3, <1>4, <1>8
  <2>2. Reply[p + 2].k # "byte" /\ p + 1 + 1 = p + 2
    <3>1. p + 1 + 1 = p + 2
      BY <1>4
    <3> QED
      BY <1>5, <2>1, <3>1 DEF KindAt
  <2>3. BytesIn(Reply, p + 1 + 1) = BytesIn(Reply, p + 1)
    <3>1. PICK k \in Nat : k = p + 1
      BY <1>4
    <3>2. Reply[k + 1].k # "byte"
      BY <2>2, <3>1
    <3>3. /\ BytesIn(Reply, k + 1)
               = BytesIn(Reply, k) + IF Reply[k + 1].k = "byte" THEN 1 ELSE 0
          /\ BytesIn(Reply, k) \in Nat
      BY BytesCounted, Zenon
    <3> QED
      BY <3>1, <3>2, <3>3
  <2>4. Holds(p + 2)' /\ PastHeader(p + 2)'
    <3>1. p + 2 > 0 /\ p + 2 # 0
      BY <1>4
    <3>2. BytesIn(Reply', p + 2) = BytesIn(Reply', p + 1)
      BY <2>2, <2>3
    <3> QED
      BY <1>6, <3>1, <3>2 DEF Holds, PastHeader
  <2>5. InChunks(p + 2)'
    <3>1. p + 1 + 2 = p + 2 + 1
      BY <1>4
    <3> QED
      BY <1>1, <1>5, <3>1 DEF InChunks, ChunkReads
  <2> QED
    BY <1>1, <1>3, <1>8, <2>4, <2>5 DEF ClientAt, ChunkReads
<1> QED
  BY <1>2, <1>7, <1>8

(* A step of the client that reads nothing keeps what it has.              *)
LEMMA NothingRead ==
  ASSUME IsResponse(Reply, Answer.code, Answer.body), job.valid,
         NEW p, NEW m, Between(p, m), ClientAt(p),
         \/ ConnectFails \/ Establish \/ SendHeader \/ SendBody \/ SendFails
         \/ RequestSent \/ ServerCloses \/ ReceiveTimesOut \/ ClientDies,
         Reply' = Reply, Answer' = Answer
  PROVE  Between(p, m)' /\ ClientAt(p)'
<1>1. UNCHANGED <<down, job, lines, clen, chunked, left, code, resp>>
  BY DEF ConnectFails, Establish, Connect, SendHeader, SendBody, SendFails,
         RequestSent, ServerCloses, ReceiveTimesOut, ClientDies, readVars
<1>2. Between(p, m)' /\ Holds(p)' /\ Holds(p)
  BY <1>1 DEF Between, Holds, ClientAt
<1>3. CASE ConnectFails \/ SendFails \/ ServerCloses \/ ReceiveTimesOut
  <2>1. cpc' = "done" /\ error' = (cpc \notin ChunkReads)
    BY <1>3 DEF ConnectFails, SendFails, ServerCloses, ReceiveTimesOut, Abandon,
                Return, ChunkReads
  <2>2. Returned'
    <3>1. CASE cpc \in ChunkReads
      BY <1>1, <3>1 DEF Returned, ClientAt, InChunks
    <3>2. CASE cpc \notin ChunkReads
      BY <2>1, <3>2 DEF Returned
    <3> QED
      BY <3>1, <3>2
  <2> QED
    BY <1>2, <2>1, <2>2 DEF ClientAt, ChunkReads
<1>4. CASE Establish \/ SendHeader \/ SendBody
  <2>1. cpc \in {"start", "header", "body"} /\ cpc' \in {"header", "body"}
    BY <1>4 DEF Establish, Connect, SendHeader, SendBody
  <2>2. BeforeReply(p)'
    BY <1>1, <2>1 DEF ClientAt, BeforeReply
  <2> QED
    BY <1>2, <2>1, <2>2 DEF ClientAt, ChunkReads
<1>5. CASE RequestSent
  <2>1. cpc = "body" /\ IF job.ignoreResult THEN cpc' = "done"
                        ELSE cpc' = "readHeader"
    BY <1>5 DEF RequestSent, Return
  <2>2. p = 0 /\ lines = 0 /\ ~chunked /\ resp = <<>> /\ clen = -1
    BY <1>2, <2>1 DEF ClientAt, BeforeReply, Holds
  <2>3. \A kind : ~Precedes(Reply, 0, kind)
    BY DEF Precedes
  <2>4. InHeader(p)'
    BY <1>1, <2>2, <2>3 DEF InHeader
  <2>5. Returned'
    BY <1>1, <2>2 DEF Returned
  <2> QED
    BY <1>2, <2>1, <2>4, <2>5 DEF ClientAt, ChunkReads
<1>6. CASE ClientDies
  <2>1. cpc' = "dead"
    BY <1>6 DEF ClientDies
  <2> QED
    BY <1>2, <2>1 DEF ClientAt, ChunkReads
<1> QED
  BY <1>3, <1>4, <1>5, <1>6

-----------------------------------------------------------------------------
(* The steps of both ends, by what they do to the reply. *)

LEMMA ReplyInit ==
  ASSUME Init
  PROVE  ReplyIInv
<1>1. /\ response = NoResponse /\ code = 0 /\ resp = <<>> /\ clen = -1
      /\ lines = 0 /\ ~chunked
  BY DEF Init, NodeInit, ClientInit
<1>2. IsMResponse(response)
  <2>1. <<>> \in Seq(ToSet(<<>>)) /\ Len(<<>>) = 0
    OBVIOUS
  <2>2. 0 < Wrap /\ 0 \in Nat
    BY WrapAssumption
  <2> QED
    BY <1>1, <2>1, <2>2 DEF NoResponse, IsMResponse, IsBody
<1>3. IsResponse(Reply, Answer.code, Answer.body)
  <2>1. CASE npc # "off"
    BY <1>2, <2>1, ReplyIsResponse DEF Reply, Answer, IsMResponse
  <2>2. CASE npc = "off"
    <3>1. answer \in Servers
      BY <2>2 DEF Init, BothInit, StrangerInit, ServerInit
    <3>2. IsResponse(answer.items, answer.code, answer.body)
      BY <3>1, ServersAssumption, Zenon
    <3> QED
      BY <2>2, <3>2 DEF Reply, Answer
  <2> QED
    BY <2>1, <2>2
<1>4. ASSUME job.valid
      PROVE  \E p, m \in 0..Len(Reply) :
               Between(p, m) /\ NodeAt(m) /\ ClientAt(p)
  <2>1. cpc = "start"
    BY <1>4 DEF Init, BothInit, StrangerInit, ServerInit
  <2>2. ClientAt(0)
    <3>1. /\ Len(resp) = 0 /\ resp = SubSeq(Answer.body, 1, 0)
          /\ Len(Answer.body) \in Nat
      BY <1>1, <1>3, ReplyIsSeq, SubSeqEmpty
    <3>2. Holds(0) /\ BeforeReply(0)
      BY <1>1, <3>1 DEF Holds, BeforeReply
    <3> QED
      BY <2>1, <3>2 DEF ClientAt, ChunkReads
  <2>3. Len(Reply) \in Nat /\ Reply \in Seq(ToSet(Reply))
    BY <1>3, ReplyIsSeq
  <2>4. CASE npc = "off"
    <3>1. down = Reply
      BY <2>4 DEF Init, BothInit, StrangerInit, ServerInit, Reply
    <3>2. Between(0, Len(Reply))
      BY <2>3, <3>1, SubSeqFull DEF Between
    <3>3. NodeAt(Len(Reply))
      BY <2>4 DEF NodeAt, Hears
    <3> QED
      BY <2>2, <2>3, <3>2, <3>3
  <2>5. CASE npc # "off"
    <3>1. down = <<>> /\ npc = "listen"
      BY <1>4, <2>5 DEF Init, BothInit, StrangerInit, ServerInit
    <3>2. Between(0, 0)
      BY <2>3, <3>1, SubSeqEmpty DEF Between
    <3>3. NodeAt(0)
      BY <3>1 DEF NodeAt
    <3> QED
      BY <2>2, <2>3, <3>2, <3>3
  <2> QED
    BY <2>4, <2>5
<1> QED
  BY <1>2, <1>3, <1>4 DEF ReplyIInv

LEMMA ClientKept ==
  ASSUME UNCHANGED clientVars, Reply' = Reply, Answer' = Answer
  PROVE  \A p : ClientAt(p)' <=> ClientAt(p)
<1>1. ASSUME NEW p
      PROVE  /\ Holds(p)' <=> Holds(p)
             /\ BeforeReply(p)' <=> BeforeReply(p)
             /\ InHeader(p)' <=> InHeader(p)
             /\ PastHeader(p)' <=> PastHeader(p)
             /\ InBody(p)' <=> InBody(p)
             /\ InChunks(p)' <=> InChunks(p)
  BY DEF clientVars, Holds, BeforeReply, InHeader, PastHeader, InBody, InChunks
<1>2. cpc' = cpc /\ (Returned' <=> Returned)
  BY DEF clientVars, Returned
<1> QED
  BY <1>1, <1>2 DEF ClientAt

LEMMA ReplyThere ==
  ASSUME ReplyIInv, Reply' = Reply, Answer' = Answer, response' = response,
         job' = job, NEW p, NEW m,
         job.valid => Between(p, m)' /\ NodeAt(m)' /\ ClientAt(p)'
  PROVE  ReplyIInv'
<1>1. IsMResponse(response)' /\ IsResponse(Reply, Answer.code, Answer.body)'
  BY DEF ReplyIInv
<1>2. Len(Reply) \in Nat
  BY ReplyIsSeq DEF ReplyIInv
<1>3. job.valid => p \in 0..Len(Reply) /\ m \in 0..Len(Reply)
  BY <1>2 DEF Between
<1> QED
  BY <1>1, <1>3 DEF ReplyIInv

(* The client takes what it reads from the front.                          *)
LEMMA ClientReads ==
  ASSUME ReplyIInv, Establish \/ Client \/ Dies
  PROVE  ReplyIInv'
<1>1. /\ Reply' = Reply /\ Answer' = Answer /\ response' = response
      /\ job' = job /\ \A m : NodeAt(m)' <=> NodeAt(m)
  <2>1. CASE Establish
    <3>1. /\ response' = response /\ out' = out /\ answer' = answer
          /\ job' = job
          /\ IF npc = "listen" THEN npc' = "header" ELSE npc' = npc
      BY <2>1 DEF Establish, Connect
    <3> QED
      BY <3>1 DEF Reply, Answer, NodeAt, Hears
  <2>2. CASE Client \/ Dies
    <3>1. UNCHANGED <<nodeVars, answer, job>>
      BY <2>2, ClientMoves DEF Client, Dies
    <3> QED
      BY <3>1, ReplyKept DEF nodeVars
  <2> QED
    BY <2>1, <2>2
<1>2. CASE ~job.valid
  BY <1>1, <1>2, ReplyThere
<1>3. CASE job.valid
  <2>1. PICK p, m \in 0..Len(Reply) :
          Between(p, m) /\ NodeAt(m) /\ ClientAt(p)
    BY <1>3 DEF ReplyIInv
  <2>2. IsResponse(Reply, Answer.code, Answer.body)
    BY DEF ReplyIInv
  <2>3. \E q : Between(q, m)' /\ ClientAt(q)'
    <3>1. CASE ReadResponseLine
      BY <1>1, <2>1, <2>2, <3>1, LineRead, Zenon
    <3>2. CASE ReadBodyByte
      BY <1>1, <2>1, <2>2, <3>2, BodyByteRead, Zenon
    <3>3. CASE ReadSize
      BY <1>1, <2>1, <2>2, <3>3, SizeRead, Zenon
    <3>4. CASE ReadChunkByte
      BY <1>1, <2>1, <2>2, <3>4, ChunkByteRead, Zenon
    <3>5. CASE ReadCrlf
      BY <1>1, <2>1, <2>2, <3>5, CrlfRead, Zenon
    <3>6. CASE \/ ConnectFails \/ Establish \/ SendHeader \/ SendBody
               \/ SendFails \/ RequestSent \/ ServerCloses
               \/ ReceiveTimesOut \/ ClientDies
      BY <1>1, <1>3, <2>1, <2>2, <3>6, NothingRead, Zenon
    <3>7. ~InvalidEndpoint
      BY <1>3 DEF InvalidEndpoint
    <3> QED
      BY <3>1, <3>2, <3>3, <3>4, <3>5, <3>6, <3>7
      DEF Client, Dies, ClientStep, ClientRuns
  <2>4. PICK q : Between(q, m)' /\ ClientAt(q)'
    BY <2>3
  <2> QED
    BY <1>1, <2>1, <2>4, ReplyThere
<1> QED
  BY <1>2, <1>3

(* What CNode is going to send: the lines, then the bytes of the body.     *)
LEMMA ReplyParts ==
  ASSUME IsMResponse(response), npc # "off"
  PROVE  LET L == ResponseLines(response)
             n == Len(ResponseLines(response))
         IN  /\ n \in Nat /\ L \in Seq(ReplyItems(response))
             /\ Len(response.body) \in Nat
             /\ Reply \in Seq(ReplyItems(response))
             /\ Len(Reply) = n + Len(response.body)
             /\ \A i \in 1..n : Reply[i] = L[i]
             /\ \A i \in 0..Len(response.body) :
                  Bytes(SubSeq(response.body, 1, i)) = SubSeq(Reply, n + 1, n + i)
<1>1. PICK L : L = ResponseLines(response) /\ IsHead(L, response)
  BY ReplyShape DEF IsMResponse
<1>2. PICK B : B = response.body
  OBVIOUS
<1>3. PICK S : S = ReplyItems(response)
  OBVIOUS
<1>4. PICK n \in Nat : n = Len(L) /\ L \in Seq(S)
  BY <1>1, <1>3 DEF IsHead
<1>5. B \in Seq(ToSet(B)) /\ \A b \in ToSet(B) : Byte(b) \in S
  BY <1>2, <1>3 DEF ReplyItems, IsBody, IsMResponse
<1>6. PICK k \in Nat : k = Len(B)
  BY <1>5
<1>7. /\ DOMAIN B = 1..k /\ \A i \in 1..k : B[i] \in ToSet(B)
  BY <1>5, <1>6
<1>8. /\ Bytes(B) \in Seq(S) /\ Len(Bytes(B)) = k
      /\ \A i \in 1..k : Bytes(B)[i] = Byte(B[i])
  <2>1. \A i \in 1..k : Byte(B[i]) \in S
    BY <1>5, <1>7, Zenon
  <2> QED
    BY <1>6, <1>7, <2>1 DEF Bytes
<1>9. PICK D : D = L \o Bytes(B)
  OBVIOUS
<1>10. Joins(L \o Bytes(B), S, L, n, Bytes(B), k)
  BY <1>4, <1>8, ConcatAt, Zenon
<1>11. /\ D \in Seq(S) /\ Len(D) = n + k
       /\ \A i \in 1..n : D[i] = L[i]
       /\ \A i \in 1..k : D[n + i] = Bytes(B)[i]
  BY <1>9, <1>10, Zenon DEF Joins
<1>12. ASSUME NEW i \in 0..k
       PROVE  Bytes(SubSeq(B, 1, i)) = SubSeq(D, n + 1, n + i)
  <2>1. PICK u : u = SubSeq(B, 1, i)
    OBVIOUS
  <2>2. DOMAIN u = 1..i /\ \A j \in 1..i : u[j] = B[j]
    BY <1>5, <1>6, <2>1
  <2>3. PICK v : v = SubSeq(D, n + 1, n + i)
    OBVIOUS
  <2>4. /\ v \in Seq(S) /\ Len(v) = i
        /\ \A j \in 1..i : v[j] = D[n + j]
    <3>1. D \in Seq(S) /\ n + i <= Len(D) /\ i \in Nat
      BY <1>11
    <3>2. v \in Seq(S) /\ Len(v) = i
      BY <2>3, <3>1
    <3>3. \A j \in 1..i : v[j] = D[n + j]
      BY <2>3, <3>1
    <3> QED
      BY <3>2, <3>3
  <2>5. \A j \in 1..i : j \in 1..k
    BY <1>6
  <2>6. ASSUME NEW j \in 1..i
        PROVE  v[j] = Byte(u[j])
    <3>1. v[j] = Bytes(B)[j]
      BY <1>11, <2>4, <2>5, Zenon
    <3> QED
      BY <1>8, <2>2, <2>5, <3>1, Zenon
  <2>7. v = [j \in 1..i |-> v[j]]
    BY <2>4
  <2>8. [j \in 1..i |-> v[j]] = [j \in 1..i |-> Byte(u[j])]
    BY <2>6, Zenon
  <2> QED
    BY <2>1, <2>2, <2>3, <2>7, <2>8, Zenon DEF Bytes
<1>13. D = Reply
  BY <1>1, <1>2, <1>9 DEF Reply
<1> QED
  BY <1>1, <1>2, <1>3, <1>4, <1>6, <1>11, <1>12, <1>13, Zenon

(* A response is there before anything is sent.                            *)
LEMMA Responds ==
  ASSUME ReplyIInv, UNCHANGED clientVars, npc = "dispatch", down' = down,
         NEW r, IsMResponse(r), Respond(r)
  PROVE  ReplyIInv'
<1>1. /\ response' = r /\ out' = ResponseLines(r) /\ npc' = "write"
      /\ job' = job
  BY DEF Respond, clientVars
<1>2. IsMResponse(response')
  BY <1>1
<1>3. IsResponse(Reply', (Answer').code, (Answer').body)
  <2>1. IsResponse(ResponseLines(r) \o Bytes(r.body), r.code, r.body)
    BY ReplyIsResponse DEF IsMResponse
  <2> QED
    BY <1>1, <2>1 DEF Reply, Answer
<1>4. /\ Reply' \in Seq(ToSet(Reply')) /\ Len(Reply') \in Nat
      /\ Len((Answer').body) \in Nat
  BY <1>3 DEF IsResponse, IsBody
<1>5. ASSUME job.valid
      PROVE  Between(0, 0)' /\ NodeAt(0)' /\ ClientAt(0)'
  <2>1. PICK p, m \in 0..Len(Reply) :
          Between(p, m) /\ NodeAt(m) /\ ClientAt(p)
    BY <1>5 DEF ReplyIInv
  <2>2. m = 0 /\ p = 0
    BY <2>1 DEF NodeAt, Hears, Between
  <2>3. Reply \in Seq(ToSet(Reply))
    BY ReplyIsSeq DEF ReplyIInv
  <2>4. down' = <<>>
    BY <2>1, <2>2, <2>3, SubSeqEmpty DEF Between
  <2>5. Between(0, 0)'
    BY <1>4, <2>4, SubSeqEmpty DEF Between
  <2>6. NodeAt(0)'
    <3>1. ResponseLines(r) \in Seq(ReplyItems(r))
      BY ReplyShape DEF IsMResponse, IsHead
    <3>2. /\ ResponseLines(r) = SubSeq(ResponseLines(r), 1, Len(ResponseLines(r)))
          /\ 0 <= Len(ResponseLines(r))
      BY <3>1, SubSeqFull
    <3> QED
      BY <1>1, <3>2 DEF NodeAt, Hears
  <2>7. ClientAt(0)
    BY <2>1, <2>2
  <2>8. code = 0 /\ resp = <<>> /\ clen = -1
    BY <2>7 DEF ClientAt, Holds
  <2>9. UNCHANGED <<code, resp, clen, cpc, lines, chunked, left, error>>
    BY DEF clientVars
  <2>10. Holds(0)'
    <3>1. Len(resp') = 0 /\ resp' = SubSeq((Answer').body, 1, 0)
      BY <2>8, <2>9, SubSeqEmpty
    <3> QED
      BY <1>4, <2>8, <2>9, <3>1 DEF Holds
  <2>11. cpc \notin ChunkReads \cup {"readBody"}
    BY <2>7 DEF ClientAt, PastHeader
  <2>12. cpc \in {"start", "header", "body"} => BeforeReply(0)'
    BY <2>7, <2>9 DEF ClientAt, BeforeReply
  <2>13. cpc = "readHeader" => InHeader(0)'
    <3>1. \A kind : ~Precedes(Reply, 0, kind) /\ ~Precedes(Reply', 0, kind)
      BY DEF Precedes
    <3> QED
      BY <2>7, <2>8, <2>9, <3>1 DEF ClientAt, InHeader
  <2>14. Returned'
    BY <2>8, <2>9 DEF Returned
  <2>15. ClientAt(0)'
    BY <2>9, <2>10, <2>11, <2>12, <2>13, <2>14 DEF ClientAt, ChunkReads
  <2> QED
    BY <2>5, <2>6, <2>15
<1>6. job.valid => \E p, m \in 0..Len(Reply') :
                     Between(p, m)' /\ NodeAt(m)' /\ ClientAt(p)'
  <2>1. 0 \in 0..Len(Reply')
    BY <1>4
  <2> QED
    BY <1>5, <2>1
<1> QED
  BY <1>1, <1>2, <1>3, <1>6 DEF ReplyIInv

(* What is left of a sequence, and its first item.                         *)
LEMMA RestOf ==
  ASSUME NEW S, NEW X \in Seq(S), NEW k \in 0..Len(X), NEW rest,
         rest = SubSeq(X, k + 1, Len(X))
  PROVE  /\ rest # <<>> <=> k < Len(X)
         /\ rest # <<>> => /\ Head(rest) = X[k + 1]
                           /\ Tail(rest) = SubSeq(X, k + 2, Len(X))
<1>1. PICK m \in Nat : m = Len(X)
  OBVIOUS
<1>2. 0 \in 0..(m - k) /\ k \in Nat /\ m \in k..Len(X)
  BY <1>1
<1>3. rest = SubSeq(X, k + 1, m)
  BY <1>1
<1>4. rest # <<>> <=> k < m
  <2>1. rest \in Seq(S) /\ Len(rest) = m - k
    BY <1>2, <1>3
  <2>2. rest # <<>> <=> Len(rest) # 0
    <3>1. PICK r \in Seq(S) : r = rest
      BY <2>1
    <3>2. r # <<>> <=> Len(r) # 0
      OBVIOUS
    <3> QED
      BY <3>1, <3>2, Zenon
  <2>3. m - k # 0 <=> k < m
    BY <1>2
  <2> QED
    BY <2>1, <2>2, <2>3, Zenon
<1>5. k < m => Head(rest) = X[k + 1] /\ Tail(rest) = SubSeq(X, k + 2, m)
  BY <1>2, <1>3, Cut
<1> QED
  BY <1>1, <1>4, <1>5

(* A line goes out behind the others (CNode.cpp:324-380).                  *)
LEMMA LineWritten ==
  ASSUME ReplyIInv, WriteLine, UNCHANGED <<clientVars, answer>>
  PROVE  ReplyIInv'
<1>1. /\ npc = "write" /\ out # <<>>
      /\ IF HasEmptyPiece(Head(out)) THEN npc' = "close" /\ down' = down
         ELSE down' = Append(down, Head(out)) /\ out' = Tail(out) /\ npc' = npc
      /\ response' = response /\ answer' = answer /\ job' = job
  BY DEF WriteLine, clientVars
<1>2. Reply' = Reply /\ Answer' = Answer
  BY <1>1 DEF Reply, Answer
<1>3. CASE ~job.valid
  BY <1>1, <1>2, <1>3, ReplyThere
<1>4. CASE job.valid
  <2>1. PICK p, m \in 0..Len(Reply) :
          Between(p, m) /\ NodeAt(m) /\ ClientAt(p)
    BY <1>4 DEF ReplyIInv
  <2>2. ClientAt(p)'
    BY <1>2, <2>1, ClientKept
  <2>3. CASE HasEmptyPiece(Head(out))
    <3>1. Between(p, m)' /\ NodeAt(m)'
      BY <1>1, <1>2, <2>1, <2>3 DEF Between, NodeAt, Hears
    <3> QED
      BY <1>1, <1>2, <2>2, <3>1, ReplyThere
  <2>4. CASE ~HasEmptyPiece(Head(out))
    <3>1. PICK L : L = ResponseLines(response)
      OBVIOUS
    <3>2. PICK S : S = ReplyItems(response)
      OBVIOUS
    <3>3. PICK D : D = Reply
      OBVIOUS
    <3>4. /\ L \in Seq(S) /\ Len(L) \in Nat /\ D \in Seq(S)
          /\ Len(D) \in Nat /\ Len(L) <= Len(D)
          /\ \A i \in 1..Len(L) : D[i] = L[i]
      <4>1. IsMResponse(response) /\ npc # "off"
        BY <1>1 DEF ReplyIInv
      <4> QED
        BY <3>1, <3>2, <3>3, <4>1, ReplyParts
    <3>5. m <= Len(L) /\ out = SubSeq(L, m + 1, Len(L))
      BY <1>1, <2>1, <3>1 DEF NodeAt
    <3>6. p \in Nat /\ m \in Nat /\ p <= m /\ down = SubSeq(D, p + 1, m)
      BY <2>1, <3>3 DEF Between
    <3>7. /\ m < Len(L) /\ Head(out) = L[m + 1]
          /\ Tail(out) = SubSeq(L, m + 2, Len(L))
      <4>1. m \in 0..Len(L) /\ L \in Seq(S)
        BY <3>4, <3>5, <3>6
      <4> QED
        BY <1>1, <3>5, <4>1, RestOf
    <3>8. Head(out) = D[m + 1]
      <4>1. m + 1 \in 1..Len(L)
        BY <3>4, <3>6, <3>7
      <4> QED
        BY <3>4, <3>7, <4>1, Zenon
    <3>9. Append(down, D[m + 1]) = SubSeq(D, p + 1, m + 1)
      BY <3>4, <3>6, <3>7
    <3>10. Between(p, m + 1)'
      <4>1. m + 1 \in Nat /\ p <= m + 1 /\ m + 1 <= Len(D)
        BY <3>4, <3>6, <3>7
      <4>2. down' = SubSeq(D, p + 1, m + 1)
        BY <1>1, <2>4, <3>8, <3>9
      <4> QED
        BY <1>2, <3>3, <3>6, <4>1, <4>2 DEF Between
    <3>11. NodeAt(m + 1)'
      <4>1. m + 1 + 1 = m + 2 /\ m + 1 <= Len(L)
        BY <3>4, <3>6, <3>7
      <4> QED
        BY <1>1, <2>4, <3>1, <3>7, <4>1 DEF NodeAt, Hears
    <3> QED
      BY <1>1, <1>2, <2>2, <3>10, <3>11, ReplyThere
  <2> QED
    BY <2>3, <2>4
<1> QED
  BY <1>3, <1>4

(* The body goes out behind the lines, or the first bytes of it.           *)
LEMMA BodyWritten ==
  ASSUME ReplyIInv, WriteBody, UNCHANGED <<clientVars, answer>>
  PROVE  ReplyIInv'
<1>1. /\ npc = "write" /\ out = <<>> /\ npc' = "close"
      /\ response' = response /\ answer' = answer /\ job' = job
  BY DEF WriteBody, clientVars
<1>2. Reply' = Reply /\ Answer' = Answer
  BY <1>1 DEF Reply, Answer
<1>3. CASE ~job.valid
  BY <1>1, <1>2, <1>3, ReplyThere
<1>4. CASE job.valid
  <2>1. PICK p, m \in 0..Len(Reply) :
          Between(p, m) /\ NodeAt(m) /\ ClientAt(p)
    BY <1>4 DEF ReplyIInv
  <2>2. ClientAt(p)'
    BY <1>2, <2>1, ClientKept
  <2>3. PICK k \in 0..Len(response.body) :
          down' = down \o Bytes(SubSeq(response.body, 1, k))
    BY DEF WriteBody
  <2>4. PICK L : L = ResponseLines(response)
    OBVIOUS
  <2>5. PICK S : S = ReplyItems(response)
    OBVIOUS
  <2>6. PICK D : D = Reply
    OBVIOUS
  <2>7. /\ L \in Seq(S) /\ Len(L) \in Nat /\ D \in Seq(S)
        /\ Len(response.body) \in Nat
        /\ Len(D) = Len(L) + Len(response.body)
        /\ Bytes(SubSeq(response.body, 1, k))
             = SubSeq(D, Len(L) + 1, Len(L) + k)
    <3>1. IsMResponse(response) /\ npc # "off"
      BY <1>1 DEF ReplyIInv
    <3> QED
      BY <2>3, <2>4, <2>5, <2>6, <3>1, ReplyParts
  <2>8. m <= Len(L) /\ out = SubSeq(L, m + 1, Len(L))
    BY <1>1, <2>1, <2>4 DEF NodeAt
  <2>9. p \in Nat /\ m \in Nat /\ p <= m /\ down = SubSeq(D, p + 1, m)
    BY <2>1, <2>6 DEF Between
  <2>10. m = Len(L)
    <3>1. m \in 0..Len(L) /\ L \in Seq(S)
      BY <2>7, <2>8, <2>9
    <3>2. ~(m < Len(L))
      BY <1>1, <2>8, <3>1, RestOf
    <3> QED
      BY <2>7, <2>8, <2>9, <3>2
  <2>11. PICK n \in Nat : n = m + k /\ n >= m /\ n <= Len(D)
    <3>1. k \in Nat /\ k <= Len(response.body)
      BY <2>3, <2>7
    <3>2. m + k \in Nat /\ m + k >= m /\ m + k <= Len(D)
      BY <2>7, <2>9, <2>10, <3>1
    <3> QED
      BY <3>2
  <2>12. down' = SubSeq(D, p + 1, n)
    <3>1. m \in p..Len(D) /\ n \in m..Len(D)
      BY <2>7, <2>9, <2>11
    <3>2. SubSeq(D, p + 1, m) \o SubSeq(D, m + 1, n) = SubSeq(D, p + 1, n)
      BY <2>7, <2>9, <3>1, Joined, Zenon
    <3> QED
      BY <2>3, <2>7, <2>9, <2>10, <2>11, <3>2
  <2>13. Between(p, n)'
    BY <1>2, <2>6, <2>9, <2>11, <2>12 DEF Between
  <2>14. NodeAt(n)'
    BY <1>1 DEF NodeAt, Hears
  <2> QED
    BY <1>1, <1>2, <2>2, <2>13, <2>14, ReplyThere
<1> QED
  BY <1>3, <1>4

(* A reset loses what the client has not taken.                            *)
LEMMA Closes ==
  ASSUME ReplyIInv, Close, UNCHANGED <<clientVars, answer>>
  PROVE  ReplyIInv'
<1>1. /\ npc = "close" /\ npc' = "gone" /\ response' = response
      /\ answer' = answer /\ job' = job
  BY DEF Close, clientVars
<1>2. Reply' = Reply /\ Answer' = Answer
  BY <1>1 DEF Reply, Answer
<1>3. CASE ~job.valid
  BY <1>1, <1>2, <1>3, ReplyThere
<1>4. CASE job.valid
  <2>1. PICK p, m \in 0..Len(Reply) :
          Between(p, m) /\ NodeAt(m) /\ ClientAt(p)
    BY <1>4 DEF ReplyIInv
  <2>2. ClientAt(p)'
    BY <1>2, <2>1, ClientKept
  <2>3. \A n : NodeAt(n)'
    BY <1>1 DEF NodeAt, Hears
  <2>4. CASE down' = down
    <3>1. Between(p, m)'
      BY <1>2, <2>1, <2>4 DEF Between
    <3> QED
      BY <1>1, <1>2, <2>2, <2>3, <3>1, ReplyThere
  <2>5. CASE \E n \in 0..Len(down) : down' = SubSeq(down, 1, n)
    <3>1. PICK n \in 0..Len(down) : down' = SubSeq(down, 1, n)
      BY <2>5
    <3>2. PICK D : D = Reply
      OBVIOUS
    <3>3. PICK S : D \in Seq(S) /\ Len(D) \in Nat
      BY <3>2, ReplyIsSeq DEF ReplyIInv
    <3>4. /\ p \in Nat /\ m \in p..Len(D) /\ down = SubSeq(D, p + 1, m)
      BY <2>1, <3>2, <3>3 DEF Between
    <3>5. Len(down) = m - p
      <4>1. 0 \in 0..(m - p)
        BY <3>4
      <4> QED
        BY <3>3, <3>4, <4>1, Cut
    <3>6. n \in 0..(m - p)
      BY <3>1, <3>5
    <3>7. SubSeq(down, 1, n) = SubSeq(D, p + 1, p + n)
      BY <3>3, <3>4, <3>6, Cut
    <3>8. Between(p, p + n)'
      <4>1. p + n \in Nat /\ p <= p + n /\ p + n <= Len(D)
        BY <3>3, <3>4, <3>6
      <4> QED
        BY <1>2, <3>1, <3>2, <3>4, <3>7, <4>1 DEF Between
    <3> QED
      BY <1>1, <1>2, <2>2, <2>3, <3>8, ReplyThere
  <2> QED
    BY <2>4, <2>5 DEF Close
<1> QED
  BY <1>3, <1>4

(* The node sends nothing in its other steps.                              *)
LEMMA NothingSent ==
  ASSUME ReplyIInv, npc # "off", npc' # "off",
         UNCHANGED <<clientVars, answer, response, down>>,
         npc' # "write", Hears' => Hears
  PROVE  ReplyIInv'
<1>1. Reply' = Reply /\ Answer' = Answer /\ job' = job
  BY DEF Reply, Answer, clientVars
<1>2. CASE ~job.valid
  BY <1>1, <1>2, ReplyThere
<1>3. CASE job.valid
  <2>1. PICK p, m \in 0..Len(Reply) :
          Between(p, m) /\ NodeAt(m) /\ ClientAt(p)
    BY <1>3 DEF ReplyIInv
  <2>2. ClientAt(p)'
    BY <1>1, <2>1, ClientKept
  <2>3. Between(p, m)' /\ NodeAt(m)'
    BY <1>1, <2>1 DEF Between, NodeAt
  <2> QED
    BY <1>1, <2>2, <2>3, ReplyThere
<1> QED
  BY <1>2, <1>3

LEMMA NodeAnswers ==
  ASSUME ReplyIInv, Node
  PROVE  ReplyIInv'
<1>1. UNCHANGED <<clientVars, answer>> /\ npc # "off" /\ npc' # "off"
  BY NodeMoves DEF Node
<1>2. CASE \/ ReadHeaderLine \/ ReadBodyChunk \/ BodyRead \/ ReadEnds
           \/ ReserveThrows \/ ReadTimesOut
  <2>1. /\ UNCHANGED <<response, down>> /\ Hears
        /\ npc' \in {"header", "body", "dispatch", "close"}
    BY <1>2 DEF ReadHeaderLine, ReadBodyChunk, BodyRead, ReadEnds,
       ReserveThrows, ReadTimesOut, Reading, GiveUp, Hears, wireVars
  <2> QED
    BY <1>1, <2>1, NothingSent
<1>3. CASE WriteFails
  <2>1. UNCHANGED <<response, down>> /\ npc' = "close"
    BY <1>3 DEF WriteFails
  <2> QED
    BY <1>1, <2>1, NothingSent DEF Hears
<1>4. CASE Callback
  <2>1. PICK r \in Responses : Respond(r)
    BY <1>4 DEF Callback
  <2>2. IsMResponse(r)
    BY ResponsesAssumption
  <2>3. npc = "dispatch" /\ down' = down
    BY <1>4 DEF Callback, wireVars
  <2> QED
    BY <1>1, <2>1, <2>2, <2>3, Responds
<1>5. CASE ServeStatic
  <2>1. PICK r : /\ Respond(r)
                 /\ \/ r = NotFound
                    \/ \E path : IsFile(path) /\ r = FileResponse(path)
    BY <1>5 DEF ServeStatic
  <2>2. IsMResponse(r)
    <3>1. <<>> \in Seq(ToSet(<<>>)) /\ 404 \in Nat /\ 200 \in Nat
      OBVIOUS
    <3>2. CASE r = NotFound
      <4>1. <<"404">> \in Seq(ToSet(<<"404">>)) /\ Len(<<"404">>) = 1
        BY DEF ToSet
      <4>2. 1 < Wrap
        BY WrapAssumption
      <4> QED
        BY <3>1, <3>2, <4>1, <4>2 DEF IsMResponse, IsBody, NotFound, NoResponse
    <3>3. ASSUME NEW path, IsFile(path), r = FileResponse(path)
          PROVE  IsMResponse(r)
      <4>1. /\ r.code = 200 /\ r.cookies = <<>>
            /\ r.body = Files[<<StaticEndpoints[Matching].dir>> \o path]
        BY <3>3 DEF FileResponse, NoResponse
      <4>2. IsBody(r.body)
        BY <3>3, <4>1, ResponsesAssumption DEF IsFile
      <4> QED
        BY <3>1, <4>1, <4>2 DEF IsMResponse
    <3> QED
      BY <2>1, <3>2, <3>3
  <2>3. npc = "dispatch" /\ down' = down
    BY <1>5 DEF ServeStatic, wireVars
  <2> QED
    BY <1>1, <2>1, <2>2, <2>3, Responds
<1> QED
  BY <1>1, <1>2, <1>3, <1>4, <1>5, LineWritten, BodyWritten, Closes
  DEF Node, NodeStep, NodeRuns

LEMMA ReplyNext ==
  ASSUME ReplyIInv, [Next]_vars
  PROVE  ReplyIInv'
<1>1. CASE PeerCloses \/ UNCHANGED vars
  <2>1. UNCHANGED <<down, nodeVars, clientVars, answer>>
    BY <1>1 DEF PeerCloses, vars, wireVars
  <2>2. /\ Reply' = Reply /\ Answer' = Answer
        /\ \A m : NodeAt(m)' <=> NodeAt(m)
    BY <2>1, ReplyKept DEF nodeVars
  <2>3. job' = job /\ response' = response /\ down' = down
    BY <2>1 DEF clientVars, nodeVars
  <2>4. \A p, m : Between(p, m) => Between(p, m)'
    BY <2>2, <2>3 DEF Between
  <2>5. CASE ~job.valid
    BY <2>2, <2>3, <2>5, ReplyThere
  <2>6. CASE job.valid
    <3>1. PICK p, m \in 0..Len(Reply) :
            Between(p, m) /\ NodeAt(m) /\ ClientAt(p)
      BY <2>6 DEF ReplyIInv
    <3>2. Between(p, m)' /\ NodeAt(m)' /\ ClientAt(p)'
      BY <2>1, <2>2, <2>4, <3>1, ClientKept
    <3> QED
      BY <2>2, <2>3, <3>2, ReplyThere
  <2> QED
    BY <2>5, <2>6
<1> QED
  BY <1>1, ClientReads, NodeAnswers DEF Next

(* The response, as the node, the connection and the client hold it        *)
(* between them, is in order at every moment (CNode.cpp:324-395,           *)
(* CClient.cpp:234-453).                                                   *)
THEOREM HttpReply == Spec => []ReplyIInv
<1>1. Init => ReplyIInv
  BY ReplyInit
<1>2. ReplyIInv /\ [Next]_vars => ReplyIInv'
  BY ReplyNext
<1> QED
  BY <1>1, <1>2, PTL DEF Spec

LEMMA ReplyResult ==
  ASSUME ReplyIInv
  PROVE  ResultIsAnswer
<1>1. SUFFICES ASSUME job.valid
               PROVE  /\ code \in {0, Answer.code}
                      /\ IsPrefix(resp, Answer.body)
                      /\ cpc = "done" => Returned
  BY DEF ResultIsAnswer, Returned
<1>2. PICK p : ClientAt(p)
  BY <1>1 DEF ReplyIInv
<1>3. /\ code \in {0, Answer.code} /\ Len(resp) \in 0..Len(Answer.body)
      /\ resp = SubSeq(Answer.body, 1, Len(resp))
  BY <1>2 DEF ClientAt, Holds
<1>4. IsPrefix(resp, Answer.body)
  <2>1. PICK B : B = Answer.body /\ B \in Seq(ToSet(B)) /\ Len(B) \in Nat
    BY <1>1, ReplyIsSeq DEF ReplyIInv
  <2>2. PICK n \in 0..Len(B) : n = Len(resp) /\ resp = SubSeq(B, 1, n)
    BY <1>3, <2>1
  <2>3. SubSeq(resp, 1, n) = SubSeq(B, 1, n)
    BY <2>1, <2>2, SubSeqFull
  <2> QED
    BY <2>1, <2>2, <2>3 DEF IsPrefix
<1> QED
  BY <1>2, <1>3, <1>4 DEF ClientAt

(* Whatever the other end is, sends, loses or cuts off, runRequest()       *)
(* returns nothing but a first part of the response, and a response with a *)
(* length only whole, unless "Socket error" was printed                    *)
(* (CClient.cpp:234-453).                                                  *)
THEOREM HttpResultIsAnswer == Spec => []ResultIsAnswer
<1>1. ReplyIInv => ResultIsAnswer
  BY ReplyResult
<1> QED
  BY <1>1, HttpReply, PTL

-----------------------------------------------------------------------------
(* The types of both ends. *)

LEMMA LeastIsMin ==
  ASSUME NEW S, S \subseteq Nat, S # {}
  PROVE  Min(S) \in S
<1> DEFINE R == OpToRel(<, Nat)
<1>1. IsWellFoundedOn(R, Nat)
  BY NatLessThanWellFounded
<1>2. \A x, y \in Nat : y < x => <<y, x>> \in R
  BY DEF OpToRel
<1> HIDE DEF R
<1>3. PICK x \in S : \A y \in S : ~(<<y, x>> \in R)
  BY <1>1, WFMin
<1>4. ASSUME NEW y \in S
      PROVE  x <= y
  <2>1. x \in Nat /\ y \in Nat /\ ~(y < x)
    BY <1>2, <1>3
  <2> QED
    BY <2>1
<1> QED
  BY <1>4 DEF Min

LEMMA ItemsIn ==
  ASSUME NEW S, NEW s \in Seq(S), \A x \in S : x.k = "length" => x.n \in Int
  PROVE  IsItems(s)
BY DEF IsItems, ToSet

LEMMA ItemsOf ==
  ASSUME NEW s, IsItems(s)
  PROVE  /\ s \in Seq(ToSet(s)) /\ Len(s) \in Nat
         /\ \A x \in ToSet(s) : x.k = "length" => x.n \in Int
BY DEF IsItems, ToSet

LEMMA ItemsJoin ==
  ASSUME NEW s, NEW t, IsItems(s), IsItems(t)
  PROVE  IsItems(s \o t)
<1>1. PICK S : S = ToSet(s) \cup ToSet(t)
  OBVIOUS
<1>2. s \in Seq(S) /\ t \in Seq(S)
  BY <1>1, ItemsOf
<1>3. s \o t \in Seq(S)
  BY <1>2
<1>4. \A x \in S : x.k = "length" => x.n \in Int
  BY <1>1, ItemsOf
<1> QED
  BY <1>3, <1>4, ItemsIn

LEMMA ItemsPart ==
  ASSUME NEW s, IsItems(s), NEW i \in Nat, i >= 1
  PROVE  IsItems(SubSeq(s, i, Len(s)))
<1>1. PICK S : s \in Seq(S) /\ Len(s) \in Nat
               /\ \A x \in S : x.k = "length" => x.n \in Int
  BY ItemsOf
<1>2. SubSeq(s, i, Len(s)) \in Seq(S)
  BY <1>1
<1> QED
  BY <1>1, <1>2, ItemsIn

LEMMA ItemsMove ==
  ASSUME NEW s, NEW t, IsItems(s), IsItems(t), s # <<>>
  PROVE  IsItems(Tail(s)) /\ IsItems(Append(t, Head(s)))
<1>1. PICK S : S = ToSet(s) \cup ToSet(t)
  OBVIOUS
<1>2. s \in Seq(S) /\ t \in Seq(S) /\ \A x \in S : x.k = "length" => x.n \in Int
  BY <1>1, ItemsOf
<1>3. Tail(s) \in Seq(S) /\ Append(t, Head(s)) \in Seq(S)
  BY <1>2
<1> QED
  BY <1>2, <1>3, ItemsIn

(* What the client sends.                                                  *)
LEMMA ItemsSent ==
  ASSUME job \in Jobs
  PROVE  /\ IsItems(RequestHeader)
         /\ \A i, j \in Nat : 1 <= i /\ i <= j /\ j <= Len(job.body) =>
              IsItems(Bytes(SubSeq(job.body, i, j)))
<1>1. IsItems(RequestHeader)
  <2>1. PICK S : S = Items
    OBVIOUS
  <2>2. RequestHeader \in Seq(S)
    BY <2>1, HeaderShape, Zenon
  <2>3. \A x \in S : x.k = "length" => x.n \in Int
    BY <2>1, JobIsRight
    DEF Items, StartLine, HostLine, OtherLine, CookieLine, LengthLine,
        BlankLine, Byte
  <2> QED
    BY <2>2, <2>3, ItemsIn
<1>2. ASSUME NEW i \in Nat, NEW j \in Nat, 1 <= i, i <= j, j <= Len(job.body)
      PROVE  IsItems(Bytes(SubSeq(job.body, i, j)))
  <2>1. PICK B : B = job.body
    OBVIOUS
  <2>2. PICK T : B \in Seq(T)
    BY <2>1, JobIsRight
  <2>3. PICK u \in Seq(T) : u = SubSeq(B, i, j)
    <3>1. j <= Len(B)
      BY <1>2, <2>1
    <3>2. SubSeq(B, i, j) \in Seq(T)
      BY <1>2, <2>2, <3>1
    <3> QED
      BY <3>2
  <2>4. PICK S : S = {Byte(b) : b \in T}
    OBVIOUS
  <2>5. Bytes(u) \in Seq(S)
    BY <2>4 DEF Bytes
  <2>6. \A x \in S : x.k = "length" => x.n \in Int
    BY <2>4 DEF Byte
  <2> QED
    BY <2>1, <2>3, <2>5, <2>6, ItemsIn
<1> QED
  BY <1>1, <1>2

LEMMA LengthIsNat ==
  ASSUME IsItems(headers)
  PROVE  ContentLength \in Nat
<1>1. CASE Has("length")
  <2>1. PICK I : I = {i \in 1..Len(headers) : headers[i].k = "length"}
    OBVIOUS
  <2>2. DOMAIN headers = 1..Len(headers) /\ Len(headers) \in Nat
    BY DEF IsItems
  <2>3. I # {} /\ I \subseteq Nat
    BY <1>1, <2>1, <2>2 DEF Has
  <2>4. Min(I) \in I
    BY <2>3, LeastIsMin
  <2>5. GetHeader("length") = headers[Min(I)]
    BY <2>1, <2>3 DEF GetHeader, SelectInSeq
  <2>6. GetHeader("length").n \in Int
    BY <2>1, <2>2, <2>4, <2>5 DEF IsItems
  <2> QED
    BY <1>1, <2>6, WrapAssumption DEF ContentLength, Unsigned
<1>2. CASE ~Has("length")
  BY <1>2 DEF ContentLength
<1> QED
  BY <1>1, <1>2

LEMMA LengthKept ==
  ASSUME headers' = headers
  PROVE  ContentLength' = ContentLength
<1>1. Has("length")' <=> Has("length")
  BY DEF Has
<1>2. GetHeader("length")' = GetHeader("length")
  BY DEF GetHeader, SelectInSeq
<1> QED
  BY <1>1, <1>2 DEF ContentLength

LEMMA TypeInit ==
  ASSUME Init
  PROVE  TypeIInv
<1>1. /\ headers = <<>> /\ got = 0 /\ response.code = 0 /\ sent = 0
      /\ lines = 0 /\ clen = -1 /\ chunked = FALSE /\ left = 0 /\ code = 0
      /\ error = FALSE
  BY DEF Init, NodeInit, ClientInit, NoResponse
<1>2. /\ npc \in {"off", "listen", "header"} /\ cpc \in {"off", "start"}
      /\ up = <<>> \/ up \in Strangers
      /\ npc = "off" => answer \in Servers
  BY DEF Init, BothInit, StrangerInit, ServerInit
<1>3. IsItems(<<>>)
  BY DEF IsItems
<1>4. IsItems(up)
  <2>1. \A s \in Strangers : IsItems(s)
    BY StrangersAssumption DEF IsItems
  <2> QED
    BY <1>2, <1>3, <2>1
<1>5. npc = "off" => answer.code \in Nat
  BY <1>2, ServersAssumption
<1>6. NodeTypeOK
  BY <1>1, <1>2 DEF NodeTypeOK
<1>7. ClientTypeOK
  <2>1. chunked \in BOOLEAN /\ error \in BOOLEAN
    BY <1>1, Zenon
  <2>2. /\ sent \in Nat /\ lines \in Nat /\ clen \in Int /\ left \in Nat
        /\ code \in Nat
    BY <1>1
  <2> QED
    BY <1>2, <2>1, <2>2, Zenon DEF ClientTypeOK
<1> QED
  BY <1>1, <1>2, <1>3, <1>4, <1>5, <1>6, <1>7 DEF TypeIInv, TypeOK

(* The code and the length that the client has read.                       *)
LEMMA CodeIsNat ==
  ASSUME TypeIInv, ReplyIInv, job.valid
  PROVE  code \in Nat /\ clen \in Int
<1>1. Answer.code \in Nat
  BY DEF TypeIInv, Answer, ReplyIInv, IsMResponse
<1>2. PICK p : ClientAt(p)
  BY DEF ReplyIInv
<1> QED
  BY <1>1, <1>2 DEF ClientAt, Holds

LEMMA ClientTypes ==
  ASSUME TypeIInv, ReplyIInv, ReplyIInv', job \in Jobs,
         Establish \/ Client \/ Dies
  PROVE  /\ ClientTypeOK' /\ IsItems(up')
         /\ cpc' \notin {"off", "start", "done"} => job'.valid
<1> DEFINE Typed == /\ cpc' \in {"header", "body", "readHeader", "readBody",
                                 "readSize", "readChunk", "readCrlf", "done",
                                 "dead"}
                    /\ cpc' # "done" => job.valid
                    /\ sent' \in Nat /\ lines' \in Nat /\ left' \in Nat
                    /\ chunked' \in BOOLEAN /\ error' \in BOOLEAN
                    /\ IsItems(up')
<1>1. /\ sent \in Nat /\ lines \in Nat /\ left \in Nat /\ code \in Nat
      /\ clen \in Int /\ chunked \in BOOLEAN /\ error \in BOOLEAN
      /\ IsItems(up)
      /\ cpc \notin {"off", "start", "done"} => job.valid
  BY DEF TypeIInv, TypeOK, ClientTypeOK
<1>2. Typed
  <2>1. CASE Establish
    BY <1>1, <2>1 DEF Establish, Connect, readVars
  <2>2. CASE InvalidEndpoint \/ ConnectFails \/ RequestSent \/ SendFails
    BY <1>1, <2>2
    DEF InvalidEndpoint, ConnectFails, RequestSent, SendFails, Abandon, Return,
        readVars
  <2>3. CASE ServerCloses \/ ReceiveTimesOut \/ ClientDies
    BY <1>1, <2>3
    DEF ServerCloses, ReceiveTimesOut, ClientDies, Abandon, Return, readVars
  <2>4. CASE SendHeader
    <3>1. IsItems(up')
      BY <1>1, <2>4, ItemsSent, ItemsJoin DEF SendHeader
    <3> QED
      BY <1>1, <2>4, <3>1 DEF SendHeader, readVars
  <2>5. CASE SendBody
    <3>1. PICK n \in Nat : n = Len(job.body)
      BY JobIsRight
    <3>2. /\ sent < n /\ cpc = "body" /\ cpc' = cpc
          /\ sent' = IF sent + Segment > n THEN n ELSE sent + Segment
          /\ up' = IF downOpen
                   THEN up \o Bytes(SubSeq(job.body, sent + 1, sent'))
                   ELSE up
          /\ error' = error /\ UNCHANGED readVars
      BY <2>5, <3>1 DEF SendBody
    <3>3. /\ sent' \in Nat /\ sent + 1 \in Nat /\ 1 <= sent + 1
          /\ sent + 1 <= sent' /\ sent' <= n
      BY <1>1, <3>1, <3>2, SegmentAssumption
    <3>4. IsItems(Bytes(SubSeq(job.body, sent + 1, sent')))
      BY <3>1, <3>3, ItemsSent
    <3>5. IsItems(up')
      BY <1>1, <3>2, <3>4, ItemsJoin
    <3> QED
      BY <1>1, <3>2, <3>3, <3>5 DEF readVars
  <2>6. CASE ReadResponseLine
    <3>1. /\ cpc = "readHeader" /\ lines' = lines + 1
          /\ chunked' \in BOOLEAN /\ error' = error /\ sent' = sent
          /\ up' = up
          /\ AfterHeader \/ (cpc' = cpc /\ left' = left)
      BY <1>1, <2>6 DEF ReadResponseLine
    <3>2. /\ cpc' \in {"readHeader", "readBody", "readSize", "done"}
          /\ left' \in {left, Unsigned(clen)}
      BY <3>1 DEF AfterHeader, Return
    <3>3. Unsigned(clen) \in Nat
      BY <1>1, WrapAssumption DEF Unsigned
    <3>4. lines' \in Nat /\ left' \in Nat
      BY <1>1, <3>1, <3>2, <3>3
    <3>5. job.valid
      BY <1>1, <3>1
    <3> QED
      BY <1>1, <3>1, <3>2, <3>4, <3>5
  <2>7. CASE ReadBodyByte \/ ReadChunkByte
    <3>1. /\ cpc \in {"readBody", "readChunk"} /\ left' = left - 1
          /\ cpc' \in {"readBody", "readChunk", "readCrlf", "done"}
          /\ sent' = sent /\ lines' = lines /\ chunked' = chunked
          /\ error' = error /\ up' = up
      BY <2>7 DEF ReadBodyByte, ReadChunkByte, Return
    <3>2. PICK p : ClientAt(p)
      BY <1>1, <3>1 DEF ReplyIInv
    <3>3. left \in Nat \ {0}
      BY <3>1, <3>2 DEF ClientAt, ChunkReads, InBody, InChunks
    <3>4. left' \in Nat
      BY <3>1, <3>3
    <3> QED
      BY <1>1, <3>1, <3>4
  <2>8. CASE ReadSize
    <3>1. /\ cpc = "readSize" /\ cpc' \in {"readSize", "readChunk", "done"}
          /\ cpc' # "readChunk" => left' = left
          /\ sent' = sent /\ lines' = lines /\ chunked' = chunked
          /\ error' = error /\ up' = up /\ job' = job
      BY <2>8 DEF ReadSize, Return
    <3>2. cpc' = "readChunk" => left' \in Nat
      <4>1. PICK p : ClientAt(p)'
        BY <1>1, <3>1 DEF ReplyIInv
      <4> QED
        BY <3>1, <4>1 DEF ClientAt, ChunkReads, InChunks
    <3> QED
      BY <1>1, <3>1, <3>2
  <2>9. CASE ReadCrlf
    BY <1>1, <2>9 DEF ReadCrlf, readVars
  <2> QED
    BY <2>1, <2>2, <2>3, <2>4, <2>5, <2>6, <2>7, <2>8, <2>9
    DEF Client, Dies, ClientStep, ClientRuns
<1>3. job' = job
  BY ClientMoves DEF Establish, Connect
<1>4. code' \in Nat /\ clen' \in Int
  <2>1. CASE job.valid
    <3>1. PICK p : ClientAt(p)'
      BY <1>3, <2>1 DEF ReplyIInv
    <3>2. (Answer').code \in Nat
      <4>1. /\ response' = response /\ answer' = answer
            /\ (npc' = "off" <=> npc = "off")
        BY ClientMoves DEF Establish, Client, Dies, nodeVars
      <4> QED
        BY <4>1 DEF Answer, TypeIInv, TypeOK, NodeTypeOK
    <3> QED
      BY <3>1, <3>2 DEF ClientAt, Holds
  <2>2. CASE ~job.valid
    <3>1. cpc \in {"off", "start", "done"}
      BY <1>1, <2>2
    <3>2. InvalidEndpoint
      <4>1. ~Establish /\ ~ClientDies /\ ~ConnectFails /\ ~SendFails
        BY <2>2, <3>1 DEF Establish, Connect, ClientDies, ConnectFails, SendFails
      <4>2. ~SendHeader /\ ~SendBody /\ ~RequestSent
        BY <3>1 DEF SendHeader, SendBody, RequestSent
      <4>3. ~ReadResponseLine /\ ~ReadBodyByte /\ ~ReadSize
        BY <3>1 DEF ReadResponseLine, ReadBodyByte, ReadSize
      <4>4. ~ReadChunkByte /\ ~ReadCrlf
        BY <3>1 DEF ReadChunkByte, ReadCrlf
      <4>5. ~ServerCloses /\ ~ReceiveTimesOut
        BY <3>1 DEF ServerCloses, ReceiveTimesOut, Receiving
      <4> QED
        BY <4>1, <4>2, <4>3, <4>4, <4>5 DEF Client, Dies, ClientStep, ClientRuns
    <3> QED
      BY <1>1, <3>2 DEF InvalidEndpoint, Default, readVars
  <2> QED
    BY <2>1, <2>2
<1> QED
  BY <1>2, <1>3, <1>4 DEF ClientTypeOK

LEMMA NodeTypes ==
  ASSUME TypeIInv, Node, ReplyIInv'
  PROVE  /\ NodeTypeOK' /\ IsItems(up') /\ IsItems(headers')
         /\ npc' \in {"off", "listen", "header"} => got' = 0
         /\ npc' # "off"
<1>1. /\ IsItems(up) /\ IsItems(headers)
      /\ npc \in {"off", "listen", "header"} => got = 0
      /\ got = 0 \/ got \in 1..ContentLength + Chunk - 1
      /\ ContentLength \in Nat
      /\ response'.code \in Nat
  BY LengthIsNat DEF TypeIInv, TypeOK, NodeTypeOK, ReplyIInv, IsMResponse
<1>2. CASE ReadHeaderLine
  <2>1. /\ npc = "header" /\ up # <<>> /\ up' = Tail(up)
        /\ headers' = Append(headers, Head(up)) /\ got' = got
        /\ npc' \in {"header", "body", "close"}
    BY <1>2 DEF ReadHeaderLine, GiveUp
  <2> QED
    BY <1>1, <2>1, ItemsMove DEF NodeTypeOK
<1>3. CASE ReadBodyChunk
  <2>1. PICK n \in 1..Chunk : up' = SubSeq(up, n + 1, Len(up)) /\ got' = got + n
    BY <1>3 DEF ReadBodyChunk
  <2>2. /\ npc = "body" /\ npc' = "body" /\ headers' = headers
        /\ got < ContentLength
    BY <1>3 DEF ReadBodyChunk
  <2>3. IsItems(up')
    <3>1. n + 1 \in Nat /\ n + 1 >= 1
      BY ChunkAssumption
    <3> QED
      BY <1>1, <2>1, <3>1, ItemsPart
  <2>4. ContentLength' = ContentLength
    BY <2>2, LengthKept
  <2>5. got' \in 1..ContentLength + Chunk - 1
    <3>1. got \in Nat /\ n \in Nat /\ n >= 1 /\ n <= Chunk /\ Chunk \in Nat
      BY <1>1, ChunkAssumption
    <3> QED
      BY <1>1, <2>1, <2>2, <3>1
  <2> QED
    BY <1>1, <2>2, <2>3, <2>4, <2>5 DEF NodeTypeOK
<1>4. ASSUME UNCHANGED <<up, headers, got>>,
             npc' \in {"dispatch", "write", "close", "gone"}
      PROVE  /\ NodeTypeOK' /\ IsItems(up') /\ IsItems(headers')
             /\ npc' \in {"off", "listen", "header"} => got' = 0
             /\ npc' # "off"
  <2>1. ContentLength' = ContentLength
    BY <1>4, LengthKept
  <2> QED
    BY <1>1, <1>4, <2>1 DEF NodeTypeOK
<1>5. CASE BodyRead \/ ReadEnds \/ ReserveThrows \/ ReadTimesOut
  BY <1>4, <1>5
  DEF BodyRead, ReadEnds, ReserveThrows, ReadTimesOut, GiveUp, wireVars
<1>6. CASE Callback \/ ServeStatic
  BY <1>4, <1>6 DEF Callback, ServeStatic, Respond, wireVars
<1>7. CASE WriteLine \/ WriteBody \/ WriteFails \/ Close
  BY <1>4, <1>7 DEF WriteLine, WriteBody, WriteFails, Close
<1> QED
  BY <1>2, <1>3, <1>5, <1>6, <1>7 DEF Node, NodeStep, NodeRuns

LEMMA TypeNext ==
  ASSUME TypeIInv, RequestIInv, ReplyIInv, [Next]_vars
  PROVE  TypeIInv'
<1>1. ReplyIInv'
  BY ReplyNext
<1>2. job \in Jobs
  BY DEF RequestIInv, StreamInv
<1>3. CASE Establish \/ Client \/ Dies
  <2>1. /\ ClientTypeOK' /\ IsItems(up')
        /\ cpc' \notin {"off", "start", "done"} => job'.valid
    BY <1>1, <1>2, <1>3, ClientTypes
  <2>2. /\ UNCHANGED <<headers, got, response, answer>>
        /\ npc' = npc \/ (npc = "listen" /\ npc' = "header")
    BY <1>3, ClientMoves DEF Establish, Client, Dies, nodeVars
  <2>3. ContentLength' = ContentLength
    BY <2>2, LengthKept
  <2>4. NodeTypeOK'
    BY <2>2, <2>3 DEF TypeIInv, TypeOK, NodeTypeOK
  <2> QED
    BY <2>1, <2>2, <2>4 DEF TypeIInv, TypeOK
<1>4. CASE Node
  <2>1. UNCHANGED <<clientVars, answer>> /\ npc # "off"
    BY <1>4, NodeMoves DEF Node
  <2>2. ClientTypeOK' /\ (cpc' \notin {"off", "start", "done"} => job'.valid)
    BY <2>1 DEF clientVars, TypeIInv, TypeOK, ClientTypeOK
  <2> QED
    BY <1>1, <1>4, <2>1, <2>2, NodeTypes DEF TypeIInv, TypeOK
<1>5. CASE PeerCloses \/ UNCHANGED vars
  <2>1. UNCHANGED <<up, nodeVars, clientVars, answer>>
    BY <1>5 DEF PeerCloses, vars, wireVars
  <2>2. ClientTypeOK' /\ (cpc' \notin {"off", "start", "done"} => job'.valid)
    BY <2>1 DEF clientVars, TypeIInv, TypeOK, ClientTypeOK
  <2>3. ContentLength' = ContentLength
    BY <2>1, LengthKept DEF nodeVars
  <2>4. NodeTypeOK'
    BY <2>1, <2>3 DEF nodeVars, TypeIInv, TypeOK, NodeTypeOK
  <2> QED
    BY <2>1, <2>2, <2>4 DEF nodeVars, TypeIInv, TypeOK
<1> QED
  BY <1>3, <1>4, <1>5 DEF Next

-----------------------------------------------------------------------------
(* What goes on when no one is late and nothing fails. *)

(* Where the client is in the reply, and that what is on its way to it     *)
(* comes next.                                                             *)
Stands(p) ==
  /\ p \in Nat /\ Len(down) \in Nat /\ down \in Seq(ToSet(Reply))
  /\ Len(Reply) \in Nat /\ DOMAIN Reply = 1..Len(Reply)
  /\ p + Len(down) <= Len(Reply)
  /\ \A i \in 1..Len(down) : down[i] = Reply[p + i]
  /\ NodeAt(p + Len(down)) /\ ClientAt(p)

LEMMA Standing ==
  ASSUME ReplyIInv, job.valid
  PROVE  \E p : Stands(p)
<1>1. PICK p, m \in 0..Len(Reply) : Between(p, m) /\ NodeAt(m) /\ ClientAt(p)
  BY DEF ReplyIInv
<1>2. PICK D : D = Reply
  OBVIOUS
<1>3. PICK S : S = ToSet(D) /\ D \in Seq(S) /\ Len(D) \in Nat
  BY <1>2, ReplyIsSeq DEF ReplyIInv
<1>4. /\ p \in Nat /\ m \in Nat /\ p <= m /\ m <= Len(D)
      /\ down = SubSeq(D, p + 1, m)
  BY <1>1, <1>2 DEF Between
<1>5. /\ DOMAIN D = 1..Len(D) /\ down \in Seq(S) /\ Len(down) = m - p
      /\ \A i \in 1..m - p : down[i] = D[p + i]
  BY <1>3, <1>4
<1>10. PICK k \in Nat : k = m - p
  BY <1>4
<1>11. Len(down) = k /\ \A i \in 1..k : down[i] = D[p + i]
  BY <1>5, <1>10, Zenon
<1>6. p + Len(down) = m
  <2>1. p + k = m
    BY <1>4, <1>10
  <2> QED
    BY <1>11, <2>1, Zenon
<1>7. NodeAt(p + Len(down)) /\ p + Len(down) <= Len(D)
  BY <1>1, <1>4, <1>6
<1>8. /\ Len(down) \in Nat /\ \A i \in 1..Len(down) : down[i] = D[p + i]
  BY <1>11, Zenon
<1>9. Stands(p)
  BY <1>1, <1>2, <1>3, <1>4, <1>5, <1>7, <1>8, Zenon DEF Stands
<1> QED
  BY <1>9

(* The next item, and how many are left behind those that are taken.       *)
LEMMA NextItem ==
  ASSUME NEW p, Stands(p), down # <<>>
  PROVE  /\ p + 1 \in DOMAIN Reply /\ Head(down) = Reply[p + 1]
         /\ Len(down) >= 1
         /\ ~Hears
<1>1. PICK d \in Seq(ToSet(Reply)) : d = down
  BY DEF Stands
<1>2. Len(d) >= 1 /\ Head(d) = d[1]
  BY <1>1
<1>3. p \in Nat /\ Len(d) \in Nat /\ p + Len(d) <= Len(Reply)
      /\ d[1] = Reply[p + 1]
  BY <1>1, <1>2 DEF Stands
<1>4. p + 1 \in DOMAIN Reply
  <2>1. DOMAIN Reply = 1..Len(Reply) /\ Len(Reply) \in Nat
    BY <1>1, <1>3 DEF Stands
  <2> QED
    BY <1>2, <1>3, <2>1
<1>5. ~Hears
  <2>1. PICK k : k = p + Len(down) /\ NodeAt(k)
    BY DEF Stands
  <2>2. k # 0
    BY <1>1, <1>2, <1>3, <2>1
  <2> QED
    BY <2>1, <2>2 DEF NodeAt
<1> QED
  BY <1>1, <1>2, <1>3, <1>4, <1>5

LEMMA LeftBehind ==
  ASSUME NEW p, Stands(p), NEW n \in Nat, n <= Len(down), Take(n)
  PROVE  Len(down') = Len(down) - n
<1>1. PICK d \in Seq(ToSet(Reply)) : d = down
  BY DEF Stands
<1>2. PICK k \in Nat : k = Len(d)
  OBVIOUS
<1>3. Len(SubSeq(d, n + 1, k)) = k - n
  BY <1>1, <1>2
<1> QED
  BY <1>1, <1>2, <1>3 DEF Take

(* What CNode sends ends its header with its only blank line, behind the   *)
(* line with the length.                                                   *)
LEMMA HeaderEnds ==
  ASSUME IsMResponse(response), npc # "off",
         NEW n, n = Len(ResponseLines(response))
  PROVE  /\ n \in Nat /\ n >= 8 /\ Len(response.body) \in Nat
         /\ Len(Reply) = n + Len(response.body)
         /\ \A i \in 1..n : Reply[i].k = "blank" <=> i = n
         /\ Precedes(Reply, n, "length")
         /\ \A i \in n..Len(Reply) : Precedes(Reply, i, "blank")
<1>1. PICK L : L = ResponseLines(response) /\ IsHead(L, response)
  BY ReplyShape DEF IsMResponse
<1>2. /\ n \in Nat /\ n >= 8 /\ Len(response.body) \in Nat
      /\ Len(Reply) = n + Len(response.body)
      /\ \A i \in 1..n : Reply[i] = L[i]
  BY <1>1, ReplyParts DEF IsHead
<1>3. \A i \in 1..n : Reply[i].k = "blank" <=> i = n
  BY <1>1, <1>2 DEF IsHead
<1>4. Precedes(Reply, n, "length")
  <2>1. 4 \in 1..n
    BY <1>2
  <2> QED
    BY <1>1, <1>2, <2>1 DEF IsHead, Precedes
<1>5. ASSUME NEW i \in n..Len(Reply)
      PROVE  Precedes(Reply, i, "blank")
  <2>1. n \in 1..i /\ n \in 1..n
    BY <1>2
  <2> QED
    BY <1>3, <2>1 DEF Precedes
<1> QED
  BY <1>2, <1>3, <1>4, <1>5

(* A step of the client that reads nothing, Solusek's node at the other end. *)
LEMMA CleanSends ==
  ASSUME RequestIInv, Clean, npc # "off", job.valid, ~job.ignoreResult, ~fault',
         \/ Establish
         \/ Client /\ (ConnectFails \/ SendHeader \/ SendBody \/ SendFails
                         \/ RequestSent)
  PROVE  Clean'
<1>1. /\ NodeClean /\ cpc \notin {"off", "dead"} /\ (cpc # "done" => ~error)
      /\ cpc \notin {"start", "done"} => upOpen /\ ~Misread
  BY DEF Clean
<1>2. /\ response' = response /\ job' = job /\ down' = down /\ lines' = lines
      /\ left' = left /\ downOpen' = downOpen /\ answer' = answer /\ out' = out
      /\ IF Establish /\ npc = "listen" THEN npc' = "header" ELSE npc' = npc
  BY DEF Establish, Client, Connect, ConnectFails, SendHeader, SendBody,
         SendFails, RequestSent, nodeVars, readVars
<1>3. (Torn' <=> Torn) /\ (Misread' <=> Misread)
  BY <1>2 DEF Torn, Misread
<1>4. CASE Establish
  <2>1. /\ cpc = "start" /\ cpc' = "header" /\ upOpen' /\ error' = error
        /\ ~Misread
    BY <1>4 DEF Establish, Connect
  <2>2. npc = "listen" /\ npc' = "header"
    BY <1>1, <1>2, <1>4, <2>1 DEF NodeClean
  <2>3. NodeClean'
    BY <1>1, <1>2, <2>1, <2>2 DEF NodeClean, Hears, ChunkReads
  <2> QED
    BY <1>1, <1>3, <2>1, <2>2, <2>3 DEF Clean, CleanExchange
<1>5. CASE ConnectFails
  <2>1. /\ cpc = "start" /\ cpc' = "done" /\ error' /\ Misread
    BY <1>5 DEF ConnectFails, Abandon, Return
  <2>2. npc' = npc /\ npc = "listen"
    BY <1>1, <1>2, <1>5, <2>1 DEF NodeClean, ConnectFails, Establish, Connect
  <2>3. NodeClean'
    BY <1>1, <1>2, <1>3, <2>1, <2>2 DEF NodeClean, Hears, ChunkReads
  <2> QED
    BY <1>3, <2>1, <2>2, <2>3 DEF Clean, CleanExchange
<1>6. CASE SendHeader \/ SendBody
  <2>1. /\ cpc \in {"header", "body"} /\ cpc' = "body"
        /\ error' = error /\ upOpen' = upOpen
    BY <1>6 DEF SendHeader, SendBody
  <2>2. npc' = npc
    BY <1>2, <2>1 DEF Establish, Connect
  <2>3. Hears
    <3>1. CASE SendHeader
      BY <1>1, <3>1 DEF NodeClean, SendHeader, Sent
    <3>2. CASE SendBody
      <4>1. sent < Len(job.body) /\ cpc = "body"
        BY <3>2 DEF SendBody
      <4>2. sent # Len(job.body)
        <5>1. job \in Jobs
          BY DEF RequestIInv, StreamInv
        <5>2. Len(job.body) \in Nat
          BY <5>1, JobIsRight
        <5> QED
          BY <4>1, <5>2
      <4> QED
        BY <1>1, <4>1, <4>2 DEF NodeClean, Sent
    <3> QED
      BY <1>6, <3>1, <3>2
  <2>4. NodeClean'
    BY <1>1, <1>2, <2>1, <2>2, <2>3 DEF NodeClean, Hears, ChunkReads
  <2> QED
    BY <1>1, <1>3, <2>1, <2>2, <2>4 DEF Clean, CleanExchange
<1>7. CASE SendFails
  <2>1. /\ cpc \in {"header", "body"} /\ ~downOpen
        /\ cpc = "body" => sent < Len(job.body)
    BY <1>7 DEF SendFails
  <2>2. Sent
    BY <1>1, <2>1 DEF NodeClean, Hears
  <2>3. cpc = "body" /\ sent = Len(job.body) /\ sent < Len(job.body)
    BY <2>1, <2>2 DEF Sent
  <2>4. Len(job.body) \in Nat
    BY JobIsRight DEF RequestIInv, StreamInv
  <2> QED
    BY <2>3, <2>4
<1>8. CASE RequestSent
  <2>1. /\ cpc = "body" /\ cpc' = "readHeader" /\ sent = Len(job.body)
        /\ error' = error /\ upOpen' = upOpen /\ up' = up
    BY <1>8 DEF RequestSent
  <2>2. npc' = npc
    BY <1>2, <2>1 DEF Establish, Connect
  <2>3. Reply' = Reply
    BY <1>2, <2>2 DEF Reply
  <2>4. NodeClean'
    BY <1>1, <1>2, <1>3, <2>1, <2>2, <2>3 DEF NodeClean, Hears, ChunkReads, Sent
  <2> QED
    BY <1>1, <1>3, <2>1, <2>2, <2>4 DEF Clean, CleanExchange
<1> QED
  BY <1>4, <1>5, <1>6, <1>7, <1>8

(* A line of the node's response: behind the last one there is the body.   *)
LEMMA CleanLine ==
  ASSUME ReplyIInv, Clean, NodeTypeOK, npc # "off", job.valid,
         Client, ReadResponseLine
  PROVE  Clean'
<1> DEFINE n == Len(ResponseLines(response))
<1>1. /\ NodeClean /\ cpc = "readHeader" /\ ~error /\ upOpen /\ ~Misread
  BY DEF Clean, ReadResponseLine
<1>2. /\ UNCHANGED <<npc, response, out, answer, job, downOpen, up, error, sent>>
      /\ lines' = lines + 1 /\ down # <<>> /\ Take(1)
  BY DEF Client, ReadResponseLine, nodeVars
<1>3. /\ (Torn' <=> Torn) /\ (Misread' <=> Misread) /\ Reply' = Reply
      /\ n' = n /\ (Hears' <=> Hears)
  BY <1>2 DEF Torn, Misread, Reply, Hears
<1>4. PICK p : Stands(p)
  BY Standing
<1>5. /\ p = lines /\ p \in Nat /\ ~Precedes(Reply, p, "blank")
      /\ clen = IF Precedes(Reply, p, "length") THEN Len(response.body) ELSE -1
  BY <1>1, <1>4 DEF Stands, ClientAt, InHeader, Answer
<1>6. /\ Head(down) = Reply[p + 1] /\ p + 1 \in DOMAIN Reply /\ ~Hears
      /\ Len(down) >= 1 /\ Len(down) \in Nat
      /\ Len(down') = Len(down) - 1
  <2>1. 1 \in Nat /\ 1 <= Len(down) /\ Len(down) \in Nat
    BY <1>2, <1>4, NextItem DEF Stands
  <2> QED
    BY <1>2, <1>4, <2>1, NextItem, LeftBehind, Zenon
<1>7. /\ n \in Nat /\ n >= 8 /\ Len(response.body) \in Nat
      /\ Len(Reply) = n + Len(response.body)
      /\ \A i \in 1..n : Reply[i].k = "blank" <=> i = n
      /\ Precedes(Reply, n, "length")
      /\ \A i \in n..Len(Reply) : Precedes(Reply, i, "blank")
  BY HeaderEnds DEF ReplyIInv
<1> HIDE DEF n
<1>8. p < n /\ p + 1 \in 1..n
  <2>1. p \in 0..Len(Reply)
    BY <1>4, <1>5 DEF Stands
  <2> QED
    BY <1>5, <1>7, <2>1
<1>9. Reply[p + 1].k = "blank" <=> p + 1 = n
  BY <1>7, <1>8
<1>10. EndsHeader(Head(down), lines) <=> p + 1 = n
  BY <1>5, <1>6, <1>7, <1>9 DEF EndsHeader
<1>11. /\ clen' = IF Reply[p + 1].k = "length" THEN Reply[p + 1].n ELSE clen
       /\ IF p + 1 = n THEN AfterHeader ELSE UNCHANGED <<cpc, left, upOpen>>
  BY <1>6, <1>10 DEF ReadResponseLine
<1>12. CASE p + 1 # n
  <2>1. cpc' = cpc /\ left' = left /\ upOpen' = upOpen
    BY <1>11, <1>12
  <2>2. ASSUME npc \in {"close", "gone"}
        PROVE  IF Torn THEN lines + 1 + Len(down') < n
               ELSE Len(down') = Len(Reply) - (lines + 1)
    <3>1. IF Torn THEN lines + Len(down) < n ELSE Len(down) = Len(Reply) - lines
      BY <1>1, <2>2 DEF NodeClean, n
    <3> QED
      BY <1>5, <1>6, <1>7, <3>1
  <2>3. NodeClean'
    BY <1>1, <1>2, <1>3, <1>6, <2>1, <2>2 DEF NodeClean, ChunkReads, Sent, n
  <2> QED
    BY <1>1, <1>2, <1>3, <2>1, <2>3 DEF Clean, CleanExchange
<1>13. CASE p + 1 = n
  <2>1. ~Torn
    <3>1. npc \in {"write", "close", "gone"}
      BY <1>6 DEF NodeTypeOK, Hears
    <3>2. CASE npc = "write"
      <4>1. PICK k : k = p + Len(down) /\ NodeAt(k)
        BY <1>4 DEF Stands
      <4>2. k <= n /\ out = SubSeq(ResponseLines(response), k + 1, n)
        BY <3>2, <4>1 DEF NodeAt, n
      <4>3. k = n
        BY <1>5, <1>6, <1>7, <1>13, <4>1, <4>2
      <4>4. out = <<>>
        BY <1>7, <4>2, <4>3, SubSeqEmpty
      <4> QED
        BY <1>1, <3>2, <4>4 DEF NodeClean
    <3>3. CASE npc \in {"close", "gone"}
      <4>1. Torn => lines + Len(down) < n
        BY <1>1, <3>3 DEF NodeClean, n
      <4> QED
        BY <1>5, <1>6, <1>7, <1>13, <4>1
    <3> QED
      BY <3>1, <3>2, <3>3
  <2>2. clen = Len(response.body) /\ AfterHeader
    <3>1. Precedes(Reply, p, "length")
      <4>1. PICK j \in 1..n : Reply[j].k = "length"
        BY <1>7 DEF Precedes
      <4>2. j # n
        BY <1>9, <1>13, <4>1
      <4>3. j \in 1..p
        BY <1>5, <1>7, <1>13, <4>1, <4>2
      <4> QED
        BY <4>1, <4>3 DEF Precedes
    <3> QED
      BY <1>5, <1>11, <1>13, <3>1
  <2>3. Unsigned(clen) = Len(response.body) /\ clen >= 0
    <3>1. Len(response.body) < Wrap
      BY DEF ReplyIInv, IsMResponse, IsBody
    <3> QED
      BY <1>7, <2>2, <3>1, UnsignedIs
  <2>4. \/ cpc' = "done"
        \/ cpc' = "readBody" /\ left' = Len(response.body) /\ upOpen' = upOpen
    BY <2>2, <2>3 DEF AfterHeader, Return
  <2>5. ASSUME npc \in {"close", "gone"}, cpc' = "readBody"
        PROVE  Len(down') = left'
    <3>1. Len(down) = Len(Reply) - lines
      BY <1>1, <2>1, <2>5 DEF NodeClean
    <3> QED
      BY <1>5, <1>6, <1>7, <1>13, <2>4, <2>5, <3>1
  <2>6. NodeClean'
    BY <1>1, <1>2, <1>3, <1>6, <2>1, <2>4, <2>5 DEF NodeClean, ChunkReads, Sent
  <2> QED
    BY <1>1, <1>2, <1>3, <2>1, <2>4, <2>6 DEF Clean, CleanExchange
<1> QED
  BY <1>12, <1>13

(* A byte of the body, and the end of what a node sent that is gone: this  *)
(* comes in the header, and only behind an empty piece.                    *)
LEMMA CleanByte ==
  ASSUME ReplyIInv, Clean, npc # "off", job.valid, ~fault',
         Client, ReadBodyByte \/ ServerCloses \/ ReceiveTimesOut
  PROVE  Clean'
<1>1. /\ NodeClean /\ cpc \in {"readHeader", "readBody"} /\ ~error /\ upOpen
      /\ ~Misread
  BY DEF Clean, NodeClean, ChunkReads, ReadBodyByte, ServerCloses,
         ReceiveTimesOut, Receiving
<1>2. /\ UNCHANGED <<npc, response, out, answer, job, downOpen, up, sent, lines>>
  BY DEF Client, ReadBodyByte, ServerCloses, ReceiveTimesOut, nodeVars, readVars
<1>3. /\ (Torn' <=> Torn) /\ (Misread' <=> Misread) /\ Reply' = Reply
      /\ (Hears' <=> Hears)
  BY <1>2 DEF Torn, Misread, Reply, Hears
<1>4. PICK p : Stands(p)
  BY Standing
<1>5. CASE ReadBodyByte
  <2>1. /\ cpc = "readBody" /\ down # <<>> /\ Take(1) /\ left' = left - 1
        /\ error' = error
        /\ \/ cpc' = "done"
           \/ cpc' = "readBody" /\ upOpen' = upOpen
    BY <1>5 DEF ReadBodyByte, Return
  <2>2. Len(down) \in Nat /\ Len(down') = Len(down) - 1 /\ ~Hears /\ left \in Nat
    <3>1. 1 \in Nat /\ 1 <= Len(down) /\ Len(down) \in Nat /\ InBody(p)
      BY <1>4, <2>1, NextItem DEF Stands, ClientAt
    <3> QED
      BY <1>4, <2>1, <3>1, NextItem, LeftBehind DEF InBody
  <2>3. ~Torn /\ (npc \in {"close", "gone"} => Len(down) = left)
    BY <1>1, <2>1 DEF NodeClean
  <2>4. NodeClean'
    BY <1>1, <1>2, <1>3, <2>1, <2>2, <2>3 DEF NodeClean, ChunkReads, Sent
  <2> QED
    BY <1>1, <1>2, <1>3, <2>1, <2>3, <2>4 DEF Clean, CleanExchange
<1>6. CASE ServerCloses
  <2>1. /\ down = <<>> /\ ~downOpen /\ cpc' = "done" /\ error'
    BY <1>1, <1>6 DEF ServerCloses, Abandon, Return
  <2>2. npc = "gone" /\ ~Hears
    BY <1>1, <2>1 DEF NodeClean, Hears
  <2>3. Len(down) = 0
    BY <2>1
  <2>4. Torn
    <3>1. SUFFICES ASSUME ~Torn
                   PROVE  FALSE
      OBVIOUS
    <3>2. CASE cpc = "readBody"
      <4>1. left \in Nat \ {0}
        BY <1>4, <3>2 DEF Stands, ClientAt, InBody
      <4> QED
        BY <1>1, <2>2, <2>3, <3>1, <3>2, <4>1 DEF NodeClean
    <3>3. CASE cpc = "readHeader"
      <4>1. p = lines /\ ~Precedes(Reply, p, "blank") /\ p \in Nat
            /\ Len(Reply) \in Nat
        BY <1>4, <3>3 DEF Stands, ClientAt, InHeader
      <4>2. p = Len(Reply)
        BY <1>1, <2>2, <2>3, <3>1, <3>3, <4>1 DEF NodeClean
      <4>3. PICK n : n = Len(ResponseLines(response))
        OBVIOUS
      <4>4. /\ n \in Nat /\ Len(response.body) \in Nat
            /\ Len(Reply) = n + Len(response.body)
            /\ \A i \in n..Len(Reply) : Precedes(Reply, i, "blank")
        BY <4>3, HeaderEnds DEF ReplyIInv
      <4>5. p \in n..Len(Reply)
        BY <4>2, <4>4
      <4> QED
        BY <4>1, <4>4, <4>5
    <3> QED
      BY <1>1, <3>2, <3>3
  <2>5. NodeClean'
    BY <1>1, <1>2, <1>3, <2>1, <2>2 DEF NodeClean, ChunkReads, Sent, ServerCloses
  <2> QED
    BY <1>1, <1>2, <1>3, <2>1, <2>4, <2>5 DEF Clean, CleanExchange
<1>7. ~ReceiveTimesOut
  BY DEF ReceiveTimesOut
<1> QED
  BY <1>5, <1>6, <1>7

(* The node answers what it has heard all of.                              *)
LEMMA AllHeard ==
  ASSUME RequestIInv, cpc \notin {"off", "done"}, npc = "dispatch"
  PROVE  Sent /\ up = <<>>
<1>1. Both /\ Hears
  BY DEF Both, Hears
<1>2. /\ job \in Jobs /\ sent \in 0..Len(job.body) /\ headers = RequestHeader
      /\ got = Len(job.body)
  BY <1>1 DEF RequestIInv, StreamInv, HeadInv, BodyInv
<1>3. PICK m \in Taken..Len(Request) :
        /\ up = SubSeq(Request, Taken + 1, m)
        /\ cpc \in {"start", "header"} => m = 0
        /\ cpc = "body" => m = Len(RequestHeader) + sent
  BY <1>1 DEF RequestIInv, StreamInv
<1>4. PICK H \in Nat : H = Len(RequestHeader) /\ H >= 4
  BY HeaderShape
<1>5. PICK N \in Nat : N = Len(job.body) /\ Len(Request) = H + N /\ N = got
  BY <1>2, <1>4, RequestIsSeq, JobIsRight
<1>6. Taken = H + N
  BY <1>2, <1>4, <1>5 DEF Taken
<1>7. m = H + N
  BY <1>3, <1>4, <1>5, <1>6
<1>8. up = <<>>
  BY <1>3, <1>6, <1>7, SubSeqEmpty
<1>9. cpc \notin {"start", "header"} /\ (cpc = "body" => sent = N)
  BY <1>2, <1>3, <1>4, <1>5, <1>7
<1> QED
  BY <1>5, <1>8, <1>9 DEF Sent

LEMMA CleanReadsAndAnswers ==
  ASSUME RequestIInv, ReplyIInv, Clean, npc # "off", job.valid, ~fault', Node,
         \/ ReadHeaderLine \/ ReadBodyChunk \/ BodyRead \/ ReadEnds
         \/ Callback \/ ServeStatic
  PROVE  Clean'
<1>1. /\ NodeClean /\ cpc \notin {"off", "dead"} /\ (cpc # "done" => ~error)
      /\ cpc \notin {"start", "done"} => upOpen /\ ~Misread
  BY DEF Clean
<1>2. UNCHANGED <<clientVars, answer, upOpen>> /\ npc # "listen" /\ npc' # "off"
      /\ npc' # "listen"
  BY NodeMoves DEF Node
<1>3. Hears /\ cpc \notin {"start", "done"} /\ npc # "gone"
  <2>1. Hears
    BY DEF ReadHeaderLine, ReadBodyChunk, BodyRead, ReadEnds, Reading, Callback,
           ServeStatic, Hears
  <2> QED
    BY <1>1, <1>2, <2>1 DEF NodeClean, Hears
<1>4. UNCHANGED <<cpc, error, upOpen, down, downOpen>> /\ (Misread' <=> Misread)
  BY <1>2 DEF ReadHeaderLine, ReadBodyChunk, BodyRead, ReadEnds, Callback,
              ServeStatic, clientVars, wireVars, Misread
<1>5. downOpen /\ cpc # "readBody"
  <2>1. PICK p : Stands(p)
    BY Standing
  <2>2. p = 0
    <3>1. PICK k : k = p + Len(down) /\ NodeAt(k)
      BY <2>1 DEF Stands
    <3>2. k = 0
      BY <1>3, <3>1 DEF NodeAt
    <3> QED
      BY <2>1, <3>1, <3>2 DEF Stands
  <2> QED
    BY <1>1, <1>3, <2>1, <2>2 DEF NodeClean, Stands, ClientAt, PastHeader
<1>6. CASE ReadHeaderLine \/ ReadBodyChunk \/ BodyRead
  <2>1. npc' \in {"header", "body", "dispatch"}
    <3>1. CASE ReadHeaderLine
      <4>1. npc' \in {"header", "body", "close"}
        BY <3>1 DEF ReadHeaderLine, GiveUp
      <4>2. Both
        BY <1>1 DEF Both
      <4> QED
        BY <1>2, <3>1, <4>1, <4>2, ReadHeaderStep
    <3>2. CASE ReadBodyChunk \/ BodyRead
      BY <3>2 DEF ReadBodyChunk, BodyRead
    <3> QED
      BY <1>6, <3>1, <3>2
  <2>2. NodeClean'
    BY <1>1, <1>3, <1>4, <1>5, <2>1 DEF NodeClean, Hears, ChunkReads
  <2> QED
    BY <1>1, <1>2, <1>3, <1>4, <2>2 DEF Clean, CleanExchange
<1>7. ~ReadEnds
  BY <1>1, <1>3 DEF ReadEnds
<1>8. CASE Callback \/ ServeStatic
  <2>1. npc = "dispatch" /\ up' = up
    BY <1>8 DEF Callback, ServeStatic, wireVars
  <2>2. \E r : Respond(r)
    BY <1>8 DEF Callback, ServeStatic
  <2>3. npc' = "write" /\ out' = ResponseLines(response')
    BY <2>2 DEF Respond
  <2>4. Sent /\ up = <<>>
    BY <1>1, <1>3, <2>1, AllHeard
  <2>5. Sent'
    BY <1>2, <2>4 DEF Sent, clientVars
  <2>6. Torn' => \E i \in DOMAIN out' : HasEmptyPiece(out'[i])
    BY <2>3 DEF Torn
  <2>7. NodeClean'
    BY <1>1, <1>3, <1>4, <1>5, <2>1, <2>3, <2>4, <2>5, <2>6
    DEF NodeClean, ChunkReads
  <2> QED
    BY <1>1, <1>2, <1>3, <1>4, <2>7 DEF Clean, CleanExchange
<1> QED
  BY <1>6, <1>7, <1>8

(* Where the client is while the node answers.                             *)
LEMMA ClientWaits ==
  ASSUME Clean, ClientTypeOK, npc # "off", ~Hears, cpc # "done",
         NEW p, Stands(p)
  PROVE  \/ cpc \in {"body", "readHeader"} /\ p = lines
         \/ cpc = "readBody" /\ PastHeader(p) /\ InBody(p)
<1>1. cpc \in {"body", "readHeader", "readBody"}
  BY DEF Clean, NodeClean, ClientTypeOK, Sent, ChunkReads
<1> QED
  BY <1>1 DEF Stands, ClientAt, BeforeReply, InHeader

LEMMA CleanWrites ==
  ASSUME ReplyIInv, Clean, ClientTypeOK, npc # "off", job.valid, Node, WriteLine
  PROVE  Clean'
<1>1. /\ NodeClean /\ cpc \notin {"off", "dead"} /\ (cpc # "done" => ~error)
      /\ cpc \notin {"start", "done"} => upOpen /\ ~Misread
  BY DEF Clean
<1>2. /\ UNCHANGED <<clientVars, answer, upOpen, up, downOpen, response>>
      /\ npc = "write" /\ out # <<>> /\ npc' \in {"write", "close"}
  BY NodeMoves DEF Node, WriteLine
<1>3. ~Hears /\ ~Hears' /\ npc' # "listen" /\ npc' # "off"
  BY <1>2 DEF Hears
<1>4. PICK L : L = ResponseLines(response)
  OBVIOUS
<1>5. PICK n \in Nat : n = Len(L) /\ L \in Seq(ReplyItems(response))
  BY <1>4, ReplyParts DEF ReplyIInv
<1>6. PICK p : Stands(p)
  BY Standing
<1>7. PICK k : k = p + Len(down) /\ NodeAt(k) /\ k \in Nat /\ p \in Nat
               /\ Len(down) \in Nat
  BY <1>6 DEF Stands
<1>8. k <= n /\ out = SubSeq(L, k + 1, n)
  BY <1>2, <1>4, <1>5, <1>7 DEF NodeAt
<1>9. out \in Seq(ReplyItems(response)) /\ Len(out) = n - k
      /\ (\A i \in 1..n - k : out[i] = L[k + i])
  BY <1>5, <1>7, <1>8
<1>10. k < n /\ Head(out) = L[k + 1] /\ k + 1 \in DOMAIN L
  BY <1>2, <1>5, <1>7, <1>8, <1>9
<1>11. (Torn' <=> Torn) /\ (Misread' <=> Misread)
       /\ ResponseLines(response)' = ResponseLines(response)
  BY <1>2 DEF Torn, Misread, clientVars
<1>12. UNCHANGED <<cpc, error, sent, lines, left, job>> /\ (Sent' <=> Sent)
  BY <1>2 DEF clientVars, Sent
<1>13. CleanExchange'
  <2>1. CleanExchange /\ fault' = fault /\ npc' # "off"
    BY <1>3 DEF Clean, WriteLine
  <2> QED
    BY <1>11, <1>12, <2>1 DEF CleanExchange
<1>14. CASE HasEmptyPiece(Head(out))
  <2>1. npc' = "close" /\ down' = down
    BY <1>14 DEF WriteLine
  <2>2. Torn
    BY <1>4, <1>10, <1>14 DEF Torn
  <2>3. cpc # "done" => lines + Len(down) < n
    BY <1>1, <1>3, <1>6, <1>7, <1>10, <2>2, ClientWaits DEF NodeClean
  <2>4. NodeClean'
    BY <1>1, <1>2, <1>3, <1>4, <1>5, <1>11, <1>12, <2>1, <2>2, <2>3
    DEF NodeClean
  <2> QED
    BY <1>1, <1>2, <1>3, <1>11, <1>12, <1>13, <2>4 DEF Clean
<1>15. CASE ~HasEmptyPiece(Head(out))
  <2>1. npc' = npc /\ out' = Tail(out)
    BY <1>15 DEF WriteLine
  <2>2. ASSUME Torn
        PROVE  \E i \in DOMAIN out' : HasEmptyPiece(out'[i])
    <3>1. PICK i \in DOMAIN out : HasEmptyPiece(out[i])
      BY <1>1, <1>2, <2>2 DEF NodeClean
    <3>2. PICK o \in Seq(ReplyItems(response)) : o = out
      BY <1>9
    <3>3. i # 1
      BY <1>15, <3>1, <3>2
    <3>4. i - 1 \in DOMAIN Tail(o) /\ Tail(o)[i - 1] = o[i]
      BY <1>2, <3>1, <3>2, <3>3
    <3> QED
      BY <2>1, <3>1, <3>2, <3>4
  <2>3. NodeClean'
    BY <1>1, <1>2, <1>3, <1>11, <1>12, <2>1, <2>2 DEF NodeClean
  <2> QED
    BY <1>1, <1>2, <1>3, <1>11, <1>12, <1>13, <2>3 DEF Clean
<1> QED
  BY <1>14, <1>15

LEMMA CleanBody ==
  ASSUME ReplyIInv, Clean, ClientTypeOK, npc # "off", job.valid, ~fault',
         Node, WriteBody
  PROVE  Clean'
<1>1. /\ NodeClean /\ cpc \notin {"off", "dead"} /\ (cpc # "done" => ~error)
      /\ cpc \notin {"start", "done"} => upOpen /\ ~Misread
  BY DEF Clean
<1>2. /\ UNCHANGED <<clientVars, answer, upOpen, up, downOpen, response>>
      /\ npc = "write" /\ out = <<>> /\ npc' = "close"
  BY NodeMoves DEF Node, WriteBody
<1>3. ~Hears /\ ~Hears'
  BY <1>2 DEF Hears
<1>4. PICK n : n = Len(ResponseLines(response))
  OBVIOUS
<1>5. PICK b : b = Len(response.body)
  OBVIOUS
<1>6. /\ n \in Nat /\ b \in Nat /\ n >= 8 /\ Len(Reply) = n + b
      /\ \A i \in 1..n : Reply[i].k = "blank" <=> i = n
      /\ Reply \in Seq(ReplyItems(response))
      /\ \A i \in 0..b : Bytes(SubSeq(response.body, 1, i))
                           = SubSeq(Reply, n + 1, n + i)
  BY <1>4, <1>5, HeaderEnds, ReplyParts DEF ReplyIInv
<1>7. PICK p : Stands(p)
  BY Standing
<1>8. PICK k : k = p + Len(down) /\ NodeAt(k) /\ k \in Nat /\ p \in Nat
               /\ Len(down) \in Nat
  BY <1>7 DEF Stands
<1>9. k = n
  <2>1. k <= n /\ out = SubSeq(ResponseLines(response), k + 1, n)
    BY <1>2, <1>4, <1>8 DEF NodeAt
  <2>2. ResponseLines(response) \in Seq(ReplyItems(response)) /\ k \in 0..n
    BY <1>4, <1>6, <1>8, <2>1, ReplyParts DEF ReplyIInv
  <2>3. ~(k < n)
    BY <1>2, <1>4, <2>1, <2>2, RestOf
  <2> QED
    BY <1>6, <1>8, <2>1, <2>3
<1>10. Len(down') = Len(down) + b
  <2>1. PICK i \in 0..b : /\ down' = down \o Bytes(SubSeq(response.body, 1, i))
                          /\ fault' = (fault \/ i < Len(response.body))
    BY <1>5 DEF WriteBody
  <2>2. i = b
    <3>1. ~(i < b)
      BY <1>5, <2>1, Zenon
    <3> QED
      BY <1>6, <3>1
  <2>3. down' = down \o SubSeq(Reply, n + 1, n + b)
    BY <1>6, <2>1, <2>2
  <2>4. /\ SubSeq(Reply, n + 1, n + b) \in Seq(ReplyItems(response))
        /\ Len(SubSeq(Reply, n + 1, n + b)) = b
    BY <1>6
  <2>5. \E S : down \in Seq(S)
    BY <1>7 DEF Stands
  <2> QED
    BY <1>8, <2>3, <2>4, <2>5
<1>11. ~Torn
  BY <1>1, <1>2 DEF NodeClean
<1>12. ASSUME cpc # "done"
       PROVE  Len(down') = IF cpc = "readBody" THEN left ELSE Len(Reply) - lines
  <2>1. CASE cpc \in {"body", "readHeader"} /\ p = lines
    BY <1>6, <1>8, <1>9, <1>10, <2>1
  <2>2. CASE cpc = "readBody" /\ PastHeader(p) /\ InBody(p)
    <3>1. p = n
      <4>1. n \in 1..n /\ n \in 1..Len(Reply)
        BY <1>6
      <4>2. n \notin p + 1..Len(Reply)
        BY <1>6, <2>2, <4>1 DEF InBody
      <4> QED
        BY <1>6, <1>8, <1>9, <4>1, <4>2
    <3>2. BytesIn(Reply, n) = 0
      <4>1. n \in DOMAIN Reply /\ Reply[n].k = "blank"
        BY <1>6
      <4>2. ~Precedes(Reply, n, "byte")
        BY <4>1 DEF ReplyIInv, IsResponse
      <4> QED
        BY <1>6, <4>2, BytesCounted
    <3>3. Len(resp) = 0 /\ Len(resp) + left = b /\ left \in Nat
      BY <1>2, <1>5, <2>2, <3>1, <3>2 DEF PastHeader, InBody, Answer
    <3>4. Len(down) = 0
      BY <1>6, <1>8, <1>9, <3>1
    <3>5. Len(down') = left
      BY <1>6, <1>10, <3>3, <3>4
    <3> QED
      BY <2>2, <3>5
  <2> QED
    BY <1>3, <1>7, <1>12, <2>1, <2>2, ClientWaits
<1>13. /\ (Torn' <=> Torn) /\ (Misread' <=> Misread) /\ Reply' = Reply
       /\ UNCHANGED <<cpc, error, sent, lines, left, job>> /\ (Sent' <=> Sent)
  BY <1>2 DEF Torn, Misread, Reply, clientVars, Sent
<1>14. NodeClean'
  BY <1>1, <1>2, <1>3, <1>11, <1>12, <1>13 DEF NodeClean
<1>15. CleanExchange'
  <2>1. CleanExchange /\ ~fault /\ npc' # "off"
    <3>1. fault => fault'
      BY Zenon DEF WriteBody
    <3> QED
      BY <1>2, <3>1 DEF Clean
  <2> QED
    BY <1>13, <2>1 DEF CleanExchange
<1> QED
  BY <1>1, <1>2, <1>3, <1>13, <1>14, <1>15 DEF Clean

LEMMA CleanClose ==
  ASSUME Clean, npc # "off", Node, Close
  PROVE  Clean'
<1>1. /\ NodeClean /\ cpc \notin {"off", "dead"} /\ (cpc # "done" => ~error)
      /\ cpc \notin {"start", "done"} => upOpen /\ ~Misread
  BY DEF Clean
<1>2. /\ UNCHANGED <<clientVars, answer, upOpen, up, response>>
      /\ npc = "close" /\ npc' = "gone"
  BY NodeMoves DEF Node, Close
<1>3. ~Hears /\ ~Hears'
  BY <1>2 DEF Hears
<1>4. up = <<>> /\ down' = down
  BY <1>1, <1>3 DEF NodeClean, Close
<1>5. /\ (Torn' <=> Torn) /\ (Misread' <=> Misread) /\ Reply' = Reply
      /\ UNCHANGED <<cpc, error, sent, lines, left, job>> /\ (Sent' <=> Sent)
      /\ ResponseLines(response)' = ResponseLines(response)
  BY <1>2 DEF Torn, Misread, Reply, clientVars, Sent
<1>6. NodeClean'
  BY <1>1, <1>2, <1>3, <1>4, <1>5 DEF NodeClean
<1>7. CleanExchange'
  <2>1. CleanExchange /\ fault' = fault /\ npc' # "off"
    BY <1>2 DEF Clean, Close
  <2> QED
    BY <1>5, <2>1 DEF CleanExchange
<1> QED
  BY <1>1, <1>2, <1>3, <1>5, <1>6, <1>7 DEF Clean

(* Another server's stream is all that is going to come.                   *)
LEMMA ServerSends ==
  ASSUME ReplyIInv, Clean, npc = "off", job.valid, ~job.ignoreResult, ~fault',
         \/ Establish
         \/ Client /\ (ConnectFails \/ SendHeader \/ SendBody \/ SendFails
                         \/ RequestSent)
         \/ PeerCloses
         \/ UNCHANGED vars
  PROVE  Clean'
<1>1. /\ ServerClean /\ cpc \notin {"off", "dead"} /\ (cpc # "done" => ~error)
      /\ cpc \notin {"start", "done"} => upOpen /\ ~Misread
  BY DEF Clean
<1>2. /\ UNCHANGED <<job, down, left, answer, npc>>
  BY DEF Establish, Client, PeerCloses, Connect, ConnectFails, SendHeader,
         SendBody, SendFails, RequestSent, nodeVars, readVars, clientVars, vars,
         wireVars
<1>3. Misread' <=> Misread
  BY <1>2 DEF Misread
<1>4. CASE Establish \/ SendHeader \/ SendBody \/ RequestSent
  <2>1. /\ cpc' \in {"header", "body", "readHeader"} /\ error' = error /\ upOpen'
        /\ ~Misread /\ cpc \notin {"done"} /\ downOpen' = downOpen
        /\ cpc \in {"start", "header", "body"}
    BY <1>1, <1>4 DEF Establish, Connect, SendHeader, SendBody, RequestSent
  <2>2. ServerClean'
    BY <1>1, <1>2, <2>1 DEF ServerClean
  <2> QED
    BY <1>1, <1>2, <1>3, <2>1, <2>2 DEF Clean, CleanExchange
<1>5. CASE ConnectFails
  <2>1. cpc' = "done" /\ Misread
    BY <1>5 DEF ConnectFails, Abandon, Return
  <2> QED
    BY <1>2, <1>3, <2>1 DEF Clean, CleanExchange, ServerClean
<1>6. ~SendFails
  BY <1>1 DEF SendFails, ServerClean
<1>7. CASE PeerCloses
  <2>1. /\ UNCHANGED <<cpc, error, upOpen, code, resp>> /\ (fault => fault')
        /\ cpc \notin {"start", "header", "body"}
    BY <1>1, <1>7, Zenon DEF PeerCloses, clientVars
  <2>2. ServerClean'
    BY <1>1, <1>2, <2>1 DEF ServerClean
  <2> QED
    BY <1>1, <1>2, <1>3, <2>1, <2>2 DEF Clean, CleanExchange
<1>8. CASE UNCHANGED vars
  <2>1. UNCHANGED <<cpc, error, upOpen, code, resp, fault, downOpen>>
    BY <1>8 DEF vars, clientVars, wireVars
  <2>2. ServerClean'
    BY <1>1, <1>2, <2>1 DEF ServerClean
  <2> QED
    BY <1>1, <1>2, <1>3, <2>1, <2>2 DEF Clean, CleanExchange
<1> QED
  BY <1>4, <1>5, <1>6, <1>7, <1>8

(* As many bytes as there are items behind the header.                     *)
LEMMA BytesBehind ==
  ASSUME NEW items, NEW n \in Nat, NEW q \in 0..n,
         ~Precedes(items, q, "byte"),
         \A j \in q + 1..n : items[j].k = "byte"
  PROVE  BytesIn(items, n) = n - q
<1>1. {j \in 1..n : items[j].k = "byte"} = q + 1..n
  <2>1. ASSUME NEW j \in 1..n
        PROVE  items[j].k = "byte" <=> j \in q + 1..n
    BY DEF Precedes
  <2> QED
    BY <2>1
<1>2. Cardinality(q + 1..n) = n - q
  <2>1. PICK a \in Int : a = q + 1 /\ a <= n + 1
    OBVIOUS
  <2>2. Cardinality(a..n) = IF a > n THEN 0 ELSE n - a + 1
    BY FS_Interval
  <2> QED
    BY <2>1, <2>2
<1>3. BytesIn(items, n) = Cardinality(q + 1..n)
  BY <1>1, Zenon DEF BytesIn
<1> QED
  BY <1>2, <1>3

(* What is known where the stream of another server is read.               *)
LEMMA ServerStands ==
  ASSUME ReplyIInv, npc = "off", answer \in Servers, NEW p, Stands(p)
  PROVE  /\ p + Len(down) = Len(Reply) /\ Reply = answer.items
         /\ Answer = answer /\ IsResponse(Reply, answer.code, answer.body)
         /\ answer.whole => IsWhole(Reply, answer.body)
         /\ Len(answer.body) \in Nat /\ answer.body \in Seq(ToSet(answer.body))
         /\ Len(answer.body) < Wrap
<1>1. p + Len(down) = Len(Reply)
  BY DEF Stands, NodeAt
<1>2. Reply = answer.items /\ Answer = answer
  BY DEF Reply, Answer
<1>3. answer.whole => IsWhole(Reply, answer.body)
  BY <1>2, ServersAssumption
<1>4. IsResponse(Reply, answer.code, answer.body)
  BY <1>2 DEF ReplyIInv
<1> QED
  BY <1>1, <1>2, <1>3, <1>4 DEF IsResponse, IsBody

Somewhere == \E p : Stands(p)

LEMMA StandsThen == ReplyIInv' /\ (job.valid)' => Somewhere'
<1>1. ReplyIInv /\ job.valid => Somewhere
  BY Standing DEF Somewhere
<1> QED
  BY <1>1, PTL

(* The client takes the next item of another server's stream: what is said *)
(* of it then is said of one item more.                                    *)
Takes(p) ==
  /\ Stands(p) /\ p \in Nat /\ Len(Reply) \in Nat /\ DOMAIN Reply = 1..Len(Reply)
  /\ Len(down) \in Nat /\ Len(down) >= 1 /\ p + Len(down) = Len(Reply)
  /\ p + 1 \in DOMAIN Reply /\ Head(down) = Reply[p + 1]
  /\ Len(down') = Len(down) - 1 /\ ClientAt(p + 1)'
  /\ Len(down') > 0 => /\ down' # <<>> /\ Head(down') = Reply[p + 2]
                       /\ p + 2 \in DOMAIN Reply
  /\ Reply' = Reply /\ Answer' = answer

LEMMA ServerTakes ==
  ASSUME ReplyIInv, ReplyIInv', npc = "off", answer \in Servers, job.valid,
         UNCHANGED <<npc, answer, job>>, down # <<>>, Take(1)
  PROVE  \E p : Takes(p)
<1>1. PICK p : Stands(p)
  BY Standing
<1>2. PICK q : Stands(q)'
  BY StandsThen DEF Somewhere
<1>3. Reply' = Reply /\ Answer' = answer
  BY DEF Reply, Answer
<1>4. /\ p + Len(down) = Len(Reply) /\ p \in Nat /\ Len(down) \in Nat
      /\ Len(Reply) \in Nat /\ DOMAIN Reply = 1..Len(Reply)
  BY <1>1, ServerStands DEF Stands
<1>5. /\ Head(down) = Reply[p + 1] /\ p + 1 \in DOMAIN Reply
      /\ Len(down) >= 1 /\ Len(down') = Len(down) - 1
  <2>1. 1 \in Nat /\ 1 <= Len(down)
    BY <1>1, NextItem
  <2> QED
    BY <1>1, <2>1, NextItem, LeftBehind, Zenon
<1>6. q = p + 1 /\ ClientAt(q)'
  <2>1. q + Len(down') = Len(Reply) /\ q \in Nat /\ Len(down') \in Nat
    BY <1>2, <1>3 DEF Stands, NodeAt
  <2> QED
    BY <1>2, <1>4, <1>5, <2>1 DEF Stands
<1>7. ASSUME Len(down') > 0
      PROVE  /\ down' # <<>> /\ Head(down') = Reply[p + 2]
             /\ p + 2 \in DOMAIN Reply
  <2>1. PICK d \in Seq(ToSet(Reply)) : d = down'
    BY <1>2, <1>3 DEF Stands
  <2>2. d # <<>> /\ Head(d) = d[1]
    BY <1>7, <2>1
  <2>3. d[1] = Reply[q + 1]
    BY <1>2, <1>3, <1>7, <2>1 DEF Stands
  <2>4. q + 1 = p + 2 /\ p + 2 \in DOMAIN Reply
    BY <1>4, <1>5, <1>6, <1>7
  <2> QED
    BY <2>1, <2>2, <2>3, <2>4
<1> QED
  BY <1>1, <1>3, <1>4, <1>5, <1>6, <1>7 DEF Takes

LEMMA ServerLine ==
  ASSUME ReplyIInv, ReplyIInv', Clean, npc = "off", answer \in Servers,
         job.valid, Client, ReadResponseLine
  PROVE  Clean'
<1>1. /\ cpc = "readHeader" /\ ~error /\ upOpen /\ ~Misread
  BY DEF Clean, ReadResponseLine
<1>2. /\ UNCHANGED <<npc, answer, job, error, resp>> /\ down # <<>> /\ Take(1)
  BY DEF Client, ReadResponseLine, nodeVars
<1>3. Misread' <=> Misread
  BY <1>2 DEF Misread
<1>4. PICK p : Takes(p)
  BY <1>2, ServerTakes
<1>5. /\ answer.whole => IsWhole(Reply, answer.body)
      /\ IsResponse(Reply, answer.code, answer.body)
      /\ Len(answer.body) \in Nat /\ Len(answer.body) < Wrap
      /\ answer.body \in Seq(ToSet(answer.body)) /\ Answer = answer
  BY <1>4, ServerStands DEF Takes
<1>6. /\ p = lines /\ resp = <<>> /\ (p > 0 => code = answer.code)
      /\ clen = IF Precedes(Reply, p, "length") THEN Len(answer.body) ELSE -1
      /\ chunked <=> Precedes(Reply, p, "chunked")
  BY <1>1, <1>4, <1>5 DEF Takes, Stands, ClientAt, InHeader
<1>7. PICK line : line = Reply[p + 1]
  OBVIOUS
<1>8. /\ code' = IF line.k = "status" THEN line.code ELSE code
      /\ clen' = IF line.k = "length" THEN line.n ELSE clen
      /\ chunked' = (chunked \/ line.k = "chunked")
      /\ IF line.k = "blank" /\ p > 0 THEN AfterHeader
         ELSE UNCHANGED <<cpc, left, upOpen>>
  BY <1>4, <1>6, <1>7 DEF ReadResponseLine, EndsHeader, Takes
<1>9. CASE ~(line.k = "blank" /\ p > 0)
  <2>1. cpc' = "readHeader" /\ upOpen' = upOpen
    BY <1>1, <1>8, <1>9
  <2>2. ServerClean'
    BY <2>1 DEF ServerClean
  <2> QED
    BY <1>1, <1>2, <1>3, <2>1, <2>2 DEF Clean, CleanExchange
<1>10. CASE line.k = "blank" /\ p > 0
  <2>1. AfterHeader /\ code' = answer.code /\ clen' = clen
        /\ (chunked' <=> chunked) /\ p \in Nat
    BY <1>4, <1>6, <1>8, <1>10 DEF Takes
  <2>2. ASSUME cpc' = "readBody", answer.whole
        PROVE  Len(down') = left'
    <3>1. InBody(p + 1)' /\ PastHeader(p + 1)'
      BY <1>4, <2>2 DEF Takes, ClientAt
    <3>2. /\ Len(resp') + left' = Len(answer.body) /\ left' \in Nat
          /\ \A j \in p + 1 + 1..Len(Reply) : Reply[j].k = "byte"
      BY <1>4, <3>1 DEF InBody, Takes
    <3>3. left' = Len(answer.body)
      BY <1>2, <1>5, <1>6, <3>2
    <3>4. clen >= 0
      BY <2>1, <2>2 DEF AfterHeader, Return
    <3>5. Precedes(Reply, p + 1, "length")
      <4>1. Precedes(Reply, p, "length")
        BY <1>6, <3>4
      <4> QED
        BY <2>1, <4>1 DEF Precedes
    <3>6. BytesIn(Reply, Len(Reply)) = Len(answer.body)
      BY <1>4, <1>5, <1>7, <1>10, <2>2, <3>5 DEF IsWhole, Takes
    <3>7. ~Precedes(Reply, p + 1, "byte")
      BY <1>4, <1>5, <1>7, <1>10 DEF IsResponse, Takes
    <3>8. BytesIn(Reply, Len(Reply)) = Len(Reply) - (p + 1)
      <4>1. p + 1 \in 0..Len(Reply) /\ Len(Reply) \in Nat
        BY <1>4 DEF Takes
      <4> QED
        BY <3>2, <3>7, <4>1, BytesBehind, Zenon
    <3>9. /\ p \in Nat /\ Len(down) \in Nat /\ Len(Reply) \in Nat
          /\ Len(down') = Len(down) - 1 /\ p + Len(down) = Len(Reply)
      BY <1>4, Zenon DEF Takes
    <3>10. Len(Reply) - (p + 1) = Len(down) - 1
      BY <3>9
    <3> QED
      BY <3>3, <3>6, <3>8, <3>9, <3>10, Zenon
  <2>3. ASSUME cpc' = "readSize", answer.whole
        PROVE  down' # <<>> /\ Head(down').k # "lf"
    <3>1. ~(clen >= 0) /\ chunked
      BY <2>1, <2>3 DEF AfterHeader, Return
    <3>2. ~Precedes(Reply, p + 1, "length") /\ Precedes(Reply, p + 1, "chunked")
      <4>1. ~Precedes(Reply, p, "length") /\ Precedes(Reply, p, "chunked")
        BY <1>5, <1>6, <3>1
      <4> QED
        BY <1>7, <1>10, <2>1, <4>1 DEF Precedes
    <3>3. p + 1 < Len(Reply)
      BY <1>4, <1>5, <1>7, <1>10, <2>3, <3>2 DEF IsWhole, Takes
    <3>4. KindAt(Reply, p + 1 + 1, "size")
      BY <1>4, <1>5, <1>7, <1>10, <3>2 DEF IsResponse, Takes
    <3>5. Len(down') > 0 /\ p + 1 + 1 = p + 2
      BY <1>4, <3>3 DEF Takes
    <3> QED
      BY <1>4, <3>4, <3>5 DEF Takes, KindAt
  <2>4. ASSUME cpc' = "done", answer.whole
        PROVE  code' = answer.code /\ resp' = answer.body
    <3>1. Len(answer.body) = 0
      <4>1. CASE clen >= 0
        <5>1. Unsigned(clen) = 0 /\ clen = Len(answer.body)
          BY <1>6, <2>1, <2>4, <4>1 DEF AfterHeader
        <5> QED
          BY <1>5, <5>1, UnsignedIs
      <4>2. CASE ~(clen >= 0)
        <5>1. ~chunked
          BY <2>1, <2>4, <4>2 DEF AfterHeader
        <5>2. ~Precedes(Reply, p, "length") /\ ~Precedes(Reply, p, "chunked")
          BY <1>5, <1>6, <4>2, <5>1
        <5>3. /\ ~Precedes(Reply, p + 1, "length")
              /\ ~Precedes(Reply, p + 1, "chunked")
          BY <1>7, <1>10, <2>1, <5>2 DEF Precedes
        <5>4. answer.body = <<>>
          BY <1>4, <1>5, <1>7, <1>10, <2>4, <5>3 DEF IsWhole, Takes
        <5> QED
          BY <5>4
      <4> QED
        BY <4>1, <4>2
    <3>2. answer.body = <<>>
      BY <1>5, <3>1
    <3> QED
      BY <1>2, <1>6, <2>1, <3>2
  <2>5. cpc' \in {"readBody", "readSize", "done"}
        /\ (cpc' # "done" => upOpen' = upOpen)
    BY <2>1 DEF AfterHeader, Return
  <2>6. ServerClean'
    BY <1>2, <2>2, <2>3, <2>5 DEF ServerClean
  <2> QED
    BY <1>1, <1>2, <1>3, <2>4, <2>5, <2>6 DEF Clean, CleanExchange
<1> QED
  BY <1>9, <1>10

LEMMA ServerByte ==
  ASSUME ReplyIInv, ReplyIInv', Clean, npc = "off", answer \in Servers,
         job.valid, Client, ReadBodyByte \/ ReadChunkByte
  PROVE  Clean'
<1>1. /\ cpc \in {"readBody", "readChunk"} /\ ~error /\ upOpen /\ ~Misread
      /\ ServerClean
  BY DEF Clean, ReadBodyByte, ReadChunkByte
<1>2. /\ UNCHANGED <<npc, answer, job, error, code>> /\ down # <<>> /\ Take(1)
      /\ left' = left - 1 /\ resp' = Append(resp, Head(down).b)
  BY DEF Client, ReadBodyByte, ReadChunkByte, nodeVars
<1>3. Misread' <=> Misread
  BY <1>2 DEF Misread
<1>4. PICK p : Takes(p)
  BY <1>2, ServerTakes
<1>5. Len(down') = Len(down) - 1 /\ Len(down) \in Nat
  BY <1>4 DEF Takes
<1>6. CASE ReadBodyByte
  <2>1. /\ cpc = "readBody"
        /\ IF left = 1 THEN cpc' = "done" ELSE cpc' = "readBody" /\ upOpen' = upOpen
    BY <1>6 DEF ReadBodyByte, Return
  <2>2. InBody(p) /\ PastHeader(p) /\ Holds(p)
    BY <1>4, <2>1 DEF Takes, Stands, ClientAt
  <2>3. Answer = answer /\ answer.body \in Seq(ToSet(answer.body))
        /\ Len(answer.body) \in Nat
    BY <1>4, ServerStands DEF Takes
  <2>4. left \in Nat \ {0} /\ Len(resp) + left = Len(answer.body)
        /\ code = answer.code
    BY <2>2, <2>3 DEF InBody, PastHeader
  <2>5. ASSUME left = 1
        PROVE  resp' = answer.body
    <3>1. Len(resp) \in 0..Len(answer.body)
          /\ resp = SubSeq(answer.body, 1, Len(resp))
      BY <2>2, <2>3 DEF Holds
    <3>2. PICK B \in Seq(ToSet(answer.body)) : B = answer.body
      BY <2>3
    <3>3. PICK n \in Nat : n = Len(resp) /\ n + 1 = Len(B) /\ resp = SubSeq(B, 1, n)
      <4>1. Len(resp) \in Nat /\ Len(resp) + 1 = Len(answer.body)
        BY <2>3, <2>4, <2>5, <3>1
      <4> QED
        BY <3>1, <3>2, <4>1, Zenon
    <3>4. Len(resp') = n + 1
      BY <1>2, <3>2, <3>3
    <3>5. Holds(p + 1)'
      BY <1>4 DEF Takes, ClientAt
    <3>6. resp' = SubSeq(B, 1, n + 1)
      BY <1>4, <3>2, <3>4, <3>5 DEF Holds, Takes
    <3> QED
      BY <3>2, <3>3, <3>6, SubSeqFull
  <2>6. ServerClean'
    BY <1>1, <1>2, <1>5, <2>1, <2>4 DEF ServerClean
  <2> QED
    BY <1>1, <1>2, <1>3, <2>1, <2>4, <2>5, <2>6 DEF Clean, CleanExchange
<1>7. CASE ReadChunkByte
  <2>1. /\ cpc = "readChunk" /\ upOpen' = upOpen
        /\ cpc' = IF left = 1 THEN "readCrlf" ELSE "readChunk"
    BY <1>7 DEF ReadChunkByte
  <2>2. left \in Nat \ {0}
    BY <1>4, <2>1 DEF Takes, Stands, ClientAt, InChunks, ChunkReads
  <2>3. ServerClean'
    BY <1>1, <1>2, <1>5, <2>1, <2>2 DEF ServerClean
  <2> QED
    BY <1>1, <1>2, <1>3, <2>1, <2>3 DEF Clean, CleanExchange
<1> QED
  BY <1>6, <1>7

LEMMA ServerSize ==
  ASSUME ReplyIInv, ReplyIInv', Clean, npc = "off", answer \in Servers,
         job.valid, Client, ReadSize
  PROVE  Clean'
<1>1. /\ cpc = "readSize" /\ ~error /\ upOpen /\ ~Misread /\ ServerClean
  BY DEF Clean, ReadSize
<1>2. /\ UNCHANGED <<npc, answer, job, error, code, resp>>
      /\ down # <<>> /\ Take(1)
  BY DEF Client, ReadSize, nodeVars
<1>3. Misread' <=> Misread
  BY <1>2 DEF Misread
<1>4. PICK p : Takes(p)
  BY <1>2, ServerTakes
<1>5. /\ p \in Nat /\ Len(down) \in Nat /\ p + Len(down) = Len(Reply)
      /\ Len(down') = Len(down) - 1 /\ p + 1 \in DOMAIN Reply
      /\ Head(down) = Reply[p + 1] /\ Len(Reply) \in Nat
  BY <1>4, Zenon DEF Takes
<1>6. /\ answer.whole => IsWhole(Reply, answer.body)
      /\ Len(answer.body) \in Nat /\ answer.body \in Seq(ToSet(answer.body))
      /\ Answer = answer /\ IsResponse(Reply, answer.code, answer.body)
  BY <1>4, ServerStands DEF Takes
<1>7. PICK item : item = Reply[p + 1]
  OBVIOUS
<1>8. /\ Holds(p) /\ PastHeader(p) /\ InChunks(p)
  BY <1>1, <1>4 DEF Takes, Stands, ClientAt, ChunkReads
<1>9. \/ item.k = "size"
      \/ item.k = "lf" /\ KindAt(Reply, p + 2, "size")
  BY <1>1, <1>5, <1>7, <1>8 DEF InChunks, KindAt
<1>10. IF item.k = "lf" THEN UNCHANGED <<cpc, left, upOpen>>
       ELSE IF item.n = 0 THEN Return /\ UNCHANGED left
       ELSE cpc' = "readChunk" /\ left' = item.n /\ UNCHANGED upOpen
  BY <1>5, <1>7 DEF ReadSize
<1>11. CASE item.k = "lf"
  <2>1. cpc' = "readSize" /\ upOpen' = upOpen
    BY <1>1, <1>10, <1>11
  <2>2. ASSUME answer.whole
        PROVE  down' # <<>> /\ Head(down').k # "lf"
    <3>1. Len(down) > 1
      BY <1>1, <1>5, <1>7, <1>11, <2>2 DEF ServerClean
    <3>2. Len(down') > 0
      BY <1>5, <3>1
    <3> QED
      BY <1>4, <1>9, <1>11, <3>2 DEF Takes, KindAt
  <2>3. ServerClean'
    BY <1>2, <2>1, <2>2 DEF ServerClean
  <2> QED
    BY <1>1, <1>2, <1>3, <2>1, <2>3 DEF Clean, CleanExchange
<1>12. CASE item.k = "size" /\ item.n = 0
  <2>1. cpc' = "done"
    BY <1>10, <1>12 DEF Return
  <2>2. ASSUME answer.whole
        PROVE  code = answer.code /\ resp = answer.body
    <3>1. BytesIn(Reply, p + 1) = Len(answer.body)
      BY <1>5, <1>6, <1>7, <1>12, <2>2 DEF IsWhole
    <3>2. BytesIn(Reply, p + 1) = BytesIn(Reply, p)
      <4>1. item.k # "byte"
        BY <1>12
      <4>2. PICK k \in Nat : k = p
        BY <1>5
      <4>3. /\ BytesIn(Reply, k + 1)
                  = BytesIn(Reply, k) + IF Reply[k + 1].k = "byte" THEN 1 ELSE 0
            /\ BytesIn(Reply, k) \in Nat
        BY BytesCounted, Zenon
      <4> QED
        BY <1>7, <4>1, <4>2, <4>3
    <3>3. Len(resp) = Len(answer.body) /\ code = answer.code
      BY <1>6, <1>8, <3>1, <3>2 DEF PastHeader
    <3>4. resp = SubSeq(answer.body, 1, Len(answer.body))
      BY <1>6, <1>8, <3>3 DEF Holds
    <3> QED
      BY <1>6, <3>3, <3>4, SubSeqFull
  <2>3. ServerClean'
    BY <2>1 DEF ServerClean
  <2> QED
    BY <1>1, <1>2, <1>3, <2>1, <2>2, <2>3 DEF Clean, CleanExchange
<1>13. CASE item.k = "size" /\ item.n # 0
  <2>1. cpc' = "readChunk" /\ upOpen' = upOpen /\ left' = item.n
    BY <1>10, <1>13
  <2>2. ASSUME answer.whole
        PROVE  left' + 3 <= Len(down')
    <3>1. p + 1 + item.n + 3 <= Len(Reply)
      BY <1>5, <1>6, <1>7, <1>13, <2>2 DEF IsWhole
    <3>2. item.n \in Nat
      BY <1>5, <1>6, <1>7, <1>13 DEF IsResponse
    <3> QED
      BY <1>5, <2>1, <3>1, <3>2
  <2>3. ServerClean'
    BY <1>2, <2>1, <2>2 DEF ServerClean
  <2> QED
    BY <1>1, <1>2, <1>3, <2>1, <2>3 DEF Clean, CleanExchange
<1> QED
  BY <1>9, <1>11, <1>12, <1>13

LEMMA ServerCrlf ==
  ASSUME ReplyIInv, ReplyIInv', Clean, npc = "off", answer \in Servers,
         job.valid, Client, ReadCrlf
  PROVE  Clean'
<1>1. /\ cpc = "readCrlf" /\ ~error /\ upOpen /\ ~Misread /\ ServerClean
  BY DEF Clean, ReadCrlf
<1>2. /\ UNCHANGED <<npc, answer, job, error, upOpen>> /\ cpc' = "readSize"
  BY DEF Client, ReadCrlf, nodeVars
<1>3. Misread' <=> Misread
  BY <1>2 DEF Misread
<1>4. PICK n \in 1..2 : n <= Len(down) /\ Take(n)
  BY DEF ReadCrlf
<1>5. PICK p : Stands(p)
  BY Standing
<1>6. PICK q : Stands(q)'
  BY <1>2, StandsThen DEF Somewhere
<1>7. Reply' = Reply /\ Answer' = Answer
  BY <1>2 DEF Reply, Answer
<1>8. /\ p \in Nat /\ Len(down) \in Nat /\ p + Len(down) = Len(Reply)
      /\ DOMAIN Reply = 1..Len(Reply) /\ Len(Reply) \in Nat
      /\ KindAt(Reply, p + 1 + 2, "size")
  BY <1>1, <1>5, ServerStands
  DEF Stands, ClientAt, InChunks, ChunkReads, CrlfAt
<1>9. Len(down') = Len(down) - n
  BY <1>4, <1>5, LeftBehind
<1>10. ASSUME answer.whole
       PROVE  down' # <<>> /\ (Head(down').k = "lf" => Len(down') > 1)
  <2>1. Len(down) >= 3
    BY <1>1, <1>8, <1>10 DEF ServerClean
  <2>2. CASE n = 1
    BY <1>8, <1>9, <2>1, <2>2
  <2>3. CASE n = 2
    <3>1. PICK d \in Seq(ToSet(Reply)) : d = down'
      BY <1>6, <1>7 DEF Stands
    <3>2. Len(d) >= 1 /\ d # <<>> /\ Head(d) = d[1]
      BY <1>8, <1>9, <2>1, <2>3, <3>1
    <3>3. q + Len(d) = Len(Reply) /\ q \in Nat
      BY <1>2, <1>6, <1>7, <3>1 DEF Stands, NodeAt
    <3>4. d[1] = Reply[q + 1]
      BY <1>6, <1>7, <3>1, <3>2 DEF Stands
    <3>5. q + 1 = p + 1 + 2 /\ q + 1 \in DOMAIN Reply
      BY <1>8, <1>9, <2>3, <3>1, <3>2, <3>3
    <3> QED
      BY <1>8, <3>1, <3>2, <3>4, <3>5 DEF KindAt
  <2> QED
    BY <2>2, <2>3
<1>11. ServerClean'
  BY <1>2, <1>10 DEF ServerClean
<1> QED
  BY <1>1, <1>2, <1>3, <1>11 DEF Clean, CleanExchange

(* The end of another server's stream: of a whole one the client has read  *)
(* all before.                                                             *)
LEMMA ServerEnds ==
  ASSUME ReplyIInv, Clean, npc = "off", answer \in Servers, job.valid,
         Client, ServerCloses
  PROVE  Clean'
<1>1. ServerClean /\ cpc \in ChunkReads \cup {"readHeader", "readBody"}
  BY DEF Clean, ServerCloses, Receiving, ChunkReads
<1>2. /\ UNCHANGED <<npc, answer, job>> /\ cpc' = "done" /\ down = <<>>
  BY DEF Client, ServerCloses, Abandon, Return, nodeVars
<1>3. PICK p : Stands(p)
  BY Standing
<1>4. Len(down) = 0
  BY <1>2
<1>5. /\ p = Len(Reply) /\ (answer.whole => IsWhole(Reply, answer.body))
  <2>1. p + Len(down) = Len(Reply) /\ p \in Nat
    BY <1>3, ServerStands DEF Stands
  <2> QED
    BY <1>3, <1>4, <2>1, ServerStands
<1>6. ~answer.whole
  <2>1. SUFFICES ASSUME answer.whole
                 PROVE  FALSE
    OBVIOUS
  <2>2. CASE cpc = "readHeader"
    BY <1>3, <1>5, <2>1, <2>2 DEF Stands, ClientAt, InHeader, IsWhole
  <2>3. CASE cpc = "readBody"
    BY <1>1, <1>3, <1>4, <2>1, <2>3 DEF ServerClean, Stands, ClientAt, InBody
  <2>4. CASE cpc = "readChunk"
    BY <1>1, <1>3, <1>4, <2>1, <2>4
    DEF ServerClean, Stands, ClientAt, InChunks, ChunkReads
  <2>5. CASE cpc \in {"readSize", "readCrlf"}
    BY <1>1, <1>2, <1>4, <2>1, <2>5 DEF ServerClean
  <2> QED
    BY <1>1, <2>2, <2>3, <2>4, <2>5 DEF ChunkReads
<1> QED
  BY <1>2, <1>6 DEF Clean, CleanExchange, ServerClean

LEMMA CleanInit ==
  ASSUME Init
  PROVE  CleanIInv
<1>1. npc = "off" => answer \in Servers
  BY DEF Init, BothInit, StrangerInit, ServerInit
<1>2. ASSUME job.valid
      PROVE  Clean
  <2>1. cpc = "start" /\ ~error /\ downOpen /\ npc \in {"listen", "off"}
    BY <1>2 DEF Init, BothInit, StrangerInit, ServerInit, ClientInit
  <2>2. npc = "listen" => NodeClean
    BY <2>1 DEF NodeClean, Hears, ChunkReads
  <2>3. npc = "off" => ServerClean
    BY <2>1 DEF ServerClean
  <2> QED
    BY <2>1, <2>2, <2>3 DEF Clean, CleanExchange
<1> QED
  BY <1>1, <1>2 DEF CleanIInv

LEMMA CleanNext ==
  ASSUME TypeIInv, RequestIInv, ReplyIInv, CleanIInv, [Next]_vars
  PROVE  CleanIInv'
<1>1. /\ answer' = answer /\ job' = job /\ (npc' = "off" <=> npc = "off")
  <2>1. CASE Establish
    BY <2>1 DEF Establish, Connect
  <2>2. CASE Client \/ Dies
    BY <2>2, ClientMoves DEF Client, Dies, nodeVars
  <2>3. CASE Node
    BY <2>3, NodeMoves DEF Node, clientVars
  <2>4. CASE PeerCloses \/ UNCHANGED vars
    BY <2>4 DEF PeerCloses, vars, nodeVars, clientVars
  <2> QED
    BY <2>1, <2>2, <2>3, <2>4 DEF Next
<1>2. npc' = "off" => answer' \in Servers
  BY <1>1 DEF CleanIInv
<1>3. fault => fault'
  <2>1. CASE Establish \/ Client \/ Dies
    BY <2>1, Zenon
    DEF Establish, Client, Dies, Connect, ConnectFails, SendFails, ClientStep,
        ClientRuns, InvalidEndpoint, SendHeader, SendBody, RequestSent,
        ReadResponseLine, ReadBodyByte, ReadSize, ReadChunkByte, ReadCrlf,
        ServerCloses, ReceiveTimesOut, ClientDies
  <2>2. CASE Node
    BY <2>2, Zenon
    DEF Node, NodeStep, NodeRuns, ReadHeaderLine, ReadBodyChunk, BodyRead,
        ReadEnds, Callback, ServeStatic, WriteLine, WriteBody, Close,
        ReserveThrows, ReadTimesOut, WriteFails, wireVars
  <2>3. CASE PeerCloses \/ UNCHANGED vars
    BY <2>3, Zenon DEF PeerCloses, vars, wireVars
  <2> QED
    BY <2>1, <2>2, <2>3 DEF Next
<1>4. ASSUME ~fault', job.valid, ~job.ignoreResult
      PROVE  Clean'
  <2>1. Clean /\ ReplyIInv' /\ NodeTypeOK /\ ClientTypeOK
    BY <1>3, <1>4, ReplyNext DEF CleanIInv, TypeIInv, TypeOK
  <2>2. ~Dies /\ ~ReceiveTimesOut /\ ~ReserveThrows /\ ~ReadTimesOut
        /\ ~WriteFails /\ ~InvalidEndpoint
    BY <1>4 DEF Dies, ClientDies, ReceiveTimesOut, ReserveThrows, ReadTimesOut,
                WriteFails, InvalidEndpoint
  <2>3. CASE npc # "off"
    <3>1. CASE Establish \/ Client
      <4>1. CASE \/ Establish
                 \/ Client /\ (ConnectFails \/ SendHeader \/ SendBody
                                 \/ SendFails \/ RequestSent)
        BY <1>4, <2>1, <2>3, <4>1, CleanSends
      <4>2. CASE Client /\ ReadResponseLine
        BY <1>4, <2>1, <2>3, <4>2, CleanLine
      <4>3. CASE Client /\ (ReadBodyByte \/ ServerCloses)
        BY <1>4, <2>1, <2>3, <4>3, CleanByte
      <4>4. ~ReadSize /\ ~ReadChunkByte /\ ~ReadCrlf
        BY <2>1, <2>3 DEF Clean, NodeClean, ChunkReads, ReadSize, ReadChunkByte,
                          ReadCrlf
      <4> QED
        BY <2>2, <3>1, <4>1, <4>2, <4>3, <4>4
        DEF Client, ClientStep, ClientRuns
    <3>2. CASE Node
      <4>1. CASE \/ ReadHeaderLine \/ ReadBodyChunk \/ BodyRead \/ ReadEnds
                 \/ Callback \/ ServeStatic
        BY <1>4, <2>1, <2>3, <3>2, <4>1, CleanReadsAndAnswers
      <4>2. CASE WriteLine
        BY <1>4, <2>1, <2>3, <3>2, <4>2, CleanWrites
      <4>3. CASE WriteBody
        BY <1>4, <2>1, <2>3, <3>2, <4>3, CleanBody
      <4>4. CASE Close
        BY <2>1, <2>3, <3>2, <4>4, CleanClose
      <4> QED
        BY <2>2, <3>2, <4>1, <4>2, <4>3, <4>4 DEF Node, NodeStep, NodeRuns
    <3>3. ~PeerCloses
      BY <2>1, <2>3 DEF PeerCloses, Clean
    <3>4. CASE UNCHANGED vars
      <4>1. /\ UNCHANGED <<up, upOpen, down, downOpen, fault, npc, response, out>>
            /\ UNCHANGED <<job, cpc, sent, lines, left, code, resp, error>>
        BY <3>4 DEF vars, wireVars, nodeVars, clientVars
      <4>2. /\ (Torn' <=> Torn) /\ (Misread' <=> Misread) /\ Reply' = Reply
            /\ (Sent' <=> Sent) /\ (Hears' <=> Hears)
            /\ ResponseLines(response)' = ResponseLines(response)
        BY <1>1, <4>1 DEF Torn, Misread, Reply, Sent, Hears
      <4>3. NodeClean'
        BY <2>1, <2>3, <4>1, <4>2 DEF Clean, NodeClean
      <4>4. CleanExchange'
        BY <1>1, <2>1, <4>1, <4>2 DEF Clean, CleanExchange
      <4> QED
        BY <2>1, <2>3, <4>1, <4>2, <4>3, <4>4 DEF Clean
    <3> QED
      BY <2>2, <3>1, <3>2, <3>3, <3>4 DEF Next
  <2>4. CASE npc = "off"
    <3>1. answer \in Servers
      BY <2>4 DEF CleanIInv
    <3>2. CASE \/ Establish
               \/ Client /\ (ConnectFails \/ SendHeader \/ SendBody
                               \/ SendFails \/ RequestSent)
               \/ PeerCloses
               \/ UNCHANGED vars
      BY <1>4, <2>1, <2>4, <3>2, ServerSends
    <3>3. CASE Client /\ ReadResponseLine
      BY <1>4, <2>1, <2>4, <3>1, <3>3, ServerLine
    <3>4. CASE Client /\ (ReadBodyByte \/ ReadChunkByte)
      BY <1>4, <2>1, <2>4, <3>1, <3>4, ServerByte
    <3>5. CASE Client /\ ReadSize
      BY <1>4, <2>1, <2>4, <3>1, <3>5, ServerSize
    <3>6. CASE Client /\ ReadCrlf
      BY <1>4, <2>1, <2>4, <3>1, <3>6, ServerCrlf
    <3>7. CASE Client /\ ServerCloses
      BY <1>4, <2>1, <2>4, <3>1, <3>7, ServerEnds
    <3>8. ~Node
      BY <2>4, NodeMoves
    <3> QED
      BY <2>2, <3>2, <3>3, <3>4, <3>5, <3>6, <3>7, <3>8
      DEF Next, Client, ClientStep, ClientRuns
  <2> QED
    BY <2>3, <2>4
<1> QED
  BY <1>1, <1>2, <1>4 DEF CleanIInv

-----------------------------------------------------------------------------
(* The call of the endpoint, and the client that it is for. *)

LEMMA CallInit ==
  ASSUME Init
  PROVE  CallIInv
BY DEF Init, NodeInit, BothInit, StrangerInit, ServerInit, CallIInv, Both

LEMMA CallNext ==
  ASSUME CallIInv, [Next]_vars
  PROVE  CallIInv'
<1>1. CASE Establish
  BY <1>1 DEF Establish, Connect, CallIInv, Hears, Both
<1>2. CASE Client \/ Dies
  <2>1. /\ UNCHANGED <<npc, called, job>>
        /\ cpc # "off" /\ cpc' # "off"
    BY <1>2, ClientMoves DEF nodeVars
  <2>2. cpc' # "start"
    BY <1>2, ClientMoves DEF SendHeader, SendBody
  <2> QED
    BY <2>1, <2>2 DEF CallIInv, Hears, Both
<1>3. CASE Node
  <2>1. UNCHANGED <<cpc, job>> /\ npc \notin {"off", "listen"}
    BY <1>3, NodeMoves DEF clientVars
  <2>2. Hears' => Hears /\ called' = called
    BY <1>3, NodeMoves
    DEF ReadHeaderLine, ReadBodyChunk, BodyRead, Callback, Respond, Hears
  <2> QED
    BY <2>1, <2>2 DEF CallIInv, Both
<1>4. CASE PeerCloses \/ UNCHANGED vars
  BY <1>4 DEF PeerCloses, vars, nodeVars, clientVars, CallIInv, Hears, Both
<1> QED
  BY <1>1, <1>2, <1>3, <1>4 DEF Next

-----------------------------------------------------------------------------
(* The types of both ends, the bytes the node counts and the numbers the   *)
(* client reads, and with them the whole invariant (CNode.cpp:242-322,     *)
(* CClient.cpp:82-453).                                                    *)
THEOREM HttpInvariance == Spec => []HttpIInv
<1>1. Init => HttpIInv
  BY TypeInit, RequestInit, CallInit, ReplyInit, CleanInit DEF HttpIInv
<1>2. HttpIInv /\ [Next]_vars => HttpIInv'
  BY TypeNext, RequestNext, CallNext, ReplyNext, CleanNext DEF HttpIInv
<1> QED
  BY <1>1, <1>2, PTL DEF Spec

(* When no one was late and nothing failed, runRequest() prints a "Socket  *)
(* error" only for an endpoint that it misreads (CClient.cpp:150) or a     *)
(* response that the node cuts off at an empty piece (CNode.cpp:159, 191,  *)
(* 219); and it decodes a whole stream of another server, with a length or *)
(* in chunks, to its body (CClient.cpp:355-432).                           *)
THEOREM HttpCleanExchange == Spec => []CleanExchange
<1>1. HttpIInv => CleanExchange
  BY DEF HttpIInv, CleanIInv, Clean, CleanExchange
<1> QED
  BY <1>1, HttpInvariance, PTL

-----------------------------------------------------------------------------
(* HttpExchange implements Request. *)

(* Of the node's steps the two that respond write a response, and a node   *)
(* that heard enough hears no more.                                        *)
LEMMA NodeResponds ==
  ASSUME Node, ~Callback, ~ServeStatic
  PROVE  UNCHANGED <<called, response>> /\ (Hears' => Hears)
<1>1. CASE ReadHeaderLine \/ ReadBodyChunk \/ BodyRead
  BY <1>1 DEF ReadHeaderLine, ReadBodyChunk, BodyRead, GiveUp, Hears
<1>2. CASE ReserveThrows \/ ReadTimesOut \/ ReadEnds
  BY <1>2 DEF ReserveThrows, ReadTimesOut, ReadEnds, GiveUp, Hears
<1>3. CASE WriteLine \/ WriteBody \/ WriteFails \/ Close
  BY <1>3 DEF WriteLine, WriteBody, WriteFails, Close, Hears
<1> QED
  BY <1>1, <1>2, <1>3 DEF Node, NodeStep, NodeRuns

LEMMA AnswerSettled == absAnswer.settled <=> ~Hears
BY DEF absAnswer, Hears

(* An exchange none of whose state changes is the same to Request. *)
LEMMA SameAnswer ==
  ASSUME UNCHANGED <<npc, response, answer>>
  PROVE  absAnswer' = absAnswer
BY DEF absAnswer, Answer

LEMMA SameResult ==
  ASSUME UNCHANGED clientVars
  PROVE  absResult' = absResult
BY DEF absResult, clientVars

LEMMA PeerAbs ==
  ASSUME PeerCloses \/ UNCHANGED vars
  PROVE  UNCHANGED Abs!vars
<1>1. UNCHANGED <<nodeVars, clientVars, answer>>
  BY DEF PeerCloses, vars
<1>2. UNCHANGED <<npc, response, called, job, cpc>>
  BY <1>1 DEF nodeVars, clientVars
<1> QED
  BY <1>1, <1>2, SameAnswer, SameResult DEF Abs!vars

LEMMA EstablishAbs ==
  ASSUME Establish
  PROVE  UNCHANGED Abs!vars
<1>1. /\ UNCHANGED <<called, response, answer, job>>
      /\ cpc = "start" /\ cpc' = "header"
      /\ npc' = npc \/ (npc = "listen" /\ npc' = "header")
  BY DEF Establish, Connect
<1>2. absAnswer' = absAnswer /\ absResult' = absResult
  BY <1>1 DEF absAnswer, absResult, Answer
<1> QED
  BY <1>1, <1>2 DEF Abs!vars

(* The endpoint is called with what was asked. *)
LEMMA CallbackAbs ==
  ASSUME HttpIInv, HttpIInv', Node, Callback
  PROVE  Abs!Run
<1>1. UNCHANGED clientVars /\ UNCHANGED <<job, cpc>>
  BY NodeMoves DEF clientVars
<1>2. absResult' = absResult
  BY <1>1, SameResult
<1>3. Hears /\ ~Hears' /\ npc \notin {"off", "listen"}
  BY DEF Callback, Respond, Hears
<1>4. ~absAnswer.settled /\ (absAnswer').settled
  BY <1>3, AnswerSettled DEF absAnswer, Hears
<1>5. called = NotCalled
  BY <1>3 DEF HttpIInv, CallIInv
<1>6. called' # NotCalled
  <2>1. "method" \in DOMAIN called'
    BY DEF Callback
  <2>2. "method" \notin DOMAIN NotCalled
    BY DEF NotCalled
  <2> QED
    BY <2>1, <2>2
<1>7. cpc # "off" => Abs!AsAsked(called')
  <2>1. ASSUME cpc # "off"
        PROVE  job.valid
    BY <1>3, <2>1 DEF HttpIInv, CallIInv, Both
  <2>2. WholeRequest'
    BY DEF HttpIInv, RequestIInv
  <2> QED
    BY <1>1, <1>6, <2>1, <2>2
    DEF WholeRequest, Abs!AsAsked, Abs!ToSet, ToSet
<1> QED
  BY <1>1, <1>2, <1>4, <1>5, <1>6, <1>7 DEF Abs!Run

LEMMA NodeAbs ==
  ASSUME HttpIInv, HttpIInv', Node
  PROVE  Abs!Run \/ Abs!Settle \/ UNCHANGED Abs!vars
<1>1. /\ UNCHANGED clientVars /\ UNCHANGED <<job, cpc, answer>>
      /\ npc \notin {"off", "listen"}
  BY NodeMoves DEF clientVars, Node
<1>2. absResult' = absResult
  BY <1>1, SameResult
<1>3. ASSUME called' = called, Hears, ~Hears'
      PROVE  Abs!Settle
  <2>1. ~absAnswer.settled /\ (absAnswer').settled
    BY <1>3, AnswerSettled DEF absAnswer, Hears
  <2>2. cpc # "off" => job.valid
    BY <1>1 DEF HttpIInv, CallIInv, Both
  <2> QED
    BY <1>1, <1>2, <1>3, <2>1, <2>2 DEF Abs!Settle
<1>4. CASE Callback
  BY <1>4, CallbackAbs
<1>5. CASE ServeStatic
  BY <1>3, <1>5 DEF ServeStatic, Respond, Hears
<1>6. CASE ~Callback /\ ~ServeStatic
  <2>1. UNCHANGED <<called, response>> /\ (Hears' => Hears)
    BY <1>6, NodeResponds
  <2>2. ASSUME Hears' <=> Hears
        PROVE  UNCHANGED Abs!vars
    <3>1. npc' # "off"
      BY NodeMoves
    <3>2. absAnswer' = absAnswer
      BY <1>1, <2>1, <2>2, <3>1 DEF absAnswer, Answer, Hears
    <3> QED
      BY <1>1, <1>2, <2>1, <3>2 DEF Abs!vars
  <2> QED
    BY <1>3, <2>1, <2>2
<1> QED
  BY <1>4, <1>5, <1>6

(* What runRequest() does before it returns, and when. *)
LEMMA ClientGoesOn ==
  ASSUME Client \/ Dies
  PROVE  /\ cpc # "done"
         /\ cpc = "start" => ConnectFails \/ InvalidEndpoint
         /\ InvalidEndpoint => code' = 200 /\ resp' = <<>>
<1>1. CASE Dies
  BY <1>1 DEF Dies, ClientDies, InvalidEndpoint
<1>2. CASE ConnectFails \/ InvalidEndpoint
  BY <1>2 DEF ConnectFails, InvalidEndpoint, Default
<1>3. CASE SendHeader \/ SendBody \/ SendFails \/ RequestSent
  BY <1>3 DEF SendHeader, SendBody, SendFails, RequestSent, InvalidEndpoint
<1>4. CASE ReadResponseLine \/ ReadBodyByte \/ ReadSize
  BY <1>4 DEF ReadResponseLine, ReadBodyByte, ReadSize, InvalidEndpoint
<1>5. CASE ReadChunkByte \/ ReadCrlf \/ ServerCloses \/ ReceiveTimesOut
  BY <1>5
  DEF ReadChunkByte, ReadCrlf, ServerCloses, ReceiveTimesOut, Receiving,
      InvalidEndpoint
<1> QED
  BY <1>1, <1>2, <1>3, <1>4, <1>5 DEF Client, ClientStep, ClientRuns

(* It returns nothing of an answer that there is not yet. *)
LEMMA NothingYet ==
  ASSUME ReplyIInv, job.valid, Hears
  PROVE  code = 0 /\ resp = <<>> /\ clen = -1
<1>1. PICK p, m \in 0..Len(Reply) : Between(p, m) /\ NodeAt(m) /\ ClientAt(p)
  BY DEF ReplyIInv
<1>2. m = 0 /\ p \in Nat /\ p <= m
  BY <1>1 DEF NodeAt, Between
<1>3. p = 0
  BY <1>2
<1> QED
  BY <1>1, <1>3 DEF ClientAt, Holds

NoneRead == code = 0 /\ resp = <<>> /\ clen = -1

LEMMA NothingThen == ReplyIInv' /\ (job.valid)' /\ Hears' => NoneRead'
<1>1. ReplyIInv /\ job.valid /\ Hears => NoneRead
  BY NothingYet DEF NoneRead
<1> QED
  BY <1>1, PTL

LEMMA ResultThen == ReplyIInv' => ResultIsAnswer'
<1>1. ReplyIInv => ResultIsAnswer
  BY ReplyResult
<1> QED
  BY <1>1, PTL

LEMMA ReturnAbs ==
  ASSUME HttpIInv, HttpIInv', Client \/ Dies, cpc' = "done"
  PROVE  Abs!Return \/ Abs!Refuse
<1>1. /\ UNCHANGED <<npc, response, called, job, answer>>
      /\ cpc # "off" /\ cpc # "done"
  BY ClientMoves, ClientGoesOn DEF nodeVars, Client, Dies
<1>2. absAnswer' = absAnswer
  BY <1>1, SameAnswer
<1>3. /\ absResult.returned = FALSE
      /\ absResult' = [returned |-> TRUE, code |-> code', body |-> resp',
                       whole |-> ~error' /\ ~job.ignoreResult /\ clen' >= 0]
  BY <1>1 DEF absResult
<1>4. CASE job.valid
  <2>1. ReplyIInv' /\ job'.valid
    BY <1>1, <1>4 DEF HttpIInv
  <2>2. ResultIsAnswer'
    BY ResultThen, <2>1
  <2>3. CASE Hears
    <3>1. Hears'
      BY <1>1, <2>3 DEF Hears
    <3>2. code' = 0 /\ resp' = <<>> /\ clen' = -1
      BY <2>1, <3>1, NothingThen DEF NoneRead
    <3>3. Abs!IsOf(absResult')
      <4>1. ~absAnswer.settled
        BY <2>3, AnswerSettled
      <4>2. (absResult').code = 0 /\ (absResult').body = <<>>
        BY <1>3, <3>2
      <4>3. ~(absResult').whole
        <5>1. (absResult').whole = (~error' /\ ~job.ignoreResult /\ clen' >= 0)
          BY <1>3, Zenon
        <5>2. ~(clen' >= 0)
          BY <3>2
        <5> QED
          BY <5>1, <5>2, Zenon
      <4> QED
        BY <4>1, <4>2, <4>3 DEF Abs!IsOf
    <3> QED
      BY <1>1, <1>2, <1>3, <1>4, <3>3 DEF Abs!Return
  <2>4. CASE ~Hears
    <3>1. absAnswer.code = Answer' .code /\ absAnswer.body = Answer' .body
      BY <1>1 DEF absAnswer, Answer
    <3>2. Abs!IsOf(absResult')
      BY <1>1, <1>3, <2>1, <2>2, <2>4, <3>1, AnswerSettled
      DEF Abs!IsOf, ResultIsAnswer, Abs!IsPrefix, IsPrefix
    <3> QED
      BY <1>1, <1>2, <1>3, <1>4, <3>2 DEF Abs!Return
  <2> QED
    BY <2>3, <2>4
<1>5. CASE ~job.valid
  <2>1. cpc = "start"
    BY <1>1, <1>5 DEF HttpIInv, TypeIInv
  <2>2. code' = 200 /\ resp' = <<>>
    BY <1>5, <2>1, ClientGoesOn DEF ConnectFails
  <2> QED
    BY <1>1, <1>2, <1>3, <1>5, <2>2 DEF Abs!Refuse
<1> QED
  BY <1>4, <1>5

LEMMA ClientAbs ==
  ASSUME HttpIInv, HttpIInv', Client \/ Dies
  PROVE  Abs!Return \/ Abs!Refuse \/ UNCHANGED Abs!vars
<1>1. /\ UNCHANGED <<npc, response, called, job, answer>>
      /\ cpc # "off" /\ cpc' # "off" /\ cpc # "done"
  BY ClientMoves, ClientGoesOn DEF nodeVars, Client, Dies
<1>2. CASE cpc' # "done"
  <2>1. absResult' = absResult
    BY <1>1, <1>2 DEF absResult
  <2> QED
    BY <1>1, <2>1, SameAnswer DEF Abs!vars
<1> QED
  BY <1>2, ReturnAbs

(* One request over one connection is what Request says it is: an endpoint *)
(* is called at most once, with what was asked and to the last byte, and   *)
(* what runRequest() returns is of the one answer, whichever end gave up,  *)
(* before the call or behind it, and whatever was late, lost or cut off    *)
(* (CNode.cpp:43-154, 242-395, CClient.cpp:82-453).                        *)
THEOREM HttpRefinesRequest == Spec => ImplementsRequest
<1>1. Init => Abs!Init
  <2> SUFFICES ASSUME Init
               PROVE  Abs!Init
    OBVIOUS
  <2>1. called = NotCalled /\ cpc # "done"
    BY DEF Init, NodeInit, BothInit, StrangerInit, ServerInit
  <2>2. absAnswer.settled => cpc # "off"
    BY DEF Init, BothInit, StrangerInit, ServerInit, absAnswer
  <2>3. ~absResult.returned
    BY <2>1 DEF absResult
  <2> QED
    BY <2>1, <2>2, <2>3 DEF Abs!Init
<1>2. HttpIInv /\ HttpIInv' /\ [Next]_vars => [Abs!Next]_(Abs!vars)
  BY EstablishAbs, ClientAbs, NodeAbs, PeerAbs DEF Next, Abs!Next
<1> QED
  BY <1>1, <1>2, HttpInvariance, PTL DEF Spec, Abs!Spec, ImplementsRequest
=============================================================================
