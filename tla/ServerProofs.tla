---------------------------- MODULE ServerProofs ----------------------------
(***************************************************************************)
(* Theorems about Server for every set of clients and stop() calls, every  *)
(* thread limit and every width of ThreadCount.                            *)
(***************************************************************************)
EXTENDS ServerInv, RawVectorProofs

-----------------------------------------------------------------------------
(* Facts about the operators the model is built from. *)

(* The peers are finitely many, so a set of them has a natural number of   *)
(* elements, which grows with the set (the counters of CServer count them).*)
LEMMA PeersFinite ==
  /\ IsFiniteSet(Peers)
  /\ Cardinality(Peers) \in Nat
  /\ \A S \in SUBSET Peers :
       /\ IsFiniteSet(S)
       /\ Cardinality(S) \in Nat
       /\ Cardinality(S) <= Cardinality(Peers)
<1>1. IsFiniteSet(Peers)
  BY ServerAssumption, FS_Union DEF Peers
<1>2. Cardinality(Peers) \in Nat
  BY <1>1, FS_CardinalityType
<1>3. ASSUME NEW S \in SUBSET Peers
      PROVE  IsFiniteSet(S) /\ Cardinality(S) \in Nat
             /\ Cardinality(S) <= Cardinality(Peers)
  BY <1>1, FS_Subset, FS_CardinalityType
<1>4. QED
  BY <1>1, <1>2, <1>3

(* One more peer makes a set of peers one larger.                          *)
LEMMA OneMore ==
  ASSUME NEW S \in SUBSET Peers, NEW p \in Peers, p \notin S
  PROVE  Cardinality(S \cup {p}) = Cardinality(S) + 1
BY PeersFinite, FS_AddElement

(* ThreadCount++ and ThreadCount-- on an unsigned wrap at its ends.        *)
LEMMA Unsigned ==
  ASSUME NEW n \in 0..(CountMod - 1)
  PROVE  /\ (n + 1) % CountMod = IF n = CountMod - 1 THEN 0 ELSE n + 1
         /\ (n + CountMod - 1) % CountMod
              = IF n = 0 THEN CountMod - 1 ELSE n - 1
         /\ (n + 1) % CountMod \in 0..(CountMod - 1)
         /\ (n + CountMod - 1) % CountMod \in 0..(CountMod - 1)
BY ServerAssumption, PeersFinite

-----------------------------------------------------------------------------
(* Types, and the bound of the vector they rest on. *)

(* The pushes already stored are counted by a natural number, at most one  *)
(* for each peer.                                                          *)
LEMMA PushedSize ==
  /\ Cardinality(Pushed) \in Nat
  /\ Cardinality(Pushed) <= Cardinality(Peers)
  /\ Cardinality(Peers) \in Nat
BY PeersFinite DEF Pushed

(* What TypeOK says of the two records.                                    *)
LEMMA RecordTypes ==
  ASSUME TypeOK
  PROVE  /\ Nodes.at \in [1..Cardinality(Peers) -> Peers \cup {None}]
         /\ Nodes.fin \in Nat
         /\ \A p \in Peers : slot[p].k \in Nat /\ slot[p].f \in Nat
BY DEF TypeOK

(* ++it of an iterator.                                                    *)
LEMMA NextSlot ==
  ASSUME NEW r \in [k : Nat, f : Nat], NEW n \in Nat
  PROVE  [r EXCEPT !.k = n] \in [k : Nat, f : Nat]
OBVIOUS

(* Every PushWrite stores a finish at most one above the pushes already    *)
(* stored, so the vector never outgrows one element for each peer.         *)
LEMMA PushedGrows ==
  ASSUME TypeOK, NEW p \in Peers, PushWrite(p)
  PROVE  /\ Pushed' = Pushed \cup {p}
         /\ Cardinality(Pushed)' = Cardinality(Pushed) + 1
         /\ Cardinality(Pushed) + 1 <= Cardinality(Peers)
<1>1. Pushed' = Pushed \cup {p} /\ p \notin Pushed
  BY DEF PushWrite, ThreadGoes, Pushed, TypeOK
<1>2. Pushed \in SUBSET Peers /\ Pushed' \in SUBSET Peers
  BY <1>1 DEF Pushed
<1>3. Cardinality(Pushed \cup {p}) = Cardinality(Pushed) + 1
  BY <1>1, <1>2, OneMore
<1>4. QED
  BY <1>1, <1>2, <1>3, PeersFinite

(* No other step takes a thread out of Pushed or puts one in.              *)
LEMMA PushedKept ==
  ASSUME TypeOK, HandoffInv, [Next]_vars, \A p \in Peers : ~PushWrite(p)
  PROVE  Pushed' = Pushed
<1>1. CASE \E p \in Peers : Node(p)
  <2>1. PICK p \in Peers : Node(p)
    BY <1>1
  <2>2. ~PushWrite(p)
    OBVIOUS
  <2>3. QED
    BY <2>1, <2>2 DEF Node, WaitID, PushRead, Serve, FindEnd, FindNode,
       EraseRead, Reads, EraseWrite,
          DecRead, DecWrite, Exit, ThreadGoes, Pushed, TypeOK
<1>2. CASE Main
  BY <1>2 DEF Main, Bind, LoopTest, Gate, Listen, Accept, IncRead, IncWrite,
       StopCheck, Create, SetID, CloseMain, Drain, Dispose, MainGoes, nodeVars,
       Pushed, TypeOK, HandoffInv, PlaceInv
<1>3. CASE \/ \E c \in Clients : Connect(c)
           \/ \E s \in Stops : StopSet(s) \/ StopConnect(s)
           \/ UNCHANGED vars
  BY <1>3 DEF Connect, StopSet, StopConnect, vars, nodeVars, Pushed
<1>4. QED
  BY <1>1, <1>2, <1>3 DEF Next

(* Every step keeps the types and the bound of the vector.                 *)
LEMMA TypeStep ==
  ASSUME TypeOK, VectorInv, HandoffInv, [Next]_vars
  PROVE  TypeOK'
<1> USE DEF TypeOK, MainPC, ThreadPC, ConnState, PkgState
<1>1. CASE Main
  <2> USE DEF MainGoes, nodeVars, netVars, mainVars, histVars, NoteRace
  <2>1. CASE Bind \/ LoopTest \/ Gate \/ Listen
    BY <2>1 DEF Bind, LoopTest, Gate, Listen
  <2>2. CASE Accept
    <3>1. Head(backlog) \in Peers /\ Tail(backlog) \in Seq(Peers)
      BY <2>2 DEF Accept
    <3>2. QED
      BY <2>2, <3>1 DEF Accept
  <2>3. CASE IncRead \/ SetID \/ Drain
    BY <2>3 DEF IncRead, SetID, Drain
  <2>4. CASE IncWrite
    <3>1. (mtmp + 1) % CountMod \in 0..(CountMod - 1)
      BY Unsigned
    <3>2. QED
      BY <2>4, <3>1 DEF IncWrite
  <2>5. CASE StopCheck \/ Create
    BY <2>5 DEF StopCheck, Create
  <2>6. CASE CloseMain
    <3>1. conn' \in [Peers -> ConnState]
      BY <2>6 DEF CloseMain
    <3>2. <<>> \in Seq(Peers)
      OBVIOUS
    <3>3. QED
      BY <2>6, <3>1, <3>2 DEF CloseMain
  <2>7. CASE Dispose
    <3>1. Nodes' \in [at : [1..Cardinality(Peers) -> Peers \cup {None}],
                      fin : Nat]
      BY <2>7 DEF Dispose
    <3>2. QED
      BY <2>7, <3>1 DEF Dispose
  <2>8. QED
    BY <1>1, <2>1, <2>2, <2>3, <2>4, <2>5, <2>6, <2>7 DEF Main
<1>2. ASSUME NEW p \in Peers, Node(p)
      PROVE  TypeOK'
  <2> USE DEF ThreadGoes, mainVars, netVars, histVars, NoteRace
  <2>1. CASE WaitID(p)
    BY <2>1 DEF WaitID
  <2>9. CASE Serve(p)
    <3>1. slot' \in [Peers -> [k : Nat, f : Nat]]
      BY <2>9 DEF Serve
    <3>2. QED
      BY <2>9, <3>1 DEF Serve
  <2>10. CASE Exit(p)
    BY <2>10 DEF Exit
  <2>8. CASE DecRead(p)
    BY <2>8 DEF DecRead
  <2>2. CASE PushRead(p)
    <3>1. slot' \in [Peers -> [k : Nat, f : Nat]]
      BY <2>2, RecordTypes DEF PushRead
    <3>2. QED
      BY <2>2, <3>1 DEF PushRead
  <2>3. CASE PushWrite(p)
    <3>1. Cardinality(Pushed) + 1 <= Cardinality(Peers)
      BY <2>3, PushedGrows
    <3>2. slot[p].f \in Nat /\ slot[p].f + 1 \in 1..Cardinality(Peers)
      BY <3>1, PushedSize, RecordTypes DEF VectorInv
    <3>3. Nodes' \in [at : [1..Cardinality(Peers) -> Peers \cup {None}],
                      fin : Nat]
      BY <2>3, <3>2, RecordTypes DEF PushWrite, PutAt
    <3>4. QED
      BY <2>3, <3>3 DEF PushWrite
  <2>4. CASE FindEnd(p)
    <3>1. thread' \in [Peers -> ThreadPC] /\ slot' = slot
      BY <2>4 DEF FindEnd
    <3>2. Reads(p)
      BY <2>4 DEF FindEnd
    <3>3. QED
      BY <3>1, <3>2 DEF Reads
  <2>11. CASE FindNode(p)
    <3>1. slot' \in [Peers -> [k : Nat, f : Nat]]
      <4>1. slot' = slot \/ slot' = [slot EXCEPT ![p].k = slot[p].k + 1]
        BY <2>11 DEF FindNode
      <4>2. slot[p].k + 1 \in Nat /\ slot \in [Peers -> [k : Nat, f : Nat]]
        BY RecordTypes
      <4>3. CASE slot' = [slot EXCEPT ![p].k = slot[p].k + 1]
        <5>1. [slot[p] EXCEPT !.k = slot[p].k + 1] \in [k : Nat, f : Nat]
          <6> HIDE DEF TypeOK, VectorInv, HandoffInv
          <6>1. slot[p] \in [k : Nat, f : Nat]
            BY <4>2
          <6>2. QED
            BY <4>2, <6>1, NextSlot
        <5>2. slot' = [slot EXCEPT ![p] = [slot[p] EXCEPT !.k = slot[p].k + 1]]
          BY <4>2, <4>3
        <5> HIDE DEF TypeOK, VectorInv, HandoffInv
        <5>3. QED
          BY <4>2, <5>1, <5>2
      <4>4. QED
        BY <4>1, <4>2, <4>3
    <3>2. QED
      <4>1. thread' \in [Peers -> ThreadPC]
        BY <2>11 DEF FindNode
      <4>2. Reads(p)
        BY <2>11 DEF FindNode
      <4>3. QED
        BY <3>1, <4>1, <4>2 DEF Reads
  <2>12. CASE EraseRead(p)
    <3>1. slot' \in [Peers -> [k : Nat, f : Nat]]
      BY <2>12, RecordTypes DEF EraseRead
    <3>2. QED
      BY <2>12, <3>1 DEF EraseRead, Reads
  <2>5. CASE EraseWrite(p)
    <3>1. /\ slot[p].f \in Nat /\ slot[p].k \in Nat
          /\ slot[p].f <= Cardinality(Peers) /\ 1 <= slot[p].f
      BY <2>5, PushedSize, RecordTypes DEF EraseWrite, VectorInv, Finding
    <3>2. Nodes' \in [at : [1..Cardinality(Peers) -> Peers \cup {None}],
                      fin : Nat]
      <4>1. /\ Nodes'.at = [i \in DOMAIN Nodes.at |->
                             IF slot[p].k <= i /\ i < slot[p].f
                             THEN Nodes.at[i + 1] ELSE Nodes.at[i]]
            /\ Nodes'.fin = slot[p].f - 1
            /\ Nodes' = [at |-> Nodes'.at, fin |-> Nodes'.fin]
        BY <2>5 DEF EraseWrite, CutAt
      <4>2. Nodes'.fin \in Nat
        BY <4>1, <3>1
      <4>3. ASSUME NEW i \in 1..Cardinality(Peers), i < slot[p].f
            PROVE  i + 1 \in 1..Cardinality(Peers)
        BY <3>1, <4>3, PushedSize
      <4>4. Nodes'.at \in [1..Cardinality(Peers) -> Peers \cup {None}]
        <5>1. DOMAIN Nodes.at = 1..Cardinality(Peers)
          BY RecordTypes
        <5>2. ASSUME NEW i \in 1..Cardinality(Peers)
              PROVE  (IF slot[p].k <= i /\ i < slot[p].f
                      THEN Nodes.at[i + 1] ELSE Nodes.at[i])
                       \in Peers \cup {None}
          BY <4>3, RecordTypes
        <5>3. QED
          BY <4>1, <5>1, <5>2
      <4>5. QED
        BY <4>1, <4>2, <4>4
    <3>3. slot' \in [Peers -> [k : Nat, f : Nat]] /\ slipped' \in BOOLEAN
      BY <2>5 DEF EraseWrite, NoSlot
    <3>4. QED
      BY <2>5, <3>2, <3>3 DEF EraseWrite
  <2>6. CASE DecWrite(p)
    <3>1. (tmp[p] + CountMod - 1) % CountMod \in 0..(CountMod - 1)
      BY Unsigned
    <3>2. QED
      BY <2>6, <3>1 DEF DecWrite
  <2>7. QED
    BY <1>2, <2>1, <2>2, <2>3, <2>4, <2>5, <2>6, <2>8, <2>9, <2>10, <2>11,
       <2>12
       DEF Node
<1>3. ASSUME NEW c \in Clients, Connect(c)
      PROVE  TypeOK'
  <2>1. c \in Peers /\ Append(backlog, c) \in Seq(Peers)
    BY DEF Peers
  <2>2. QED
    BY <1>3, <2>1 DEF Connect, Queue, mainVars, nodeVars
<1>4. ASSUME NEW s \in Stops, StopSet(s) \/ StopConnect(s)
      PROVE  TypeOK'
  <2>1. s \in Peers /\ Append(backlog, s) \in Seq(Peers)
    BY DEF Peers
  <2>2. QED
    <3>1. CASE StopSet(s)
      BY <3>1 DEF StopSet, mainVars, netVars, nodeVars, histVars
    <3>2. CASE StopConnect(s)
      BY <2>1, <3>2 DEF StopConnect, Queue, mainVars, netVars, nodeVars,
         histVars
    <3>3. QED
      BY <1>4, <3>1, <3>2
<1>5. CASE UNCHANGED vars
  BY <1>5 DEF vars, mainVars, netVars, nodeVars, histVars
<1>6. QED
  BY <1>1, <1>2, <1>3, <1>4, <1>5 DEF Next

(* Every step keeps finish, and every finish a thread holds, at most the   *)
(* number of pushes, however stale it is (CServer.cpp:228, 239).           *)
LEMMA VectorStep ==
  ASSUME TypeOK, VectorInv, HandoffInv, [Next]_vars
  PROVE  VectorInv'
<1>1. ASSUME NEW p \in Peers, PushWrite(p)
      PROVE  VectorInv'
  <2>1. Cardinality(Pushed)' = Cardinality(Pushed) + 1
    BY <1>1, PushedGrows
  <2>2. Cardinality(Pushed) \in Nat
    BY PushedSize
  <2>3. QED
    BY <1>1, <2>1, <2>2, RecordTypes
       DEF PushWrite, ThreadGoes, PutAt, VectorInv, TypeOK, Finding
<1>2. CASE \A p \in Peers : ~PushWrite(p)
  <2>1. Pushed' = Pushed
    BY <1>2, PushedKept
  <2>2. Cardinality(Pushed)' = Cardinality(Pushed) /\ Cardinality(Pushed) \in Nat
    BY <2>1, PushedSize
  <2>3. CASE Main
    <3>1. slot' = slot /\ (Nodes' = Nodes \/ Nodes' = [Nodes EXCEPT !.fin = 0])
      BY <2>3 DEF Main, Bind, LoopTest, Gate, Listen, Accept, IncRead,
         IncWrite,
         StopCheck, Create, SetID, CloseMain, Drain, Dispose, nodeVars
    <3>2. thread' = thread \/ Create
      BY <2>3 DEF Main, Bind, LoopTest, Gate, Listen, Accept, IncRead,
         IncWrite,
         StopCheck, SetID, CloseMain, Drain, Dispose, nodeVars
    <3>3. \A p \in Peers : thread'[p] \in Finding => thread'[p] = thread[p]
      BY <3>2 DEF Create, TypeOK, Finding
    <3>4. QED
      BY <2>2, <3>1, <3>3 DEF TypeOK, VectorInv, Finding
  <2>4. ASSUME NEW p \in Peers, Node(p)
        PROVE  VectorInv'
    <3> USE <2>2 DEF ThreadGoes, TypeOK, VectorInv
    <3>1. CASE WaitID(p) \/ DecRead(p) \/ DecWrite(p) \/ Exit(p)
      BY <3>1 DEF WaitID, DecRead, DecWrite, Exit, Finding
    <3>6. CASE Serve(p)
      <4>1. /\ slot' = [slot EXCEPT ![p] = [k |-> 1, f |-> 0]]
            /\ thread' = [thread EXCEPT ![p] = "scan"] /\ Nodes' = Nodes
        BY <3>6 DEF Serve
      <4>2. QED
        BY <4>1, RecordTypes DEF Finding
    <3>2. CASE PushRead(p)
      <4>1. /\ slot' = [slot EXCEPT ![p].f = Nodes.fin] /\ Nodes' = Nodes
            /\ thread' = [thread EXCEPT ![p] = "push2"]
        BY <3>2 DEF PushRead
      <4>2. QED
        BY <4>1, RecordTypes DEF Finding
    <3>3. CASE FindEnd(p)
      BY <3>3, PushedSize, RecordTypes DEF FindEnd, Reads, Finding
    <3>7. CASE FindNode(p)
      <4>1. thread[p] = "look" /\ Nodes' = Nodes
        BY <3>7 DEF FindNode, Reads
      <4>2. /\ slot \in [Peers -> [k : Nat, f : Nat]]
            /\ thread \in [Peers -> ThreadPC] /\ slot[p].k \in Nat
        BY RecordTypes
      <4>3. CASE slot' = slot /\ thread' = [thread EXCEPT ![p] = "erase1"]
        BY <4>1, <4>3 DEF Finding
      <4>4. CASE /\ slot' = [slot EXCEPT ![p].k = slot[p].k + 1]
                 /\ thread' = [thread EXCEPT ![p] = "scan"]
        <5>1. /\ slot'[p].k = slot[p].k + 1 /\ slot'[p].f = slot[p].f
              /\ \A q \in Peers \ {p} : slot'[q] = slot[q]
          BY <4>2, <4>4
        <5>2. /\ thread'[p] = "scan"
              /\ \A q \in Peers \ {p} : thread'[q] = thread[q]
          BY <4>2, <4>4
        <5>3. 1 <= slot[p].k
          BY <4>1 DEF Finding
        <5>4. /\ slot'[p].f <= Cardinality(Pushed)' /\ 1 <= slot'[p].k
              /\ thread'[p] # "look" /\ thread'[p] # "erase2"
          BY <4>2, <5>1, <5>2, <5>3
        <5>5. ASSUME NEW q \in Peers \ {p}
              PROVE  /\ slot'[q].f <= Cardinality(Pushed)'
                     /\ thread'[q] \in Finding => 1 <= slot'[q].k
                     /\ thread'[q] = "look" => slot'[q].k <= Cardinality(Peers)
                     /\ thread'[q] = "erase2" => slot'[q].k <= slot'[q].f
          BY <5>1, <5>2
        <5>6. Nodes'.fin <= Cardinality(Pushed)'
          BY <4>1
        <5>7. QED
          BY <5>4, <5>5, <5>6
      <4>5. QED
        BY <3>7, <4>3, <4>4 DEF FindNode
    <3>8. CASE EraseRead(p)
      <4>1. /\ thread[p] = "erase1" /\ Nodes' = Nodes
            /\ slot' = [slot EXCEPT ![p].f = Nodes.fin]
            /\ \/ /\ slot[p].k <= Nodes.fin
                  /\ thread' = [thread EXCEPT ![p] = "erase2"]
               \/ thread' = [thread EXCEPT ![p] = "lost"]
        BY <3>8 DEF EraseRead, Reads
      <4>2. QED
        BY <4>1, RecordTypes DEF Finding
    <3>4. CASE EraseWrite(p)
      BY <3>4 DEF EraseWrite, CutAt, Finding, NoSlot
    <3>5. QED
      BY <1>2, <2>4, <3>1, <3>2, <3>3, <3>4, <3>6, <3>7, <3>8 DEF Node
  <2>5. CASE \/ \E c \in Clients : Connect(c)
             \/ \E s \in Stops : StopSet(s) \/ StopConnect(s)
             \/ UNCHANGED vars
    BY <2>2, <2>5 DEF Connect, StopSet, StopConnect, vars, nodeVars, VectorInv
  <2>6. QED
    BY <2>3, <2>4, <2>5 DEF Next
<1>3. QED
  BY <1>1, <1>2

-----------------------------------------------------------------------------
(* The handoff of a connection and its package. *)

(* Queueing an idle connection keeps the backlog free of repetitions.      *)
LEMMA QueueKeeps ==
  ASSUME TypeOK, HandoffInv, NEW p \in Peers, conn[p] = "idle", Queue(p)
  PROVE  /\ \A i \in DOMAIN backlog' : conn'[backlog'[i]] = "queued"
         /\ \A i, j \in DOMAIN backlog' : backlog'[i] = backlog'[j] => i = j
<1>1. /\ backlog \in Seq(Peers) /\ conn \in [Peers -> ConnState]
      /\ \A i \in DOMAIN backlog : conn[backlog[i]] = "queued"
      /\ \A i, j \in DOMAIN backlog : backlog[i] = backlog[j] => i = j
  BY DEF TypeOK, HandoffInv, PlaceInv
<1>2. /\ DOMAIN backlog = 1..Len(backlog) /\ Len(backlog) \in Nat
      /\ \A i \in DOMAIN backlog : backlog[i] \in Peers /\ backlog[i] # p
  BY <1>1
<1>3. /\ backlog' = Append(backlog, p)
      /\ DOMAIN backlog' = 1..(Len(backlog) + 1)
      /\ \A i \in 1..Len(backlog) : backlog'[i] = backlog[i]
      /\ backlog'[Len(backlog) + 1] = p
  BY <1>1 DEF Queue
<1>4. conn' = [conn EXCEPT ![p] = "queued"]
  BY DEF Queue
<1>5. QED
  BY <1>1, <1>2, <1>3, <1>4

(* Taking the head of the backlog leaves the rest queued.                  *)
LEMMA AcceptKeeps ==
  ASSUME TypeOK, HandoffInv, Accept
  PROVE  /\ cur' \in Peers /\ conn[cur'] = "queued"
         /\ conn' = [conn EXCEPT ![cur'] = "accepted"]
         /\ \A i \in DOMAIN backlog' : conn'[backlog'[i]] = "queued"
         /\ \A i, j \in DOMAIN backlog' : backlog'[i] = backlog'[j] => i = j
<1>1. /\ backlog \in Seq(Peers) /\ conn \in [Peers -> ConnState]
      /\ \A i \in DOMAIN backlog : conn[backlog[i]] = "queued"
      /\ \A i, j \in DOMAIN backlog : backlog[i] = backlog[j] => i = j
      /\ backlog # <<>>
  BY DEF TypeOK, HandoffInv, PlaceInv, Accept
<1>2. /\ DOMAIN backlog = 1..Len(backlog) /\ Len(backlog) \in Nat
      /\ Len(backlog) >= 1 /\ Head(backlog) = backlog[1]
      /\ \A i \in DOMAIN backlog : backlog[i] \in Peers
  BY <1>1
<1>3. /\ DOMAIN backlog' = 1..(Len(backlog) - 1)
      /\ \A i \in 1..(Len(backlog) - 1) : backlog'[i] = backlog[i + 1]
  BY <1>1, <1>2 DEF Accept
<1>4. cur' = backlog[1] /\ conn' = [conn EXCEPT ![cur'] = "accepted"]
  BY <1>2 DEF Accept
<1>5. \A i \in 1..(Len(backlog) - 1) :
        i + 1 \in DOMAIN backlog /\ backlog[i + 1] # backlog[1]
  BY <1>1, <1>2
<1>6. ASSUME NEW i \in DOMAIN backlog'
      PROVE  conn'[backlog'[i]] = "queued"
  BY <1>1, <1>2, <1>3, <1>4, <1>5
<1>7. ASSUME NEW i \in DOMAIN backlog', NEW j \in DOMAIN backlog',
             backlog'[i] = backlog'[j]
      PROVE  i = j
  <2>1. i + 1 \in DOMAIN backlog /\ j + 1 \in DOMAIN backlog
    BY <1>3, <1>5
  <2>2. i + 1 = j + 1
    BY <1>1, <1>3, <1>7, <2>1
  <2>3. QED
    BY <1>2, <1>3, <2>2
<1>8. QED
  BY <1>1, <1>2, <1>4, <1>6, <1>7

(* Every step keeps a connection in one place, and its package out of the  *)
(* hands of a thread that may not touch it (CServer.cpp:184-191, 212-221). *)
LEMMA HandoffStep ==
  ASSUME TypeOK, HandoffInv, [Next]_vars
  PROVE  HandoffInv'
<1> USE DEF HandoffInv, PlaceInv, HandoffSafe, InHand
<1> DEFINE FnTypes == /\ conn \in [Peers -> ConnState]
                      /\ thread \in [Peers -> ThreadPC]
                      /\ pkg \in [Peers -> PkgState]
                      /\ stopper \in [Stops -> {"idle", "connect", "done"}]
                      /\ \A i \in DOMAIN backlog : backlog[i] \in Peers
                      /\ Stops \subseteq Peers
<1>0. FnTypes
  BY DEF TypeOK, Peers
<1>1. CASE Main
  <2> USE <1>0 DEF MainGoes, nodeVars, netVars, mainVars, histVars
  <2>1. CASE Bind \/ LoopTest \/ Gate \/ Listen \/ IncRead \/ IncWrite
             \/ Drain \/ Dispose
    BY <2>1 DEF Bind, LoopTest, Gate, Listen, IncRead, IncWrite, Drain, Dispose
  <2>2. CASE Accept
    <3>1. /\ cur' \in Peers /\ conn[cur'] = "queued"
          /\ conn' = [conn EXCEPT ![cur'] = "accepted"]
          /\ \A i \in DOMAIN backlog' : conn'[backlog'[i]] = "queued"
          /\ \A i, j \in DOMAIN backlog' : backlog'[i] = backlog'[j] => i = j
      BY <2>2, AcceptKeeps
    <3>2. main' = "inc1" /\ UNCHANGED <<thread, pkg, stopper>>
      BY <2>2 DEF Accept
    <3>3. PlaceInv'
      BY <3>1, <3>2
    <3>4. HandoffSafe'
      BY <3>2
    <3>5. QED
      BY <3>3, <3>4
  <2>3. CASE StopCheck
    <3>1. CASE StopSignal
      <4>1. /\ conn' = [conn EXCEPT ![cur] = "closed"] /\ main' = "close"
            /\ UNCHANGED <<backlog, thread, pkg, stopper>>
        BY <2>3, <3>1 DEF StopCheck
      <4>2. conn[cur] = "accepted" /\ cur \in Peers
        BY <2>3 DEF StopCheck
      <4>3. QED
        BY <4>1, <4>2
    <3>2. CASE ~StopSignal
      BY <2>3, <3>2 DEF StopCheck
    <3>3. QED
      BY <3>1, <3>2
  <2>4. CASE Create
    BY <2>4 DEF Create
  <2>5. CASE SetID
    BY <2>5 DEF SetID
  <2>6. CASE CloseMain
    <3>1. backlog' = <<>> /\ main' = "drain" /\ UNCHANGED <<thread, pkg, stopper>>
      BY <2>6 DEF CloseMain
    <3>2. /\ \A p \in Peers : conn[p] \in InHand => conn'[p] = conn[p]
          /\ \A p \in Peers : conn[p] = "idle" => conn'[p] = conn[p]
      BY <2>6 DEF CloseMain
    <3>3. Stops \subseteq Peers
      BY DEF Peers
    <3>4. QED
      BY <3>1, <3>2, <3>3
  <2>7. QED
    BY <1>1, <2>1, <2>2, <2>3, <2>4, <2>5, <2>6 DEF Main
<1>2. ASSUME NEW p \in Peers, Node(p)
      PROVE  HandoffInv'
  <2> USE <1>0 DEF ThreadGoes, mainVars, netVars, histVars
  <2>1. CASE WaitID(p)
    BY <2>1 DEF WaitID
  <2>2. CASE PushRead(p) \/ PushWrite(p)
    BY <2>2 DEF PushRead, PushWrite
  <2>3. CASE Serve(p)
    BY <2>3 DEF Serve
  <2>4. CASE FindEnd(p) \/ FindNode(p) \/ EraseRead(p) \/ EraseWrite(p)
    BY <2>4 DEF FindEnd, FindNode, EraseRead, Reads, EraseWrite
  <2>5. CASE DecRead(p) \/ DecWrite(p)
    BY <2>5 DEF DecRead, DecWrite
  <2>6. CASE Exit(p)
    BY <2>6 DEF Exit
  <2>7. QED
    BY <1>2, <2>1, <2>2, <2>3, <2>4, <2>5, <2>6 DEF Node
<1>3. ASSUME NEW c \in Clients, Connect(c)
      PROVE  HandoffInv'
  <2>1. c \in Peers /\ c \notin Stops
    BY ServerAssumption DEF Peers
  <2>2. /\ \A i \in DOMAIN backlog' : conn'[backlog'[i]] = "queued"
        /\ \A i, j \in DOMAIN backlog' : backlog'[i] = backlog'[j] => i = j
    BY <1>3, <2>1, QueueKeeps DEF Connect
  <2>3. QED
    BY <1>0, <1>3, <2>1, <2>2 DEF Connect, Queue, mainVars, nodeVars
<1>4. ASSUME NEW s \in Stops, StopSet(s)
      PROVE  HandoffInv'
  BY <1>0, <1>4 DEF StopSet, mainVars, netVars, nodeVars
<1>5. ASSUME NEW s \in Stops, StopConnect(s)
      PROVE  HandoffInv'
  <2>1. s \in Peers /\ conn[s] = "idle"
    BY <1>5 DEF StopConnect, Peers
  <2>2. CASE listening
    <3>1. Queue(s)
      BY <1>5, <2>2 DEF StopConnect
    <3>2. /\ \A i \in DOMAIN backlog' : conn'[backlog'[i]] = "queued"
          /\ \A i, j \in DOMAIN backlog' : backlog'[i] = backlog'[j] => i = j
      BY <2>1, <3>1, QueueKeeps
    <3>3. QED
      BY <1>0, <1>5, <2>1, <3>1, <3>2
         DEF StopConnect, Queue, mainVars, nodeVars
  <2>3. CASE ~listening
    BY <1>0, <1>5, <2>3 DEF StopConnect, mainVars, nodeVars
  <2>4. QED
    BY <2>2, <2>3
<1>6. CASE UNCHANGED vars
  BY <1>6 DEF vars, mainVars, netVars, nodeVars, histVars
<1>7. QED
  BY <1>1, <1>2, <1>3, <1>4, <1>5, <1>6 DEF Next

-----------------------------------------------------------------------------
(* Connections made after stop(). *)

(* Every step keeps the late connections away from the nodes: the test of  *)
(* StopSignal after accept() catches each (CServer.cpp:175).               *)
LEMMA LateStep ==
  ASSUME TypeOK, HandoffInv, LateInv, [Next]_vars
  PROVE  LateInv'
<1> USE DEF LateInv, LateNeverServed
<1>0. /\ thread \in [Peers -> ThreadPC] /\ pkg \in [Peers -> PkgState]
      /\ stopper \in [Stops -> {"idle", "connect", "done"}]
      /\ late \subseteq Peers /\ Stops \subseteq Peers
      /\ StopSignal \in BOOLEAN
  BY DEF TypeOK, Peers
<1>1. CASE Main
  <2> USE <1>0 DEF MainGoes, nodeVars, netVars, mainVars, histVars
  <2>1. CASE StopCheck
    <3>1. CASE StopSignal
      BY <2>1, <3>1 DEF StopCheck
    <3>2. CASE ~StopSignal
      <4>1. cur \in Peers /\ conn[cur] = "accepted"
        BY <2>1 DEF StopCheck, HandoffInv, PlaceInv
      <4>2. cur \notin Stops
        BY <3>2, <4>1 DEF HandoffInv, PlaceInv
      <4>3. cur \notin late
        BY <3>2
      <4>4. QED
        BY <2>1, <3>2, <4>1, <4>2, <4>3 DEF StopCheck
    <3>3. QED
      BY <3>1, <3>2
  <2>2. CASE Create
    BY <2>2 DEF Create, HandoffInv, PlaceInv
  <2>3. CASE SetID
    BY <2>3 DEF SetID, HandoffInv, PlaceInv
  <2>4. CASE IncWrite
    BY <2>4 DEF IncWrite
  <2>5. CASE Bind \/ LoopTest \/ Gate \/ Listen \/ Accept \/ IncRead
             \/ CloseMain \/ Drain \/ Dispose
    BY <2>5 DEF Bind, LoopTest, Gate, Listen, Accept, IncRead, CloseMain,
       Drain, Dispose
  <2>6. QED
    BY <1>1, <2>1, <2>2, <2>3, <2>4, <2>5 DEF Main
<1>2. ASSUME NEW p \in Peers, Node(p)
      PROVE  LateInv'
  <2>1. thread[p] # "none"
    BY <1>2 DEF Node, WaitID, PushRead, PushWrite, Serve, FindEnd, FindNode,
       EraseRead, Reads,
       EraseWrite, DecRead, DecWrite, Exit, ThreadGoes
  <2>2. p \notin late \cup Stops
    BY <2>1
  <2>3. /\ \A q \in Peers : q # p => thread'[q] = thread[q] /\ pkg'[q] = pkg[q]
        /\ UNCHANGED <<main, cur, StopSignal, stopper, late>>
    BY <1>0, <1>2 DEF Node, WaitID, PushRead, PushWrite, Serve, FindEnd,
       FindNode, EraseRead, Reads,
       EraseWrite, DecRead, DecWrite, Exit, ThreadGoes, mainVars, netVars,
       histVars
  <2>4. QED
    BY <1>0, <2>2, <2>3
<1>3. ASSUME NEW p \in Peers, conn[p] = "idle", Queue(p),
             UNCHANGED <<main, cur, thread, pkg, StopSignal>>,
             ~StopSignal => UNCHANGED stopper
      PROVE  LateInv'
  <2>1. thread[p] = "none" /\ pkg[p] = "none"
    BY <1>3 DEF HandoffInv, PlaceInv, InHand
  <2>2. main \in {"create", "setid"} => cur # p
    BY <1>3 DEF HandoffInv, PlaceInv, InHand
  <2>3. late' = IF StopSignal THEN late \cup {p} ELSE late
    BY <1>3 DEF Queue
  <2>4. QED
    BY <1>0, <1>3, <2>1, <2>2, <2>3
<1>4. ASSUME NEW c \in Clients, Connect(c)
      PROVE  LateInv'
  BY <1>3, <1>4 DEF Connect, Peers, mainVars, nodeVars
<1>5. ASSUME NEW s \in Stops, StopSet(s)
      PROVE  LateInv'
  BY <1>0, <1>5 DEF StopSet, mainVars, netVars, nodeVars, histVars
<1>6. ASSUME NEW s \in Stops, StopConnect(s)
      PROVE  LateInv'
  <2>1. s \in Peers /\ conn[s] = "idle" /\ StopSignal
    BY <1>0, <1>6 DEF StopConnect, HandoffInv, PlaceInv
  <2>2. CASE listening
    BY <1>3, <1>6, <2>1, <2>2 DEF StopConnect, mainVars, nodeVars
  <2>3. CASE ~listening
    BY <1>0, <1>6, <2>1, <2>3 DEF StopConnect, mainVars, nodeVars
  <2>4. QED
    BY <2>2, <2>3
<1>7. CASE UNCHANGED vars
  BY <1>7 DEF vars, mainVars, netVars, nodeVars, histVars
<1>8. QED
  BY <1>1, <1>2, <1>4, <1>5, <1>6, <1>7 DEF Next

-----------------------------------------------------------------------------
(* The count under lost updates. *)

(* Only DecWrite adds to Decremented, and nothing takes from it.           *)
LEMMA DecrementedGrows ==
  ASSUME TypeOK, HandoffInv, [Next]_vars
  PROVE  /\ Cardinality(Decremented) \in Nat
         /\ Cardinality(Decremented)' \in Nat
         /\ Cardinality(Decremented) <= Cardinality(Decremented)'
         /\ Cardinality(Decremented)' <= Cardinality(Peers)
         /\ \A p \in Peers : DecWrite(p) =>
              Cardinality(Decremented)' = Cardinality(Decremented) + 1
<1>1. Decremented \subseteq Decremented'
  <2>1. CASE Main
    BY <2>1 DEF Main, Bind, LoopTest, Gate, Listen, Accept, IncRead, IncWrite,
       StopCheck, Create, SetID, CloseMain, Drain, Dispose, MainGoes, nodeVars,
       Decremented, TypeOK, HandoffInv, PlaceInv
  <2>2. CASE \E p \in Peers : Node(p)
    BY <2>2 DEF Node, WaitID, PushRead, PushWrite, Serve, FindEnd, FindNode,
       EraseRead, Reads, EraseWrite,
       DecRead, DecWrite, Exit, ThreadGoes, Decremented, TypeOK
  <2>3. CASE \/ \E c \in Clients : Connect(c)
             \/ \E s \in Stops : StopSet(s) \/ StopConnect(s)
             \/ UNCHANGED vars
    BY <2>3 DEF Connect, StopSet, StopConnect, vars, nodeVars, Decremented
  <2>4. QED
    BY <2>1, <2>2, <2>3 DEF Next
<1>2. Decremented' \in SUBSET Peers /\ Decremented \in SUBSET Peers
  BY DEF Decremented
<1>3. /\ Cardinality(Decremented) \in Nat /\ Cardinality(Decremented') \in Nat
      /\ Cardinality(Decremented') <= Cardinality(Peers)
      /\ IsFiniteSet(Decremented')
  BY <1>2, PeersFinite
<1>4. Cardinality(Decremented) <= Cardinality(Decremented')
  BY <1>1, <1>3, FS_Subset
<1>5. ASSUME NEW p \in Peers, DecWrite(p)
      PROVE  Cardinality(Decremented') = Cardinality(Decremented) + 1
  <2>1. Decremented' = Decremented \cup {p} /\ p \notin Decremented
    BY <1>5 DEF DecWrite, ThreadGoes, Decremented, TypeOK
  <2>2. Cardinality(Decremented \cup {p}) = Cardinality(Decremented) + 1
    BY <1>2, <2>1, OneMore
  <2>3. QED
    BY <2>1, <2>2
<1>6. QED
  BY <1>3, <1>4, <1>5

(* Every step keeps the bound of ThreadCount, stale loads included: a load *)
(* is bounded where it is made, and wraps only by a decrement.             *)
LEMMA CountStep ==
  ASSUME TypeOK, HandoffInv, CountInv, [Next]_vars
  PROVE  CountInv'
<1>a. PICK d \in Nat, e \in Nat :
        /\ d = Cardinality(Decremented) /\ e = Cardinality(Decremented)'
        /\ d <= e /\ e <= Cardinality(Peers) /\ Cardinality(Peers) \in Nat
        /\ \A p \in Peers : DecWrite(p) => e = d + 1
  BY DecrementedGrows, PeersFinite
<1>b. PICK M \in Nat : M = CountMod
  BY ServerAssumption
<1>0. d <= e /\ e < M - ThreadLimit - 1
  BY <1>a, <1>b, ServerAssumption
<1>1. /\ ThreadLimit \in Nat
      /\ ThreadCount \in 0..(M - 1) /\ mtmp \in 0..(M - 1)
      /\ tmp \in [Peers -> 0..(M - 1)] /\ thread \in [Peers -> ThreadPC]
  BY <1>b, ServerAssumption DEF TypeOK
<1>2. /\ ThreadCount <= ThreadLimit + 1 \/ ThreadCount >= M - d
      /\ main \in {"listen", "accept", "inc1"} =>
           ThreadCount <= ThreadLimit \/ ThreadCount >= M - d
      /\ main = "inc2" => mtmp <= ThreadLimit \/ mtmp >= M - d
      /\ \A p \in Peers : thread[p] = "dec2" =>
           tmp[p] <= ThreadLimit + 1 \/ tmp[p] >= M - d
  BY <1>a, <1>b DEF CountInv, CountBounded, Wrapped
<1>3. SUFFICES
        /\ ThreadCount' <= ThreadLimit + 1 \/ ThreadCount' >= M - e
        /\ main' \in {"listen", "accept", "inc1"} =>
             ThreadCount' <= ThreadLimit \/ ThreadCount' >= M - e
        /\ main' = "inc2" => mtmp' <= ThreadLimit \/ mtmp' >= M - e
        /\ \A p \in Peers : thread'[p] = "dec2" =>
             tmp'[p] <= ThreadLimit + 1 \/ tmp'[p] >= M - e
  BY <1>a, <1>b DEF CountInv, CountBounded, Wrapped
<1>4. CASE Main
  <2> USE <1>0, <1>1, <1>2 DEF MainGoes, nodeVars, netVars, mainVars, histVars
  <2>1. CASE IncWrite
    <3>1. ThreadCount' = IF mtmp = M - 1 THEN 0 ELSE mtmp + 1
      <4>1. ThreadCount' = (mtmp + 1) % CountMod
        BY <2>1 DEF IncWrite
      <4>2. QED
        BY <4>1, <1>b, Unsigned DEF TypeOK
    <3>2. main = "inc2" /\ main' = "check" /\ UNCHANGED <<tmp, thread>>
      BY <2>1 DEF IncWrite
    <3>3. QED
      BY <3>1, <3>2
  <2>2. CASE IncRead
    BY <2>2 DEF IncRead
  <2>3. CASE Gate
    BY <2>3 DEF Gate
  <2>4. CASE Create
    BY <2>4 DEF Create
  <2>5. CASE Bind \/ LoopTest \/ Listen \/ Accept \/ StopCheck \/ SetID
             \/ CloseMain \/ Drain \/ Dispose
    <3>1. CASE Bind \/ LoopTest \/ Listen \/ Accept
      BY <3>1 DEF Bind, LoopTest, Listen, Accept
    <3>2. CASE StopCheck \/ SetID
      BY <3>2 DEF StopCheck, SetID
    <3>3. CASE CloseMain \/ Drain \/ Dispose
      BY <3>3 DEF CloseMain, Drain, Dispose
    <3>4. QED
      BY <2>5, <3>1, <3>2, <3>3
  <2>6. QED
    BY <1>4, <2>1, <2>2, <2>3, <2>4, <2>5 DEF Main
<1>5. ASSUME NEW p \in Peers, Node(p)
      PROVE  /\ ThreadCount' <= ThreadLimit + 1 \/ ThreadCount' >= M - e
             /\ main' \in {"listen", "accept", "inc1"} =>
                  ThreadCount' <= ThreadLimit \/ ThreadCount' >= M - e
             /\ main' = "inc2" => mtmp' <= ThreadLimit \/ mtmp' >= M - e
             /\ \A q \in Peers : thread'[q] = "dec2" =>
                  tmp'[q] <= ThreadLimit + 1 \/ tmp'[q] >= M - e
  <2> USE <1>0, <1>1, <1>2 DEF ThreadGoes, mainVars
  <2>1. CASE DecWrite(p)
    <3>1. ThreadCount' = IF tmp[p] = 0 THEN M - 1 ELSE tmp[p] - 1
      <4>1. ThreadCount' = (tmp[p] + CountMod - 1) % CountMod
        BY <2>1 DEF DecWrite
      <4>2. tmp[p] \in 0..(CountMod - 1)
        BY DEF TypeOK
      <4>3. QED
        BY <4>1, <4>2, <1>b, Unsigned
    <3>2. e = d + 1
      BY <1>a, <2>1
    <3>3. /\ thread[p] = "dec2" /\ thread' = [thread EXCEPT ![p] = "exit"]
          /\ UNCHANGED <<main, mtmp, tmp>>
      BY <2>1 DEF DecWrite
    <3>4. QED
      BY <3>1, <3>2, <3>3
  <2>2. CASE DecRead(p)
    BY <2>2 DEF DecRead
  <2>3. CASE \/ WaitID(p) \/ PushRead(p) \/ PushWrite(p) \/ Serve(p)
             \/ FindEnd(p) \/ FindNode(p) \/ EraseRead(p) \/ EraseWrite(p)
             \/ Exit(p)
    BY <2>3 DEF WaitID, PushRead, PushWrite, Serve, FindEnd, FindNode,
       EraseRead, Reads, EraseWrite, Exit
  <2>4. QED
    BY <1>5, <2>1, <2>2, <2>3 DEF Node
<1>6. CASE \/ \E c \in Clients : Connect(c)
           \/ \E s \in Stops : StopSet(s) \/ StopConnect(s)
           \/ UNCHANGED vars
  BY <1>0, <1>1, <1>2, <1>6
     DEF Connect, StopSet, StopConnect, vars, mainVars, nodeVars
<1>7. QED
  BY <1>4, <1>5, <1>6 DEF Next

-----------------------------------------------------------------------------
(* What the counter and the vector say while no update was overwritten.    *)

(* The connections in hand are finitely many, fewer than CountMod, so that *)
(* the counter of a server without races does not wrap.                    *)
LEMMA CountedSize ==
  /\ Counted \in SUBSET Peers /\ IsFiniteSet(Counted)
  /\ Cardinality(Counted) \in Nat /\ Cardinality(Counted) + 1 < CountMod
<1>1. Counted \in SUBSET Peers
  BY DEF Counted
<1>2. QED
  BY <1>1, PeersFinite, ServerAssumption

(* Only the store of ThreadCount++ adds to the connections in hand, and    *)
(* only that of ThreadCount-- takes from them.                             *)
LEMMA CountedKept ==
  ASSUME TypeOK, HandoffInv, [Next]_vars, ~IncWrite,
         \A p \in Peers : ~DecWrite(p)
  PROVE  Counted' = Counted
<1> USE DEF Counted
<1>0. /\ conn \in [Peers -> ConnState] /\ thread \in [Peers -> ThreadPC]
      /\ Stops \subseteq Peers
  BY DEF TypeOK, Peers
<1>1. CASE Main
  <2> USE <1>0 DEF MainGoes, nodeVars, netVars
  <2>1. CASE Accept
    <3>1. /\ cur' \in Peers /\ conn[cur'] = "queued"
          /\ conn' = [conn EXCEPT ![cur'] = "accepted"]
      BY <2>1, AcceptKeeps
    <3>2. main = "accept" /\ main' = "inc1" /\ thread' = thread
      BY <2>1 DEF Accept
    <3>3. QED
      BY <3>1, <3>2
  <2>2. CASE StopCheck
    <3>1. cur \in Peers /\ conn[cur] = "accepted"
      BY <2>2 DEF StopCheck, HandoffInv, PlaceInv
    <3>2. QED
      BY <2>2, <3>1 DEF StopCheck
  <2>3. CASE Create
    <3>1. cur \in Peers /\ thread[cur] = "none"
      BY <2>3 DEF Create, HandoffInv, PlaceInv
    <3>2. QED
      BY <2>3, <3>1 DEF Create
  <2>4. CASE CloseMain
    <3>1. /\ \A p \in Peers : conn'[p] \in {"accepted", "closed"}
                                <=> conn[p] \in {"accepted", "closed"}
          /\ main = "close" /\ main' = "drain" /\ UNCHANGED <<cur, thread>>
      BY <2>4 DEF CloseMain
    <3>2. QED
      BY <3>1
  <2>5. CASE Bind \/ LoopTest \/ Gate \/ Listen \/ IncRead \/ SetID \/ Drain
             \/ Dispose
    BY <2>5 DEF Bind, LoopTest, Gate, Listen, IncRead, SetID, Drain, Dispose
  <2>6. QED
    BY <1>1, <2>1, <2>2, <2>3, <2>4, <2>5 DEF Main
<1>2. ASSUME NEW p \in Peers, Node(p)
      PROVE  Counted' = Counted
  <2> USE <1>0 DEF ThreadGoes, mainVars, netVars
  <2>1. CASE Serve(p)
    <3>1. conn[p] \in {"accepted", "closed"}
      BY <2>1 DEF Serve, HandoffInv, PlaceInv, InHand
    <3>2. QED
      BY <2>1, <3>1 DEF Serve
  <2>2. CASE \/ WaitID(p) \/ PushRead(p) \/ PushWrite(p)
             \/ FindEnd(p) \/ FindNode(p) \/ EraseRead(p)
             \/ EraseWrite(p) \/ DecRead(p) \/ Exit(p)
    BY <2>2 DEF WaitID, PushRead, PushWrite, FindEnd, FindNode, EraseRead,
       Reads, EraseWrite, DecRead, Exit
  <2>3. QED
    BY <1>2, <2>1, <2>2 DEF Node
<1>3. ASSUME NEW p \in Peers, conn[p] = "idle",
             UNCHANGED <<main, cur, thread>>,
             UNCHANGED conn \/ conn' = [conn EXCEPT ![p] = "queued"]
      PROVE  Counted' = Counted
  BY <1>0, <1>3
<1>4. ASSUME NEW c \in Clients, Connect(c)
      PROVE  Counted' = Counted
  BY <1>3, <1>4 DEF Connect, Queue, Peers, mainVars, nodeVars
<1>5. ASSUME NEW s \in Stops, StopSet(s) \/ StopConnect(s)
      PROVE  Counted' = Counted
  <2>1. s \in Peers /\ conn[s] = "idle"
    BY <1>5 DEF StopSet, StopConnect, HandoffInv, PlaceInv, Peers
  <2>2. QED
    BY <1>3, <1>5, <2>1
       DEF StopSet, StopConnect, Queue, mainVars, netVars, nodeVars
<1>6. CASE UNCHANGED vars
  BY <1>6 DEF vars, mainVars, netVars, nodeVars
<1>7. QED
  BY <1>1, <1>2, <1>4, <1>5, <1>6 DEF Next

(* A step that is not a store of ThreadCount leaves it alone, and raced    *)
(* only grows.                                                             *)
LEMMA CountKept ==
  ASSUME [Next]_vars, ~IncWrite, \A p \in Peers : ~DecWrite(p)
  PROVE  UNCHANGED ThreadCount /\ raced \subseteq raced'
<1> USE DEF NoteRace, histVars, mainVars, netVars, nodeVars
<1>1. CASE Main
  BY <1>1 DEF Main, Bind, LoopTest, Gate, Listen, Accept, IncRead, StopCheck,
     Create, SetID, CloseMain, Drain, Dispose
<1>2. ASSUME NEW p \in Peers, Node(p)
      PROVE  UNCHANGED ThreadCount /\ raced \subseteq raced'
  <2>1. CASE PushWrite(p) \/ EraseWrite(p)
    BY <2>1 DEF PushWrite, EraseWrite
  <2>2. CASE \/ WaitID(p) \/ PushRead(p) \/ Serve(p)
             \/ FindEnd(p) \/ FindNode(p) \/ EraseRead(p)
             \/ DecRead(p) \/ Exit(p)
    BY <2>2 DEF WaitID, PushRead, Serve, FindEnd, FindNode, EraseRead, Reads,
       DecRead, Exit
  <2>3. QED
    BY <1>2, <2>1, <2>2 DEF Node
<1>3. CASE \/ \E c \in Clients : Connect(c)
           \/ \E s \in Stops : StopSet(s) \/ StopConnect(s)
           \/ UNCHANGED vars
  BY <1>3 DEF Connect, StopSet, StopConnect, vars
<1>4. QED
  BY <1>1, <1>2, <1>3 DEF Next

(* Every step keeps an unraced ThreadCount equal to the connections in     *)
(* hand (CServer.cpp:169, 230).                                            *)
LEMMA CountExactStep ==
  ASSUME TypeOK, HandoffInv, CountExactUnlessRaced, [Next]_vars
  PROVE  CountExactUnlessRaced'
<1> SUFFICES ASSUME "ThreadCount" \notin raced'
             PROVE  ThreadCount' = Cardinality(Counted')
  BY DEF CountExactUnlessRaced
<1>1. CASE IncWrite
  <2>1. mtmp = ThreadCount /\ "ThreadCount" \notin raced
        /\ ThreadCount' = (mtmp + 1) % CountMod
    BY <1>1 DEF IncWrite, NoteRace
  <2>2. ThreadCount = Cardinality(Counted)
    BY <2>1 DEF CountExactUnlessRaced
  <2>3. ThreadCount' = ThreadCount + 1
    <3>1. /\ ThreadCount \in 0..(CountMod - 1) /\ CountMod \in Nat
          /\ ThreadCount + 1 < CountMod
      BY <2>2, CountedSize, ServerAssumption DEF TypeOK
    <3>2. (ThreadCount + 1) % CountMod
            = IF ThreadCount = CountMod - 1 THEN 0 ELSE ThreadCount + 1
      BY <3>1, Unsigned
    <3>3. QED
      BY <2>1, <3>1, <3>2
  <2>4. /\ cur \in Peers /\ conn[cur] = "accepted" /\ thread[cur] = "none"
        /\ main = "inc2" /\ main' = "check" /\ UNCHANGED <<cur, conn, thread>>
    BY <1>1 DEF IncWrite, MainGoes, HandoffInv, PlaceInv, netVars, nodeVars
  <2>5. Counted' = Counted \cup {cur} /\ cur \notin Counted
    BY <2>4 DEF Counted
  <2>6. Cardinality(Counted \cup {cur}) = Cardinality(Counted) + 1
    BY <2>4, <2>5, CountedSize, OneMore
  <2>7. QED
    BY <2>2, <2>3, <2>5, <2>6
<1>2. ASSUME NEW p \in Peers, DecWrite(p)
      PROVE  ThreadCount' = Cardinality(Counted')
  <2>1. tmp[p] = ThreadCount /\ "ThreadCount" \notin raced
        /\ ThreadCount' = (tmp[p] + CountMod - 1) % CountMod
    BY <1>2 DEF DecWrite, NoteRace
  <2>2. ThreadCount = Cardinality(Counted)
    BY <2>1 DEF CountExactUnlessRaced
  <2>3. /\ thread[p] = "dec2" /\ thread' = [thread EXCEPT ![p] = "exit"]
        /\ UNCHANGED <<main, cur, conn>>
    BY <1>2 DEF DecWrite, ThreadGoes, mainVars, netVars
  <2>4. /\ conn[p] \in {"accepted", "closed"}
        /\ main \in {"inc1", "inc2"} => thread[cur] = "none"
        /\ thread \in [Peers -> ThreadPC]
    BY <2>3 DEF HandoffInv, PlaceInv, InHand, TypeOK
  <2>5. p \in Counted
    BY <2>3, <2>4 DEF Counted
  <2>6. Counted' = Counted \ {p}
    <3>1. \A q \in Peers : q # p => thread'[q] = thread[q]
      BY <2>3, <2>4
    <3>2. thread'[p] = "exit"
      BY <2>3, <2>4
    <3>3. QED
      BY <2>3, <3>1, <3>2 DEF Counted
  <2>7. Cardinality(Counted \ {p}) = Cardinality(Counted) - 1
    BY <2>5, CountedSize, FS_RemoveElement
  <2>8. ThreadCount # 0
    BY <2>2, <2>5, CountedSize, FS_EmptySet
  <2>9. ThreadCount' = ThreadCount - 1
    BY <2>1, <2>8, Unsigned DEF TypeOK
  <2>10. QED
    BY <2>2, <2>6, <2>7, <2>9
<1>3. CASE ~IncWrite /\ \A p \in Peers : ~DecWrite(p)
  BY <1>3, CountKept, CountedKept DEF CountExactUnlessRaced
<1>4. QED
  BY <1>1, <1>2, <1>3

(* The threads between push_back and removeNode.                           *)
Registered == {p \in Peers : thread[p] \in {"serve"} \cup Finding}

(* What a step has to keep, while no update was overwritten, no node moved *)
(* away from its scan and the server is there.                             *)
Undisturbed == "Nodes" \notin raced /\ ~slipped /\ main # "gone"
Registry ==
  HoldsExactly(Nodes, Registered) /\ \A p \in Peers : ScanRight(p)

LEMMA RegistrySplit == RegistryInv <=> (Undisturbed => Registry)
BY DEF RegistryInv, RegistryExactUnlessRaced, ScanInv, Undisturbed, Registry,
       Registered

(* The types of what the scans look at.                                    *)
LEMMA RegistryTypes ==
  ASSUME TypeOK, VectorInv
  PROVE  /\ thread \in [Peers -> ThreadPC] /\ Cardinality(Peers) \in Nat
         /\ Nodes \in [at : [1..Cardinality(Peers) -> Peers \cup {None}],
                      fin : Nat]
         /\ DOMAIN Nodes.at = 1..Cardinality(Peers)
         /\ Nodes.fin \in Nat /\ Nodes.fin <= Cardinality(Peers)
         /\ slot \in [Peers -> [k : Nat, f : Nat]]
         /\ \A p \in Peers : slot[p].k \in Nat /\ slot[p].f \in Nat
BY PushedSize, RecordTypes DEF TypeOK, VectorInv

(* What was disturbed stays so, until the server is gone.                  *)
LEMMA UndisturbedBefore ==
  ASSUME TypeOK, [Next]_vars, Undisturbed'
  PROVE  Undisturbed
<1> USE DEF Undisturbed, NoteRace, TypeOK, histVars, mainVars
<1>1. CASE Main
  BY <1>1 DEF Main, Bind, LoopTest, Gate, Listen, Accept, IncRead, IncWrite,
     StopCheck, Create, SetID, CloseMain, Drain, Dispose, MainGoes
<1>2. ASSUME NEW p \in Peers, Node(p)
      PROVE  Undisturbed
  BY <1>2 DEF Node, WaitID, PushRead, PushWrite, Serve, FindEnd, FindNode,
     EraseRead, Reads, EraseWrite, DecRead, DecWrite, Exit, ThreadGoes
<1>3. CASE \/ \E c \in Clients : Connect(c)
           \/ \E s \in Stops : StopSet(s) \/ StopConnect(s)
           \/ UNCHANGED vars
  BY <1>3 DEF Connect, StopSet, StopConnect, vars
<1>4. QED
  BY <1>1, <1>2, <1>3 DEF Next

(* push_back puts a node behind all that a scan may meet.                  *)
LEMMA PushRegistry ==
  ASSUME TypeOK, VectorInv, Undisturbed', Registry, NEW p \in Peers,
         PushWrite(p)
  PROVE  Registry'
<1>0. /\ thread \in [Peers -> ThreadPC] /\ Cardinality(Peers) \in Nat
      /\ Nodes \in [at : [1..Cardinality(Peers) -> Peers \cup {None}], fin : Nat]
      /\ Nodes.fin \in Nat /\ DOMAIN Nodes.at = 1..Cardinality(Peers)
  BY RegistryTypes
<1>1. /\ Nodes.fin = slot[p].f /\ Nodes' = PutAt(Nodes, Nodes.fin, p)
      /\ thread[p] = "push2" /\ thread' = [thread EXCEPT ![p] = "serve"]
      /\ slot' = slot
  BY DEF PushWrite, NoteRace, Undisturbed, ThreadGoes
<1>2. Registered' = Registered \cup {p} /\ p \notin Registered
  BY <1>0, <1>1 DEF Registered, Finding
<1>3. Nodes.fin < Cardinality(Peers)
  BY <1>0, PushedGrows, PushedSize DEF VectorInv
<1>4. HoldsExactly(Nodes', Registered')
  BY <1>0, <1>1, <1>2, <1>3, PushExact DEF Registry
<1>5. ASSUME NEW q \in Peers
      PROVE  ScanRight(q)'
  <2>1. /\ Nodes'.fin = Nodes.fin + 1 /\ Nodes'.at[Nodes.fin + 1] = p
        /\ DOMAIN Nodes'.at = 1..Cardinality(Peers)
        /\ \A i \in 1..Cardinality(Peers) :
             i # Nodes.fin + 1 => Nodes'.at[i] = Nodes.at[i]
    BY <1>0, <1>1, <1>3 DEF PutAt
  <2>2. ScanRight(q) /\ slot[q].k \in Nat
        /\ (thread[q] \in Finding => 1 <= slot[q].k)
    BY RegistryTypes DEF Registry, VectorInv
  <2>3. CASE q = p
    BY <1>0, <1>1, <2>3 DEF ScanRight
  <2>4. CASE q # p
    <3>1. thread'[q] = thread[q]
      BY <1>0, <1>1, <2>4
    <3>2. SlotsOf(Nodes, q)' \subseteq SlotsOf(Nodes, q)
      BY <1>0, <2>1, <2>4 DEF SlotsOf
    <3>3. QED
      BY <1>0, <1>1, <1>3, <2>1, <2>2, <3>1, <3>2 DEF ScanRight, Finding
  <2>5. QED
    BY <2>3, <2>4
<1>6. QED
  BY <1>4, <1>5 DEF Registry

(* erase takes its own node out, and moves no other past its scan.         *)
LEMMA EraseRegistry ==
  ASSUME TypeOK, VectorInv, Undisturbed', Registry, NEW p \in Peers,
         EraseWrite(p)
  PROVE  Registry'
<1> DEFINE k == slot[p].k
<1>0. /\ thread \in [Peers -> ThreadPC] /\ Cardinality(Peers) \in Nat
      /\ Nodes \in [at : [1..Cardinality(Peers) -> Peers \cup {None}], fin : Nat]
      /\ Nodes.fin \in Nat /\ DOMAIN Nodes.at = 1..Cardinality(Peers)
      /\ Nodes.fin <= Cardinality(Peers) /\ k \in Nat
  BY RegistryTypes
<1>1. /\ Nodes' = CutAt(Nodes, k, Nodes.fin) /\ ~Slips(p, k)
      /\ thread[p] = "erase2" /\ thread' = [thread EXCEPT ![p] = "dec1"]
      /\ slot' = [slot EXCEPT ![p] = NoSlot]
  BY DEF EraseWrite, NoteRace, Undisturbed, ThreadGoes
<1>2. k \in 1..Nodes.fin /\ Nodes.at[k] = p
  BY <1>0, <1>1 DEF Registry, ScanRight, VectorInv, Finding
<1>3. HoldsExactly(Nodes', Registered \ {p})
  <2>1. HoldsExactly(Nodes, Registered)
    BY DEF Registry
  <2> HIDE DEF k
  <2>2. QED
    BY <1>0, <1>1, <1>2, <2>1, CutExact
<1>4. Registered' = Registered \ {p}
  BY <1>0, <1>1 DEF Registered, Finding
<1>5. ASSUME NEW q \in Peers
      PROVE  ScanRight(q)'
  <2>1. /\ Nodes'.fin = Nodes.fin - 1
        /\ DOMAIN Nodes'.at = 1..Cardinality(Peers)
        /\ \A i \in 1..Cardinality(Peers) :
             Nodes'.at[i] = IF k <= i /\ i < Nodes.fin THEN Nodes.at[i + 1]
                                                       ELSE Nodes.at[i]
    BY <1>0, <1>1 DEF CutAt
  <2>2. /\ ScanRight(q) /\ slot[q].k \in Nat
        /\ thread[q] \in Finding => 1 <= slot[q].k
    BY RegistryTypes DEF Registry, VectorInv
  <2>3. CASE q = p
    BY <1>0, <1>1, <2>3 DEF ScanRight
  <2>4. CASE q # p
    <3>1. thread'[q] = thread[q] /\ slot'[q] = slot[q]
      BY <1>0, <1>1, <2>4, RegistryTypes
    <3>2. thread[q] \in Finding /\ slot[q].k <= Nodes.fin
            /\ Nodes.at[slot[q].k] = q => slot[q].k < k
      <4> HIDE DEF k
      <4>1. QED
        BY <1>0, <1>1, <2>2, <2>4 DEF Slips
    <3>3. ASSUME thread[q] \in {"scan", "look"}, NEW i \in SlotsOf(Nodes, q)'
          PROVE  slot[q].k <= i
      <4>1. /\ i \in 1..Cardinality(Peers) /\ i <= Nodes.fin - 1
            /\ Nodes'.at[i] = q
        BY <2>1 DEF SlotsOf
      <4>2. \A j \in 1..Cardinality(Peers) :
              j <= Nodes.fin /\ Nodes.at[j] = q => slot[q].k <= j
        BY <1>0, <2>2, <3>3 DEF ScanRight, SlotsOf
      <4>3. CASE i < k
        BY <1>0, <2>1, <4>1, <4>2, <4>3
      <4>4. CASE k <= i
        <5>1. i + 1 \in 1..Cardinality(Peers) /\ i + 1 <= Nodes.fin
              /\ Nodes.at[i + 1] = q
          <6>1. i + 1 \in 1..Cardinality(Peers) /\ i + 1 <= Nodes.fin
            BY <1>0, <4>1
          <6>2. Nodes'.at[i] = Nodes.at[i + 1]
            BY <1>0, <2>1, <4>1, <4>4
          <6>3. QED
            BY <4>1, <6>1, <6>2
        <5>2. slot[q].k <= i + 1
          BY <4>2, <5>1
        <5>3. slot[q].k # i + 1
          BY <1>0, <3>2, <3>3, <4>1, <4>4, <5>1 DEF Finding
        <5>4. QED
          BY <2>2, <4>1, <5>2, <5>3
      <4>5. QED
        BY <1>0, <4>1, <4>3, <4>4
    <3>4. ASSUME thread[q] \in {"erase1", "erase2"}
          PROVE  slot[q].k <= Nodes'.fin /\ Nodes'.at[slot[q].k] = q
      <4>1. /\ slot[q].k \in 1..Nodes.fin /\ Nodes.at[slot[q].k] = q
            /\ slot[q].k < k
        BY <1>0, <2>2, <3>2, <3>4 DEF ScanRight, Finding
      <4>2. /\ slot[q].k \in 1..Cardinality(Peers)
            /\ slot[q].k <= Nodes.fin - 1 /\ ~(k <= slot[q].k)
        BY <1>0, <1>2, <4>1
      <4>3. Nodes'.at[slot[q].k] = Nodes.at[slot[q].k]
        BY <2>1, <4>2
      <4>4. QED
        BY <2>1, <4>1, <4>2, <4>3
    <3>5. thread[q] # "lost"
      BY <2>2 DEF ScanRight
    <3>6. QED
      BY <3>1, <3>3, <3>4, <3>5 DEF ScanRight
  <2>5. QED
    BY <2>3, <2>4
<1>6. QED
  BY <1>3, <1>4, <1>5 DEF Registry

(* A scan finds its node before it meets end(), and erase a slot below it. *)
LEMMA FindRegistry ==
  ASSUME TypeOK, VectorInv, Registry, NEW p \in Peers,
         FindEnd(p) \/ FindNode(p) \/ EraseRead(p)
  PROVE  Registry'
<1>0. /\ thread \in [Peers -> ThreadPC] /\ Cardinality(Peers) \in Nat
      /\ Nodes.fin \in Nat /\ DOMAIN Nodes.at = 1..Cardinality(Peers)
      /\ slot \in [Peers -> [k : Nat, f : Nat]] /\ slot[p].k \in Nat
      /\ Nodes' = Nodes /\ ScanRight(p)
  BY RegistryTypes DEF FindEnd, FindNode, EraseRead, Reads, Registry
<1>1. thread[p] \in {"scan", "look", "erase1"}
  BY DEF FindEnd, FindNode, EraseRead, ThreadGoes
<1>2. PICK i \in SlotsOf(Nodes, p) : TRUE
  BY <1>1 DEF Registry, Registered, Finding, HoldsExactly, Elements, SlotsOf
<1>3. i \in Nat /\ i <= Nodes.fin /\ Nodes.at[i] = p
  BY <1>0 DEF SlotsOf
<1>4. /\ thread' = [thread EXCEPT ![p] = thread'[p]]
      /\ thread'[p] \in {"scan", "look", "erase1", "erase2"}
      /\ \A q \in Peers \ {p} : slot'[q] = slot[q]
      /\ ScanRight(p)'
  <2>1. CASE FindEnd(p)
    BY <1>0, <1>3, <2>1 DEF FindEnd, ThreadGoes, ScanRight
  <2>2. CASE FindNode(p)
    <3>1. \A j \in SlotsOf(Nodes, p) : slot[p].k <= j /\ j \in Nat
          /\ Nodes.at[j] = p
      BY <1>0, <2>2 DEF FindNode, ScanRight, SlotsOf
    <3>2. QED
      BY <1>0, <1>3, <2>2, <3>1 DEF FindNode, ThreadGoes, ScanRight
  <2>3. CASE EraseRead(p)
    BY <1>0, <2>3 DEF EraseRead, ThreadGoes, ScanRight
  <2>4. QED
    BY <2>1, <2>2, <2>3
<1>5. Registered' = Registered
  BY <1>0, <1>1, <1>4 DEF Registered, Finding
<1>6. \A q \in Peers \ {p} : ScanRight(q)'
  BY <1>0, <1>4 DEF Registry, ScanRight
<1>7. QED
  BY <1>0, <1>4, <1>5, <1>6 DEF Registry

(* Every step keeps an undisturbed Nodes exact: push_back adds its own     *)
(* node, the scan of removeNode finds it, and erase takes it out           *)
(* (CServer.cpp:228, 233-243).                                             *)
LEMMA RegistryStep ==
  ASSUME TypeOK, VectorInv, HandoffInv, RegistryInv, [Next]_vars
  PROVE  RegistryInv'
<1> SUFFICES ASSUME Undisturbed'
             PROVE  Registry'
  BY RegistrySplit, PTL
<1>0. /\ thread \in [Peers -> ThreadPC]
      /\ slot \in [Peers -> [k : Nat, f : Nat]]
      /\ DOMAIN Nodes.at = 1..Cardinality(Peers)
  BY RegistryTypes
<1>1. Undisturbed /\ Registry
  BY UndisturbedBefore, RegistrySplit
<1>2. CASE Main
  <2>1. ~Dispose
    BY DEF Dispose, MainGoes, Undisturbed
  <2>2. UNCHANGED <<Nodes, slot>>
    BY <1>2, <2>1 DEF Main, Bind, LoopTest, Gate, Listen, Accept, IncRead,
       IncWrite, StopCheck, Create, SetID, CloseMain, Drain, nodeVars
  <2>3. \A q \in Peers : \/ thread'[q] = thread[q]
                         \/ thread[q] = "none" /\ thread'[q] = "wait"
    <3>1. CASE Create
      <4>1. cur \in Peers /\ thread[cur] = "none"
        BY <3>1 DEF Create, MainGoes, HandoffInv, PlaceInv
      <4>2. QED
        BY <1>0, <3>1, <4>1 DEF Create
    <3>2. CASE ~Create
      BY <1>2, <2>1, <3>2 DEF Main, Bind, LoopTest, Gate, Listen, Accept,
         IncRead, IncWrite, StopCheck, SetID, CloseMain, Drain, nodeVars
    <3>3. QED
      BY <3>1, <3>2
  <2>4. Registered' = Registered
    BY <2>3 DEF Registered, Finding
  <2>5. \A q \in Peers : ScanRight(q)'
    BY <1>1, <2>2, <2>3 DEF Registry, ScanRight
  <2>6. QED
    BY <1>1, <2>2, <2>4, <2>5 DEF Registry
<1>3. ASSUME NEW p \in Peers, Node(p)
      PROVE  Registry'
  <2>1. CASE PushWrite(p)
    BY <1>1, <2>1, PushRegistry
  <2>2. CASE EraseWrite(p)
    BY <1>1, <2>2, EraseRegistry
  <2>3. CASE FindEnd(p) \/ FindNode(p) \/ EraseRead(p)
    BY <1>1, <2>3, FindRegistry
  <2>4. CASE \/ WaitID(p) \/ PushRead(p) \/ Serve(p)
             \/ DecRead(p) \/ DecWrite(p) \/ Exit(p)
    <3>1. /\ Nodes' = Nodes
          /\ \A q \in Peers \ {p} : thread'[q] = thread[q] /\ slot'[q] = slot[q]
          /\ \/ thread[p] \in {"wait", "push1", "dec1", "dec2", "exit"}
                /\ thread'[p] \in {"push1", "push2", "dec2", "exit", "done"}
             \/ /\ thread[p] = "serve" /\ thread'[p] = "scan"
                /\ slot'[p].k = 1
      BY <1>0, <2>4 DEF WaitID, PushRead, Serve, DecRead, DecWrite, Exit,
         ThreadGoes
    <3>2. Registered' = Registered
      BY <3>1 DEF Registered, Finding
    <3>3. \A q \in Peers : ScanRight(q)'
      <4>1. \A i \in SlotsOf(Nodes', p) : 1 <= i
        <5>1. SlotsOf(Nodes', p) = SlotsOf(Nodes, p)
          BY <3>1
        <5>2. \A i \in SlotsOf(Nodes, p) : 1 <= i
          BY <1>0 DEF SlotsOf
        <5>3. QED
          BY <5>1, <5>2
      <4>2. ScanRight(p)'
        BY <3>1, <4>1 DEF ScanRight
      <4>3. \A q \in Peers \ {p} : ScanRight(q)'
        BY <1>1, <3>1 DEF Registry, ScanRight
      <4>4. QED
        BY <4>2, <4>3
    <3>4. QED
      BY <1>1, <3>1, <3>2, <3>3 DEF Registry
  <2>5. QED
    BY <1>3, <2>1, <2>2, <2>3, <2>4 DEF Node
<1>4. CASE \/ \E c \in Clients : Connect(c)
           \/ \E s \in Stops : StopSet(s) \/ StopConnect(s)
           \/ UNCHANGED vars
  <2>1. UNCHANGED <<Nodes, thread, slot>>
    BY <1>4 DEF Connect, StopSet, StopConnect, vars, nodeVars
  <2>2. QED
    BY <1>1, <2>1 DEF Registry, Registered, ScanRight
<1>5. QED
  BY <1>2, <1>3, <1>4 DEF Next

-----------------------------------------------------------------------------
(* The theorems. *)

(* The constructor and the entry of run() establish the invariant.         *)
LEMMA ServerInit ==
  ASSUME Init
  PROVE  ServerIInv
<1>1. Cardinality(Peers) \in Nat /\ Stops \subseteq Peers /\ CountMod \in Nat
      /\ ThreadLimit \in Nat /\ 0 < CountMod
  BY PeersFinite, ServerAssumption DEF Peers
<1>2. Pushed = {} /\ Decremented = {} /\ Cardinality({}) = 0
  BY FS_EmptySet DEF Init, Pushed, Decremented
<1>3. TypeOK
  <2>1. /\ Nodes \in [at : [1..Cardinality(Peers) -> Peers \cup {None}],
                     fin : Nat]
        /\ slot \in [Peers -> [k : Nat, f : Nat]]
    BY <1>1 DEF Init, EmptyVec, NoSlot
  <2>2. backlog \in Seq(Peers) /\ 0 \in 0..(CountMod - 1)
    BY <1>1 DEF Init
  <2>3. QED
    BY <2>1, <2>2 DEF Init, TypeOK, MainPC, ThreadPC, ConnState, PkgState
<1>4. VectorInv
  BY <1>2 DEF Init, VectorInv, EmptyVec, NoSlot, Finding
<1>5. HandoffInv
  BY <1>1 DEF Init, HandoffInv, PlaceInv, HandoffSafe
<1>6. LateInv
  BY <1>1 DEF Init, LateInv, LateNeverServed
<1>7. CountInv
  BY <1>1, <1>2 DEF Init, CountInv, CountBounded, Wrapped
<1>8. RegistryInv
  BY DEF Init, RegistryInv, RegistryExactUnlessRaced, HoldsExactly, Elements,
         EmptyVec, ScanInv, ScanRight, Finding
<1>9. QED
  BY <1>3, <1>4, <1>5, <1>6, <1>7, <1>8 DEF ServerIInv

(* The invariant is inductive: it holds at the start and every step of     *)
(* run(), of a node thread and of stop() keeps it.                         *)
THEOREM ServerInvariance == Spec => []ServerIInv
<1>1. Init => ServerIInv
  BY ServerInit
<1>2. ServerIInv /\ [Next]_vars => ServerIInv'
  BY TypeStep, VectorStep, HandoffStep, LateStep, CountStep, RegistryStep
     DEF ServerIInv
<1>3. QED
  BY <1>1, <1>2, PTL DEF Spec

(* Types: ThreadCount stays in its unsigned range and the vector of nodes  *)
(* inside its slots under every race of push_back, erase and the counter.  *)
THEOREM ServerTypes == Spec => []TypeOK
<1>1. ServerIInv => TypeOK
  BY DEF ServerIInv
<1>2. QED
  BY <1>1, ServerInvariance, PTL

(* The main thread and a node thread never use a package the other has     *)
(* deleted or not yet given an ID (CServer.cpp:184-191, 212-221).          *)
THEOREM ServerHandoff == Spec => []HandoffSafe
<1>1. ServerIInv => HandoffSafe
  BY DEF ServerIInv, HandoffInv
<1>2. QED
  BY <1>1, ServerInvariance, PTL

(* No connection that arrives after stop() has set StopSignal is served    *)
(* (CServer.cpp:156, 175, 422-429).                                        *)
THEOREM ServerLate == Spec => []LateNeverServed
<1>1. ServerIInv => LateNeverServed
  BY DEF ServerIInv, LateInv
<1>2. QED
  BY <1>1, ServerInvariance, PTL

(* However updates of ThreadCount are lost, it exceeds ThreadLimit + 1     *)
(* only by having wrapped below zero (CServer.cpp:159, 169, 230).          *)
THEOREM ServerCount == Spec => []CountBounded
<1>1. ServerIInv => CountBounded
  BY DEF ServerIInv, CountInv
<1>2. QED
  BY <1>1, ServerInvariance, PTL

(* Without an overwritten update ThreadCount is the number of connections  *)
(* in hand, for every schedule and limit (CServer.cpp:169, 230).           *)
THEOREM ServerCountExact == Spec => []CountExactUnlessRaced
<1>1. Init => CountExactUnlessRaced
  <2>1. Init => Counted = {}
    BY DEF Init, Counted
  <2>2. QED
    BY <2>1, FS_EmptySet DEF Init, CountExactUnlessRaced
<1>2. ServerIInv /\ CountExactUnlessRaced /\ [Next]_vars
        => CountExactUnlessRaced'
  BY CountExactStep DEF ServerIInv
<1>3. QED
  BY <1>1, <1>2, ServerInvariance, PTL DEF Spec

(* Nodes holds the running nodes, each once, which the drain loop of run() *)
(* counts on (CServer.cpp:196-202, 235-241), for every number of threads   *)
(* and every schedule of their scans, until an update is overwritten or an *)
(* erase moves a node away from the scan that is about to look at it.      *)
THEOREM ServerRegistry == Spec => []RegistryExactUnlessRaced
<1>1. ServerIInv => RegistryExactUnlessRaced
  BY DEF ServerIInv, RegistryInv
<1>2. QED
  BY <1>1, ServerInvariance, PTL
=============================================================================
