------------------------------- MODULE Server -------------------------------
(***************************************************************************)
(* CServer: the accept loop of CServer::run on the main thread, one        *)
(* detached node thread for every connection it hands over, the threads    *)
(* that call CServer::stop, and the shutdown.                              *)
(*                                                                         *)
(* Every shared field is a plain member with no lock and no atomic:        *)
(* StopSignal, ThreadCount and the vector Nodes.  A load and a store of    *)
(* one thread are two steps here whenever another thread may write the     *)
(* field in between (ThreadCount++, ThreadCount--, push_back, erase); the  *)
(* scan of removeNode is a step for each end() and each element it reads.  *)
(***************************************************************************)
EXTENDS Integers, Sequences, FiniteSets, RawVector

CONSTANTS
  Clients,        (* connections that clients open; each is used once      *)
  Stops,          (* calls of stop(); each opens one connection of its own *)
  ThreadLimit,    (* setThreadLimit                                        *)
  CountMod,       (* ThreadCount is unsigned: 2^32 in the code             *)
  CreateMayFail,  (* whether pthread_create may fail                       *)
  None            (* an empty slot of Nodes, no current socket             *)

Peers == Clients \cup Stops

ASSUME ServerAssumption ==
  /\ IsFiniteSet(Clients) /\ IsFiniteSet(Stops) /\ Clients \cap Stops = {}
  /\ ThreadLimit \in Nat /\ CountMod \in Nat
  /\ ThreadLimit + 1 + Cardinality(Peers) < CountMod
  /\ CreateMayFail \in BOOLEAN
  /\ None \notin Peers

VARIABLES
  main,         (* program counter of the thread in run()                  *)
  cur,          (* the socket accept() returned last                       *)
  mtmp,         (* the value ThreadCount++ loaded                          *)
  StopSignal,
  ThreadCount,
  listening,    (* the kernel queues connections to ListenPort             *)
  backlog,      (* connections queued by the kernel, oldest first          *)
  conn,         (* [Peers -> ConnState]                                    *)
  pkg,          (* the SServerPackage made for a connection                *)
  thread,       (* program counters of the node threads                    *)
  tmp,          (* the value a node thread's ThreadCount-- loaded          *)
  Nodes,        (* std::vector<CNode*>, the node named by its connection   *)
  slot,         (* a node thread's iterator, and the finish it loaded      *)
  stopper,      (* program counters of the stop() calls                    *)
  late,         (* history: connections queued after StopSignal was set    *)
  raced,        (* history: fields one of whose updates was overwritten    *)
  slipped       (* history: an erase moved a node away from the iterator   *)
                (* with which its own removeNode stood at it               *)

mainVars  == <<main, cur, mtmp>>
netVars   == <<listening, backlog, conn>>
nodeVars  == <<thread, tmp, slot>>
histVars  == <<late, raced, slipped>>
vars == <<mainVars, StopSignal, ThreadCount, netVars, pkg, nodeVars, Nodes,
          stopper, histVars>>

MainPC   == {"bind", "loop", "gate", "listen", "accept", "inc1", "inc2",
             "check", "create", "setid", "close", "drain", "returned",
             "failed", "gone"}
ThreadPC == {"none", "wait", "push1", "push2", "serve", "scan", "look",
             "erase1", "erase2", "dec1", "dec2", "exit", "done",
             "lost"}    \* past end(), where nothing is defined
ConnState == {"idle", "queued", "accepted", "closed", "reset"}
PkgState  == {"none", "noid", "id", "freed"}
NoSlot    == [k |-> 0, f |-> 0]

Init ==
  /\ main = "bind" /\ cur = None /\ mtmp = 0
  /\ StopSignal = FALSE /\ ThreadCount = 0
  /\ listening = FALSE /\ backlog = <<>>
  /\ conn = [p \in Peers |-> "idle"]
  /\ pkg = [p \in Peers |-> "none"]
  /\ thread = [p \in Peers |-> "none"]
  /\ tmp = [p \in Peers |-> 0]
  /\ slot = [p \in Peers |-> NoSlot]
  /\ Nodes = EmptyVec(Cardinality(Peers), None)
  /\ stopper = [s \in Stops |-> "idle"]
  /\ late = {} /\ raced = {} /\ slipped = FALSE

MainGoes(from, to)      == main = from /\ main' = to
ThreadGoes(p, from, to) == /\ main # "gone" /\ thread[p] = from
                           /\ thread' = [thread EXCEPT ![p] = to]

(* A field is raced when a thread stores a value computed from a load that *)
(* another thread's store has made stale.                                  *)
NoteRace(field, stale) == raced' = IF stale THEN raced \cup {field} ELSE raced

-----------------------------------------------------------------------------
(* The main thread: CServer::run, then dispose(). *)

(* Creation of MainSocket and bind(ListenPort). *)
Bind ==
  /\ \/ MainGoes("bind", "loop")
     \/ MainGoes("bind", "failed")
  /\ UNCHANGED <<cur, mtmp, StopSignal, ThreadCount, netVars, pkg, nodeVars,
                 Nodes, stopper, histVars>>

(* while (!StopSignal) *)
LoopTest ==
  /\ \/ ~StopSignal /\ MainGoes("loop", "gate")
     \/ StopSignal /\ MainGoes("loop", "close")
  /\ UNCHANGED <<cur, mtmp, StopSignal, ThreadCount, netVars, pkg, nodeVars,
                 Nodes, stopper, histVars>>

(* mutant of Gate: the limit is not looked at *)
Gate_NoLimit ==
  /\ MainGoes("gate", "listen")
  /\ UNCHANGED <<cur, mtmp, StopSignal, ThreadCount, netVars, pkg, nodeVars,
                 Nodes, stopper, histVars>>

(* while (ThreadCount > ThreadLimit) sleep(1): StopSignal is not tested. *)
Gate ==
  /\ ThreadCount <= ThreadLimit
  /\ MainGoes("gate", "listen")
  /\ UNCHANGED <<cur, mtmp, StopSignal, ThreadCount, netVars, pkg, nodeVars,
                 Nodes, stopper, histVars>>

Listen ==
  /\ MainGoes("listen", "accept")
  /\ listening' = TRUE
  /\ UNCHANGED <<cur, mtmp, StopSignal, ThreadCount, backlog, conn, pkg,
                 nodeVars, Nodes, stopper, histVars>>

(* accept() retries every failure, the receive timeout included, so it     *)
(* returns only with a connection: run() creates MainSocket itself and     *)
(* puts no address on its blacklist.                                       *)
Accept ==
  /\ MainGoes("accept", "inc1")
  /\ backlog # <<>>
  /\ cur' = Head(backlog)
  /\ backlog' = Tail(backlog)
  /\ conn' = [conn EXCEPT ![Head(backlog)] = "accepted"]
  /\ UNCHANGED <<mtmp, StopSignal, ThreadCount, listening, pkg, nodeVars,
                 Nodes, stopper, histVars>>

(* ThreadCount++ *)
IncRead ==
  /\ MainGoes("inc1", "inc2")
  /\ mtmp' = ThreadCount
  /\ UNCHANGED <<cur, StopSignal, ThreadCount, netVars, pkg, nodeVars, Nodes,
                 stopper, histVars>>

IncWrite ==
  /\ MainGoes("inc2", "check")
  /\ ThreadCount' = (mtmp + 1) % CountMod
  /\ NoteRace("ThreadCount", mtmp # ThreadCount)
  /\ UNCHANGED <<cur, mtmp, StopSignal, netVars, pkg, nodeVars, Nodes,
                 stopper, late, slipped>>

(* mutant of StopCheck: the flag is tested by the loop only *)
StopCheck_LoopOnly ==
  /\ MainGoes("check", "create")
  /\ pkg' = [pkg EXCEPT ![cur] = "noid"]
  /\ UNCHANGED <<cur, mtmp, StopSignal, ThreadCount, netVars, nodeVars, Nodes,
                 stopper, histVars>>

(* The second test of StopSignal: the socket is closed and deleted, or a   *)
(* package is made for it.                                                 *)
StopCheck ==
  /\ \/ /\ StopSignal
        /\ MainGoes("check", "close")
        /\ conn' = [conn EXCEPT ![cur] = "closed"]
        /\ UNCHANGED pkg
     \/ /\ ~StopSignal
        /\ MainGoes("check", "create")
        /\ pkg' = [pkg EXCEPT ![cur] = "noid"]
        /\ UNCHANGED conn
  /\ UNCHANGED <<cur, mtmp, StopSignal, ThreadCount, listening, backlog,
                 nodeVars, Nodes, stopper, histVars>>

(* TH.create(thread_runNode, pkg, ...): its return code is ignored. *)
Create ==
  /\ MainGoes("create", "setid")
  /\ \/ thread' = [thread EXCEPT ![cur] = "wait"]
     \/ CreateMayFail /\ UNCHANGED thread
  /\ UNCHANGED <<cur, mtmp, StopSignal, ThreadCount, netVars, pkg, tmp, slot,
                 Nodes, stopper, histVars>>

(* mutant of SetID: the package keeps ID = 0 *)
SetID_Forgotten ==
  /\ MainGoes("setid", "loop")
  /\ UNCHANGED <<cur, mtmp, StopSignal, ThreadCount, netVars, pkg, nodeVars,
                 Nodes, stopper, histVars>>

(* pkg->ID = threadId: the last access of the main thread to the package. *)
SetID ==
  /\ MainGoes("setid", "loop")
  /\ pkg' = [pkg EXCEPT ![cur] = "id"]
  /\ UNCHANGED <<cur, mtmp, StopSignal, ThreadCount, netVars, nodeVars, Nodes,
                 stopper, histVars>>

(* MainSocket->close(), delete MainSocket: the kernel resets what is still *)
(* queued.                                                                 *)
CloseMain ==
  /\ MainGoes("close", "drain")
  /\ listening' = FALSE
  /\ backlog' = <<>>
  /\ conn' = [p \in Peers |-> IF conn[p] = "queued" THEN "reset" ELSE conn[p]]
  /\ UNCHANGED <<cur, mtmp, StopSignal, ThreadCount, pkg, nodeVars, Nodes,
                 stopper, histVars>>

(* while (Nodes.size() > 0) sleep(1) *)
Drain ==
  /\ Nodes.fin = 0
  /\ MainGoes("drain", "returned")
  /\ UNCHANGED <<cur, mtmp, StopSignal, ThreadCount, netVars, pkg, nodeVars,
                 Nodes, stopper, histVars>>

(* dispose() after run() has returned: ~CServer pops and deletes the nodes *)
(* it still finds; pthread_join of a detached thread does not wait.  What  *)
(* a thread that is still there does with a deleted server is undefined:   *)
(* the model ends here, and RunWaitsForNodes asks whether there is one.    *)
Dispose ==
  /\ \/ MainGoes("returned", "gone")
     \/ MainGoes("failed", "gone")
  /\ Nodes' = [Nodes EXCEPT !.fin = 0]
  /\ UNCHANGED <<cur, mtmp, StopSignal, ThreadCount, netVars, pkg, nodeVars,
                 stopper, histVars>>

Main ==
  \/ Bind \/ LoopTest \/ Gate \/ Listen \/ Accept \/ IncRead \/ IncWrite
  \/ StopCheck \/ Create \/ SetID \/ CloseMain \/ Drain \/ Dispose

-----------------------------------------------------------------------------
(* A node thread: thread_runNode, runNode, CNode::run and CNode::dispose. *)

(* mutant of WaitID: the thread does not wait for the ID *)
WaitID_NoWait(p) ==
  /\ ThreadGoes(p, "wait", "push1")
  /\ UNCHANGED <<mainVars, StopSignal, ThreadCount, netVars, pkg, tmp, slot,
                 Nodes, stopper, histVars>>

(* while (pkg->ID == 0) usleep(1); then the CNode is constructed. *)
WaitID(p) ==
  /\ pkg[p] # "noid"
  /\ ThreadGoes(p, "wait", "push1")
  /\ UNCHANGED <<mainVars, StopSignal, ThreadCount, netVars, pkg, tmp, slot,
                 Nodes, stopper, histVars>>

(* Nodes.push_back(node) *)
PushRead(p) ==
  /\ ThreadGoes(p, "push1", "push2")
  /\ slot' = [slot EXCEPT ![p].f = Nodes.fin]
  /\ UNCHANGED <<mainVars, StopSignal, ThreadCount, netVars, pkg, tmp, Nodes,
                 stopper, histVars>>

PushWrite(p) ==
  /\ ThreadGoes(p, "push2", "serve")
  /\ Nodes' = PutAt(Nodes, slot[p].f, p)
  /\ NoteRace("Nodes", Nodes.fin # slot[p].f)
  /\ UNCHANGED <<mainVars, StopSignal, ThreadCount, netVars, pkg, tmp, slot,
                 stopper, late, slipped>>

(* CNode::run up to "delete Socket": the request is read, answered or      *)
(* given up on, and the socket is closed; then removeNode(this) begins.    *)
Serve(p) ==
  /\ ThreadGoes(p, "serve", "scan")
  /\ conn' = [conn EXCEPT ![p] = "closed"]
  /\ slot' = [slot EXCEPT ![p] = [k |-> 1, f |-> 0]]
  /\ UNCHANGED <<mainVars, StopSignal, ThreadCount, listening, backlog, pkg,
                 tmp, Nodes, stopper, histVars>>

(* removeNode touches nothing but the vector; before EraseWrite it only    *)
(* reads it.                                                               *)
Reads(p) ==
  UNCHANGED <<mainVars, StopSignal, ThreadCount, netVars, pkg, tmp, Nodes,
              stopper, histVars>>

(* mutant of FindEnd: the scan stops one short of end() *)
FindEnd_OneShort(p) ==
  /\ \/ slot[p].k < Nodes.fin /\ ThreadGoes(p, "scan", "look")
     \/ slot[p].k >= Nodes.fin /\ ThreadGoes(p, "scan", "dec1")
  /\ UNCHANGED slot /\ Reads(p)

(* it != Nodes.end(), which is loaded for each element: an iterator that   *)
(* has passed it goes on through the memory behind.                        *)
FindEnd(p) ==
  /\ \/ slot[p].k <= Nodes.fin /\ ThreadGoes(p, "scan", "look")
     \/ slot[p].k = Nodes.fin + 1 /\ ThreadGoes(p, "scan", "dec1")
     \/ slot[p].k > Nodes.fin + 1 /\ ThreadGoes(p, "scan", "lost")
  /\ UNCHANGED slot /\ Reads(p)

(* ( *it) == node, or ++it                                                 *)
FindNode(p) ==
  /\ thread[p] = "look"
  /\ \/ /\ Nodes.at[slot[p].k] = p
        /\ ThreadGoes(p, "look", "erase1") /\ UNCHANGED slot
     \/ /\ Nodes.at[slot[p].k] # p
        /\ ThreadGoes(p, "look", "scan")
        /\ slot' = [slot EXCEPT ![p].k = @ + 1]
  /\ Reads(p)

(* Nodes.erase(it) loads finish; of an iterator past it, it is undefined.  *)
EraseRead(p) ==
  /\ \/ slot[p].k <= Nodes.fin /\ ThreadGoes(p, "erase1", "erase2")
     \/ slot[p].k > Nodes.fin /\ ThreadGoes(p, "erase1", "lost")
  /\ slot' = [slot EXCEPT ![p].f = Nodes.fin]
  /\ Reads(p)

(* The threads in removeNode that stand at their node, and whose node the  *)
(* erase of slot k moves away.                                             *)
Finding == {"scan", "look", "erase1", "erase2"}
Slips(p, k) ==
  \E u \in Peers \ {p} :
    /\ thread[u] \in Finding
    /\ slot[u].k <= Nodes.fin /\ Nodes.at[slot[u].k] = u
    /\ k <= slot[u].k

(* The elements behind move down, finish is stored; then delete this.      *)
EraseWrite(p) ==
  /\ ThreadGoes(p, "erase2", "dec1")
  /\ Nodes' = CutAt(Nodes, slot[p].k, slot[p].f)
  /\ NoteRace("Nodes", Nodes.fin # slot[p].f)
  /\ slipped' = (slipped \/ Slips(p, slot[p].k))
  /\ slot' = [slot EXCEPT ![p] = NoSlot]
  /\ UNCHANGED <<mainVars, StopSignal, ThreadCount, netVars, pkg, tmp,
                 stopper, late>>

(* ThreadCount-- *)
DecRead(p) ==
  /\ ThreadGoes(p, "dec1", "dec2")
  /\ tmp' = [tmp EXCEPT ![p] = ThreadCount]
  /\ UNCHANGED <<mainVars, StopSignal, ThreadCount, netVars, pkg, slot, Nodes,
                 stopper, histVars>>

(* mutant of DecWrite: no decrement at all *)
DecWrite_Missing(p) ==
  /\ ThreadGoes(p, "dec2", "exit")
  /\ UNCHANGED <<mainVars, StopSignal, ThreadCount, netVars, pkg, tmp, slot,
                 Nodes, stopper, histVars>>

DecWrite(p) ==
  /\ ThreadGoes(p, "dec2", "exit")
  /\ ThreadCount' = (tmp[p] + CountMod - 1) % CountMod
  /\ NoteRace("ThreadCount", tmp[p] # ThreadCount)
  /\ UNCHANGED <<mainVars, StopSignal, netVars, pkg, tmp, slot, Nodes,
                 stopper, late, slipped>>

(* delete pkg; pthread_exit(0) *)
Exit(p) ==
  /\ ThreadGoes(p, "exit", "done")
  /\ pkg' = [pkg EXCEPT ![p] = "freed"]
  /\ UNCHANGED <<mainVars, StopSignal, ThreadCount, netVars, tmp, slot, Nodes,
                 stopper, histVars>>

Node(p) ==
  \/ WaitID(p) \/ PushRead(p) \/ PushWrite(p) \/ Serve(p)
  \/ FindEnd(p) \/ FindNode(p) \/ EraseRead(p) \/ EraseWrite(p)
  \/ DecRead(p) \/ DecWrite(p) \/ Exit(p)

-----------------------------------------------------------------------------
(* The environment: clients, and the threads or signal handlers in stop(). *)

Queue(p) ==
  /\ backlog' = Append(backlog, p)
  /\ conn' = [conn EXCEPT ![p] = "queued"]
  /\ late' = IF StopSignal THEN late \cup {p} ELSE late

(* A client connects; before listen() and after close it is refused, which *)
(* leaves no trace.                                                        *)
Connect(c) ==
  /\ conn[c] = "idle" /\ listening
  /\ Queue(c)
  /\ UNCHANGED <<mainVars, StopSignal, ThreadCount, listening, pkg, nodeVars,
                 Nodes, stopper, raced, slipped>>

(* stop(): first the flag ... *)
StopSet(s) ==
  /\ stopper[s] = "idle" /\ main # "gone"
  /\ stopper' = [stopper EXCEPT ![s] = "connect"]
  /\ StopSignal' = TRUE
  /\ UNCHANGED <<mainVars, ThreadCount, netVars, pkg, nodeVars, Nodes,
                 histVars>>

(* ... then one connection to the server's own port, to wake accept(); the *)
(* result of connect() is not looked at.                                   *)
StopConnect(s) ==
  /\ stopper[s] = "connect" /\ main # "gone"
  /\ stopper' = [stopper EXCEPT ![s] = "done"]
  /\ \/ listening /\ Queue(s)
     \/ ~listening /\ UNCHANGED <<backlog, conn, late>>
  /\ UNCHANGED <<mainVars, StopSignal, ThreadCount, listening, pkg, nodeVars,
                 Nodes, raced, slipped>>

-----------------------------------------------------------------------------
Next ==
  \/ Main
  \/ \E p \in Peers : Node(p)
  \/ \E c \in Clients : Connect(c)
  \/ \E s \in Stops : StopSet(s) \/ StopConnect(s)

Spec == Init /\ [][Next]_vars

(* The scheduler runs the main thread, every node thread and a stop() that *)
(* has begun; a node's Serve ends because every recv and send of a node    *)
(* has a 5 s timeout (CNode.cpp:23), an endpoint's callback returns, and a *)
(* client does not feed readHeader() for ever.  Connections and calls of   *)
(* stop() are free to happen or not.                                       *)
FairSpec ==
  /\ Spec
  /\ WF_vars(Main)
  /\ \A p \in Peers : WF_vars(Node(p))
  /\ \A s \in Stops : WF_vars(StopConnect(s))

-----------------------------------------------------------------------------
(* Properties. *)

Idle == {"none", "exit", "done"}     \* threads that do not use the server

(* The type of every variable; ThreadCount stays inside its unsigned type  *)
(* and the finish of Nodes inside the vector.                              *)
TypeOK ==
  /\ main \in MainPC /\ cur \in Peers \cup {None}
  /\ mtmp \in 0..(CountMod - 1)
  /\ StopSignal \in BOOLEAN /\ ThreadCount \in 0..(CountMod - 1)
  /\ listening \in BOOLEAN /\ backlog \in Seq(Peers)
  /\ conn \in [Peers -> ConnState] /\ pkg \in [Peers -> PkgState]
  /\ thread \in [Peers -> ThreadPC] /\ tmp \in [Peers -> 0..(CountMod - 1)]
  /\ slot \in [Peers -> [k : Nat, f : Nat]]
  /\ Nodes \in [at : [1..Cardinality(Peers) -> Peers \cup {None}], fin : Nat]
  /\ stopper \in [Stops -> {"idle", "connect", "done"}]
  /\ late \subseteq Peers /\ raced \subseteq {"ThreadCount", "Nodes"}
  /\ slipped \in BOOLEAN

(* The package handoff of run() and thread_runNode, CServer.cpp:184-191    *)
(* and 212-221: the thread deletes the package only when the main thread   *)
(* has written pkg->ID and will not touch it again, and no thread runs a   *)
(* node, which it identifies by pkg->ID, before that write.                *)
HandoffSafe ==
  /\ main \in {"create", "setid"} => pkg[cur] = "noid"
  /\ \A p \in Peers : thread[p] \notin {"none", "wait"} => pkg[p] # "noid"

(* The two tests of StopSignal in run(), CServer.cpp:156 and 175, around a *)
(* blocking accept(): no connection made after stop() set the flag gets a  *)
(* node, stop()'s own connection included.                                 *)
LateNeverServed ==
  \A p \in late \cup Stops : thread[p] = "none" /\ pkg[p] = "none"

(* The gate of CServer.cpp:159 under lost updates of ThreadCount: however  *)
(* ThreadCount++ and ThreadCount-- overlap, the count never passes         *)
(* ThreadLimit + 1 from below; it can only be larger by having wrapped     *)
(* below zero, by no more than the decrements made.                        *)
Decremented == {p \in Peers : thread[p] \in {"exit", "done"}}
CountBounded ==
  \/ ThreadCount <= ThreadLimit + 1
  \/ ThreadCount >= CountMod - Cardinality(Decremented)

(* The connections ThreadCount stands for: handed out by accept() and not  *)
(* yet given back by runNode.                                              *)
Counted ==
  {p \in Peers : /\ conn[p] \in {"accepted", "closed"}
                 /\ thread[p] \notin {"exit", "done"}
                 /\ ~(main \in {"inc1", "inc2"} /\ cur = p)}

(* Without an overwritten update ThreadCount (CServer.cpp:169, 230) is the *)
(* number of connections in hand.                                          *)
CountExactUnlessRaced ==
  "ThreadCount" \notin raced => ThreadCount = Cardinality(Counted)

(* Nodes (CServer.cpp:228, 235-241) holds the nodes between push_back and  *)
(* removeNode, each once: what the drain loop of run() and ~CServer rely   *)
(* on.  Two things spoil it, and no other: an overwritten update, and an   *)
(* erase that moves a node away from the iterator of its own removeNode,   *)
(* which then misses it, so that a deleted node stays in the vector.       *)
RegistryExactUnlessRaced ==
  "Nodes" \notin raced /\ ~slipped /\ main # "gone" =>
    HoldsExactly(Nodes, {p \in Peers : thread[p] \in {"serve"} \cup Finding})

(* The connections whose thread pthread_create did not make; its return    *)
(* code is dropped (CServer.cpp:190).                                      *)
Stillborn == {p \in Peers : pkg[p] = "id" /\ thread[p] = "none"}

(* Every connection accept() returned is closed, by its node or by the     *)
(* StopSignal branch of run(), unless it got no thread, or the server was  *)
(* deleted first.  It rests on nothing that happens to Nodes.              *)
AcceptedIsClosed ==
  \A p \in Peers :
    conn[p] = "accepted" ~>
      conn[p] = "closed" \/ p \in Stillborn \/ main = "gone"

(* stop() ends run(): when its connection was queued (CServer.cpp:426), no *)
(* update of ThreadCount or Nodes is ever overwritten, no node is moved    *)
(* away from its removeNode and every connection got a thread, the main    *)
(* thread leaves the gate, accept() and the drain loop.                    *)
StopCompletes ==
  \A s \in Stops :
    conn[s] = "queued" ~>
      \/ main \in {"returned", "gone"}
      \/ raced # {} \/ slipped \/ Stillborn # {}

(* "Waiting for nodes to gracefully terminate." (CServer.cpp:198): when    *)
(* run() has returned, no node thread will use the server again.           *)
RunWaitsForNodes ==
  main \in {"returned", "gone"} => \A p \in Peers : thread[p] \in Idle

(* The interrupt callback of the sample server stops the server: once      *)
(* stop() has set the flag, run() returns.                                 *)
StopTerminates == StopSignal ~> main \in {"returned", "failed", "gone"}
=============================================================================
