----------------------------- MODULE ServerInv -----------------------------
(***************************************************************************)
(* The inductive invariant of Server from which ServerProofs derives its   *)
(* theorems, in named parts.                                               *)
(***************************************************************************)
EXTENDS Server

(* Threads that have stored a push_back. *)
Pushed == {p \in Peers : thread[p] \notin {"none", "wait", "push1", "push2"}}

(* The vector never holds more elements than were pushed, however stale    *)
(* the finish is that a thread works with, and an iterator that is read    *)
(* points into the array.                                                  *)
VectorInv ==
  /\ Nodes.fin <= Cardinality(Pushed)
  /\ \A p \in Peers :
       /\ slot[p].f <= Cardinality(Pushed)
       /\ thread[p] \in Finding => 1 <= slot[p].k
       /\ thread[p] = "look" => slot[p].k <= Cardinality(Peers)
       /\ thread[p] = "erase2" => slot[p].k <= slot[p].f

(* While no update was overwritten and no node moved away from its scan,   *)
(* a scan has not passed its node, and an erase stands at it.              *)
ScanRight(p) ==
  /\ thread[p] \in {"scan", "look"} =>
       \A i \in SlotsOf(Nodes, p) : slot[p].k <= i
  /\ thread[p] \in {"erase1", "erase2"} =>
       slot[p].k <= Nodes.fin /\ Nodes.at[slot[p].k] = p
  /\ thread[p] # "lost"
ScanInv ==
  "Nodes" \notin raced /\ ~slipped /\ main # "gone" =>
    \A p \in Peers : ScanRight(p)
RegistryInv == RegistryExactUnlessRaced /\ ScanInv

(* A connection is in one place: queued, or in the hands of the main       *)
(* thread, or of its node thread.                                          *)
InHand == {"accepted", "closed"}
PlaceInv ==
  /\ \A i \in DOMAIN backlog : conn[backlog[i]] = "queued"
  /\ \A i, j \in DOMAIN backlog : backlog[i] = backlog[j] => i = j
  /\ \A p \in Peers : thread[p] # "none" \/ pkg[p] # "none" =>
                        conn[p] \in InHand
  /\ \A s \in Stops : stopper[s] # "done" => conn[s] = "idle"
  /\ main \in {"inc1", "inc2", "check"} =>
       cur \in Peers /\ conn[cur] = "accepted" /\ thread[cur] = "none"
  /\ main \in {"create", "setid"} => cur \in Peers /\ conn[cur] \in InHand
  /\ main = "create" => thread[cur] = "none"

HandoffInv == PlaceInv /\ HandoffSafe

(* Who is late arrived with StopSignal set; the main thread never holds a  *)
(* package for one of them.                                                *)
LateInv ==
  /\ LateNeverServed
  /\ ~StopSignal => late = {} /\ \A s \in Stops : stopper[s] = "idle"
  /\ main \in {"create", "setid"} => cur \notin late \cup Stops

(* Where a thread holds a loaded count, it obeys the bound of the place.   *)
Wrapped(n) == n >= CountMod - Cardinality(Decremented)
CountInv ==
  /\ CountBounded
  /\ main \in {"listen", "accept", "inc1"} =>
       ThreadCount <= ThreadLimit \/ Wrapped(ThreadCount)
  /\ main = "inc2" => mtmp <= ThreadLimit \/ Wrapped(mtmp)
  /\ \A p \in Peers :
       thread[p] = "dec2" => tmp[p] <= ThreadLimit + 1 \/ Wrapped(tmp[p])

(* The inductive invariant: the handoff of packages, the late connections, *)
(* the count, the vector and the scans of removeNode at every point of     *)
(* every interleaving                                                      *)
(* (CServer.cpp:156-202 and 212-243).                                      *)
ServerIInv ==
  /\ TypeOK /\ VectorInv /\ HandoffInv /\ LateInv /\ CountInv
  /\ RegistryInv
=============================================================================
