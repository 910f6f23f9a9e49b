------------------------------- MODULE DbPool -------------------------------
(***************************************************************************)
(* CDatabase: the pool of database instances, the thread that deletes the  *)
(* expired ones, the threads that open() and dispose() instances, and the  *)
(* destructor.                                                             *)
(*                                                                         *)
(* Hold is a plain bool meant as a spin lock: "while (Hold) usleep(1);"    *)
(* and "Hold = true;" are two steps, so two threads may both get past the  *)
(* loop (overlap records it).  open() appends to Instances after it has    *)
(* released Hold.  An instance is named by the open() call that created    *)
(* it.  A local variable that is out of scope stands at its first value.   *)
(***************************************************************************)
EXTENDS Integers, FiniteSets, RawVector

CONSTANTS
  Opens,          (* calls of open(), each followed by one dispose()       *)
  Closes,         (* calls of closeAll()                                   *)
  Dtor,           (* ~CDatabase, which runs closeAll() itself              *)
  ConnStrings,    (* connection strings                                    *)
  ConnectMayFail, (* whether CDatabaseHandler::open may fail               *)
  None

Closers == Closes \cup {Dtor}

ASSUME DbPoolAssumption ==
  /\ IsFiniteSet(Opens) /\ IsFiniteSet(Closes) /\ Dtor \notin Closes
  /\ ConnStrings # {} /\ ConnectMayFail \in BOOLEAN
  /\ None \notin Opens \cup ConnStrings

VARIABLES
  Running, Hold,
  ConnectionString,
  Instances,      (* std::vector<IDatabaseInstance*>                       *)
  inst,           (* [Opens -> InstState]: the object an open() created    *)
  Used,           (* CDatabaseInstance::Used                               *)
  expired,        (* whether T is more than ExpireSeconds ago              *)
  cs,             (* CDatabaseInstance::ConnectionString                   *)
  pool, it, pfin, (* the pool thread: counter, iterator, finish loaded     *)
  opener, got,    (* the open() callers: counter, instance returned        *)
  oit, ofin,      (* the iterator of their scan, the finish of their push  *)
  closer, cfin,   (* the closeAll() callers: counter, finish loaded        *)
  asked,          (* history: the string for all of an open() call         *)
  overlap,        (* history: two threads were inside Hold                 *)
  raced,          (* history: an update of Instances was overwritten       *)
  cutin,          (* history: a push_back fell between closeAll()'s delete *)
                  (* and its pop_back                                      *)
  corrupt         (* who used an instance that was deleted before          *)

poolVars  == <<pool, it, pfin>>
openVars  == <<opener, got, oit, ofin>>
closeVars == <<closer, cfin>>
instVars  == <<inst, Used, expired, cs>>
flagVars  == <<Running, Hold>>
vars == <<flagVars, ConnectionString, Instances, instVars, poolVars, openVars,
          closeVars, asked, overlap, raced, cutin, corrupt>>

Sweeping  == {"sweep", "look", "delete", "erase", "erase2"}
Scanning  == {"scan", "unused", "string", "take"}
Closing   == {"close", "back", "pop", "pop2"}
PoolPC    == Sweeping \cup {"top", "spin", "set", "release", "sleep", "done"}
OpenPC    == Scanning \cup {"idle", "spin", "set", "release", "create", "push1",
                            "push2", "using", "threw", "done"}
ClosePC   == Closing \cup {"idle", "spin", "set", "release", "stop", "unhold",
                           "join", "done"}
InstState == {"none", "live", "swept", "closed", "failed"}

Init ==
  /\ Running = TRUE /\ Hold = FALSE
  /\ ConnectionString \in ConnStrings
  /\ Instances = EmptyVec(Cardinality(Opens), None)
  /\ inst = [i \in Opens |-> "none"] /\ Used = [i \in Opens |-> FALSE]
  /\ expired = [i \in Opens |-> FALSE]
  /\ cs = [i \in Opens |-> ConnectionString]
  /\ pool = "top" /\ it = 1 /\ pfin = 0
  /\ opener = [o \in Opens |-> "idle"] /\ got = [o \in Opens |-> None]
  /\ oit = [o \in Opens |-> 1] /\ ofin = [o \in Opens |-> 0]
  /\ closer = [c \in Closers |-> "idle"] /\ cfin = [c \in Closers |-> 0]
  /\ asked = [o \in Opens |-> None]
  /\ overlap = FALSE /\ raced = FALSE /\ cutin = FALSE /\ corrupt = {}

Gone(i) == inst[i] \in {"swept", "closed"}

(* The slots that hold an instance one may look at. *)
Sound ==
  {k \in DOMAIN Instances.at :
     Instances.at[k] \in Opens /\ ~Gone(Instances.at[k])}

(* The threads between Hold = true and Hold = false. *)
PoolInside     == pool \in Sweeping \cup {"release"}
OpenInside(o)  == opener[o] \in Scanning \cup {"release"}
CloseInside(c) == closer[c] \in Closing \cup {"release"}
Held ==
  PoolInside \/ (\E o \in Opens : OpenInside(o))
             \/ (\E c \in Closers : CloseInside(c))

(* Every step: what a program does after it used a deleted instance is     *)
(* undefined, and the model ends there.                                    *)
PoolGoes(from, to)     == /\ corrupt = {} /\ pool = from /\ pool' = to
OpenGoes(o, from, to)  == /\ corrupt = {} /\ opener[o] = from
                          /\ opener' = [opener EXCEPT ![o] = to]
CloseGoes(c, from, to) == /\ corrupt = {} /\ closer[c] = from
                          /\ closer' = [closer EXCEPT ![c] = to]
Blame(who, bad) == corrupt' = IF bad THEN corrupt \cup {who} ELSE corrupt
Enter   == Hold' = TRUE /\ overlap' = (overlap \/ Held)
Stale(f) == raced' = (raced \/ Instances.fin # f)

-----------------------------------------------------------------------------
(* _poolThread *)

PoolTop ==
  /\ \/ Running /\ PoolGoes("top", "spin")
     \/ ~Running /\ PoolGoes("top", "done")
  /\ UNCHANGED <<flagVars, ConnectionString, Instances, instVars, it, pfin,
                 openVars, closeVars, asked, overlap, raced, cutin, corrupt>>

(* while (Running && Hold) usleep(1); if (!Running) break; *)
PoolSpin ==
  /\ \/ Running /\ ~Hold /\ PoolGoes("spin", "set")
     \/ ~Running /\ PoolGoes("spin", "done")
  /\ UNCHANGED <<flagVars, ConnectionString, Instances, instVars, it, pfin,
                 openVars, closeVars, asked, overlap, raced, cutin, corrupt>>

(* Hold = true; it = Instances.begin(); *)
PoolSet ==
  /\ PoolGoes("set", "sweep")
  /\ Enter
  /\ it' = 1
  /\ UNCHANGED <<Running, ConnectionString, Instances, instVars, pfin,
                 openVars, closeVars, asked, raced, cutin, corrupt>>

(* it != end().  An iterator that another thread's update left past end()  *)
(* goes on.                                                                *)
SweepTest ==
  /\ \/ it = Instances.fin + 1 /\ PoolGoes("sweep", "release")
     \/ it # Instances.fin + 1 /\ PoolGoes("sweep", "look")
  /\ UNCHANGED <<flagVars, ConnectionString, Instances, instVars, it, pfin,
                 openVars, closeVars, asked, overlap, raced, cutin, corrupt>>

(* The test of the element at it: inUse(), getT(). *)
SweepLook ==
  /\ \/ it \notin Sound /\ PoolGoes("look", "look") /\ UNCHANGED it
     \/ /\ it \in Sound
        /\ LET i == Instances.at[it] IN
             \/ /\ ~Used[i] /\ expired[i]
                /\ PoolGoes("look", "delete") /\ UNCHANGED it
             \/ /\ Used[i] \/ ~expired[i]
                /\ PoolGoes("look", "sweep") /\ it' = it + 1
  /\ Blame("pool", it \notin Sound)
  /\ UNCHANGED <<flagVars, ConnectionString, Instances, instVars, pfin,
                 openVars, closeVars, asked, overlap, raced, cutin>>

(* i = *it; delete i; *)
SweepDelete ==
  /\ PoolGoes("delete", "erase")
  /\ Blame("pool", it \notin Sound)
  /\ inst' = [inst EXCEPT ![Instances.at[it]] = "swept"]
  /\ UNCHANGED <<flagVars, ConnectionString, Instances, Used, expired, cs, it,
                 pfin, openVars, closeVars, asked, overlap, raced, cutin>>

(* mutant of EraseRead: the deleted instance stays in the vector *)
EraseRead_Missing ==
  /\ PoolGoes("erase", "sweep")
  /\ it' = it + 1
  /\ UNCHANGED <<flagVars, ConnectionString, Instances, instVars, pfin,
                 openVars, closeVars, asked, overlap, raced, cutin, corrupt>>

(* Instances.erase(it): it loads finish, and moves what lies between.      *)
EraseRead ==
  /\ PoolGoes("erase", "erase2")
  /\ Blame("pool", it > Instances.fin)
  /\ pfin' = Instances.fin
  /\ UNCHANGED <<flagVars, ConnectionString, Instances, instVars, it, openVars,
                 closeVars, asked, overlap, raced, cutin>>

(* The end of erase, after which the iterator stands at the next element. *)
EraseWrite ==
  /\ PoolGoes("erase2", "sweep")
  /\ Instances' = CutAt(Instances, it, pfin)
  /\ Stale(pfin)
  /\ pfin' = 0
  /\ UNCHANGED <<flagVars, ConnectionString, instVars, it, openVars, closeVars,
                 asked, overlap, cutin, corrupt>>

(* mutant of PoolRelease: Hold stays set *)
PoolRelease_Missing ==
  /\ PoolGoes("release", "sleep")
  /\ UNCHANGED <<flagVars, ConnectionString, Instances, instVars, it, pfin,
                 openVars, closeVars, asked, overlap, raced, cutin, corrupt>>

PoolRelease ==
  /\ PoolGoes("release", "sleep")
  /\ Hold' = FALSE /\ it' = 1
  /\ UNCHANGED <<Running, ConnectionString, Instances, instVars, pfin,
                 openVars, closeVars, asked, overlap, raced, cutin, corrupt>>

(* sleep(1) *)
PoolSleep ==
  /\ PoolGoes("sleep", "top")
  /\ UNCHANGED <<flagVars, ConnectionString, Instances, instVars, it, pfin,
                 openVars, closeVars, asked, overlap, raced, cutin, corrupt>>

Pool == PoolTop \/ PoolSpin \/ PoolSet \/ SweepTest \/ SweepLook
        \/ SweepDelete \/ EraseRead \/ EraseWrite \/ PoolRelease \/ PoolSleep

-----------------------------------------------------------------------------
(* open(), and dispose() of what it returned *)

OpenCall(o) ==
  /\ closer[Dtor] = "idle"
  /\ OpenGoes(o, "idle", "spin")
  /\ asked' = [asked EXCEPT ![o] = ConnectionString]
  /\ UNCHANGED <<flagVars, ConnectionString, Instances, instVars, poolVars,
                 got, oit, ofin, closeVars, overlap, raced, cutin, corrupt>>

OpenSpin(o) ==
  /\ ~Hold
  /\ OpenGoes(o, "spin", "set")
  /\ UNCHANGED <<flagVars, ConnectionString, Instances, instVars, poolVars,
                 got, oit, ofin, closeVars, asked, overlap, raced, cutin,
                 corrupt>>

(* Hold = true; the scan of getUnusedInstance begins at begin(). *)
OpenSet(o) ==
  /\ OpenGoes(o, "set", "scan")
  /\ Enter
  /\ oit' = [oit EXCEPT ![o] = 1]
  /\ UNCHANGED <<Running, ConnectionString, Instances, instVars, poolVars, got,
                 ofin, closeVars, asked, raced, cutin, corrupt>>

(* it != end() *)
ScanTest(o) ==
  /\ \/ oit[o] = Instances.fin + 1 /\ OpenGoes(o, "scan", "release")
     \/ oit[o] # Instances.fin + 1 /\ OpenGoes(o, "scan", "unused")
  /\ UNCHANGED <<flagVars, ConnectionString, Instances, instVars, poolVars,
                 got, oit, ofin, closeVars, asked, overlap, raced, cutin,
                 corrupt>>

(* A test of the element at the iterator: the next test, or ++it. *)
Reads(o, from, fits, to) ==
  /\ \/ oit[o] \notin Sound /\ OpenGoes(o, from, from) /\ UNCHANGED oit
     \/ /\ oit[o] \in Sound
        /\ \/ /\ fits[Instances.at[oit[o]]]
              /\ OpenGoes(o, from, to) /\ UNCHANGED oit
           \/ /\ ~fits[Instances.at[oit[o]]]
              /\ OpenGoes(o, from, "scan")
              /\ oit' = [oit EXCEPT ![o] = @ + 1]
  /\ Blame("open", oit[o] \notin Sound)
  /\ UNCHANGED <<flagVars, ConnectionString, Instances, instVars, poolVars,
                 got, ofin, closeVars, asked, overlap, raced, cutin>>

(* mutant of ScanUsed: no test of inUse() *)
ScanUsed_Untested(o) == Reads(o, "unused", [i \in Opens |-> TRUE], "string")

(* !inUse() *)
ScanUsed(o) == Reads(o, "unused", [i \in Opens |-> ~Used[i]], "string")

(* mutant of ScanString: any string does *)
ScanString_Any(o) == Reads(o, "string", [i \in Opens |-> TRUE], "take")

(* ConnectionString == getConnectionString() *)
ScanString(o) ==
  Reads(o, "string", [i \in Opens |-> cs[i] = ConnectionString], "take")

(* return *it, which is read again; the caller is not recorded in it. *)
Take(o) ==
  /\ OpenGoes(o, "take", "release")
  /\ got' = [got EXCEPT ![o] = Instances.at[oit[o]]]
  /\ UNCHANGED <<flagVars, ConnectionString, Instances, instVars, poolVars,
                 oit, ofin, closeVars, asked, overlap, raced, cutin, corrupt>>

OpenRelease(o) ==
  /\ \/ got[o] # None /\ OpenGoes(o, "release", "using")
     \/ got[o] = None /\ OpenGoes(o, "release", "create")
  /\ Hold' = FALSE /\ oit' = [oit EXCEPT ![o] = 1]
  /\ UNCHANGED <<Running, ConnectionString, Instances, instVars, poolVars, got,
                 ofin, closeVars, asked, overlap, raced, cutin, corrupt>>

(* new CDatabaseInstance, which connects; open() throws when it could not. *)
CreateInstance(o) ==
  /\ \/ /\ OpenGoes(o, "create", "push1")
        /\ inst' = [inst EXCEPT ![o] = "live"]
        /\ Used' = [Used EXCEPT ![o] = TRUE]
        /\ got' = [got EXCEPT ![o] = o]
     \/ /\ ConnectMayFail
        /\ OpenGoes(o, "create", "threw")
        /\ inst' = [inst EXCEPT ![o] = "failed"]
        /\ UNCHANGED <<Used, got>>
  /\ cs' = [cs EXCEPT ![o] = ConnectionString]
  /\ UNCHANGED <<flagVars, ConnectionString, Instances, expired, poolVars, oit,
                 ofin, closeVars, asked, overlap, raced, cutin, corrupt>>

(* Instances.push_back(di), with Hold released. *)
PushRead(o) ==
  /\ OpenGoes(o, "push1", "push2")
  /\ ofin' = [ofin EXCEPT ![o] = Instances.fin]
  /\ UNCHANGED <<flagVars, ConnectionString, Instances, instVars, poolVars,
                 got, oit, closeVars, asked, overlap, raced, cutin, corrupt>>

PushWrite(o) ==
  /\ OpenGoes(o, "push2", "using")
  /\ Instances' = PutAt(Instances, ofin[o], o)
  /\ Stale(ofin[o])
  /\ ofin' = [ofin EXCEPT ![o] = 0]
  /\ cutin' = (cutin \/ \E c \in Closers : closer[c] = "pop")
  /\ UNCHANGED <<flagVars, ConnectionString, instVars, poolVars, got, oit,
                 closeVars, asked, overlap, corrupt>>

(* mutant of Dispose: the instance stays in use *)
Dispose_Kept(o) ==
  /\ OpenGoes(o, "using", "done")
  /\ Blame("user", Gone(got[o]))
  /\ UNCHANGED <<flagVars, ConnectionString, Instances, instVars, poolVars,
                 got, oit, ofin, closeVars, asked, overlap, raced, cutin>>

(* dispose() by the caller of open(), after its last use of the instance. *)
Dispose(o) ==
  /\ OpenGoes(o, "using", "done")
  /\ Blame("user", Gone(got[o]))
  /\ Used' = [Used EXCEPT ![got[o]] = FALSE]
  /\ UNCHANGED <<flagVars, ConnectionString, Instances, inst, expired, cs,
                 poolVars, got, oit, ofin, closeVars, asked, overlap, raced,
                 cutin>>

Open(o) ==
  OpenSet(o) \/ ScanTest(o) \/ ScanUsed(o) \/ ScanString(o) \/ Take(o)
  \/ OpenRelease(o) \/ CreateInstance(o) \/ PushRead(o) \/ PushWrite(o)

-----------------------------------------------------------------------------
(* closeAll(), on its own or as the first statement of ~CDatabase *)

(* The pool is deleted when no call of open() or closeAll() is under way   *)
(* and every instance was disposed of.                                     *)
Quiet ==
  /\ \A o \in Opens : opener[o] \in {"idle", "threw", "done"}
  /\ \A c \in Closes : closer[c] \in {"idle", "done"}
CloseCall(c) ==
  /\ closer[Dtor] = "idle"
  /\ c = Dtor => Quiet
  /\ CloseGoes(c, "idle", "spin")
  /\ UNCHANGED <<flagVars, ConnectionString, Instances, instVars, poolVars,
                 openVars, cfin, asked, overlap, raced, cutin, corrupt>>

CloseSpin(c) ==
  /\ ~Hold
  /\ CloseGoes(c, "spin", "set")
  /\ UNCHANGED <<flagVars, ConnectionString, Instances, instVars, poolVars,
                 openVars, cfin, asked, overlap, raced, cutin, corrupt>>

CloseSet(c) ==
  /\ CloseGoes(c, "set", "close")
  /\ Enter
  /\ UNCHANGED <<Running, ConnectionString, Instances, instVars, poolVars,
                 openVars, cfin, asked, raced, cutin, corrupt>>

(* while (!empty()) *)
CloseTest(c) ==
  /\ \/ Instances.fin = 0 /\ CloseGoes(c, "close", "release")
     \/ Instances.fin # 0 /\ CloseGoes(c, "close", "back")
  /\ UNCHANGED <<flagVars, ConnectionString, Instances, instVars, poolVars,
                 openVars, cfin, asked, overlap, raced, cutin, corrupt>>

(* delete back(); *)
CloseBack(c) ==
  /\ CloseGoes(c, "back", "pop")
  /\ Blame("close", Instances.fin \notin Sound)
  /\ \/ /\ Instances.fin \in Sound
        /\ inst' = [inst EXCEPT ![Instances.at[Instances.fin]] = "closed"]
     \/ Instances.fin \notin Sound /\ UNCHANGED inst
  /\ UNCHANGED <<flagVars, ConnectionString, Instances, Used, expired, cs,
                 poolVars, openVars, cfin, asked, overlap, raced, cutin>>

(* pop_back() *)
PopRead(c) ==
  /\ CloseGoes(c, "pop", "pop2")
  /\ Blame("close", Instances.fin = 0)
  /\ cfin' = [cfin EXCEPT ![c] = Instances.fin]
  /\ UNCHANGED <<flagVars, ConnectionString, Instances, instVars, poolVars,
                 openVars, asked, overlap, raced, cutin>>

(* mutant of PopWrite: pop_back() is called twice *)
PopWrite_Twice(c) ==
  /\ CloseGoes(c, "pop2", "close")
  /\ Instances' = [Instances EXCEPT !.fin = cfin[c] - 2]
  /\ Stale(cfin[c])
  /\ cfin' = [cfin EXCEPT ![c] = 0]
  /\ UNCHANGED <<flagVars, ConnectionString, instVars, poolVars, openVars,
                 asked, overlap, cutin, corrupt>>

PopWrite(c) ==
  /\ CloseGoes(c, "pop2", "close")
  /\ Instances' = [Instances EXCEPT !.fin = cfin[c] - 1]
  /\ Stale(cfin[c])
  /\ cfin' = [cfin EXCEPT ![c] = 0]
  /\ UNCHANGED <<flagVars, ConnectionString, instVars, poolVars, openVars,
                 asked, overlap, cutin, corrupt>>

CloseRelease(c) ==
  /\ CloseGoes(c, "release", IF c = Dtor THEN "stop" ELSE "done")
  /\ Hold' = FALSE
  /\ UNCHANGED <<Running, ConnectionString, Instances, instVars, poolVars,
                 openVars, cfin, asked, overlap, raced, cutin, corrupt>>

(* mutant of DtorStop: the pool thread is not told to stop *)
DtorStop_Missing ==
  /\ CloseGoes(Dtor, "stop", "unhold")
  /\ UNCHANGED <<flagVars, ConnectionString, Instances, instVars, poolVars,
                 openVars, cfin, asked, overlap, raced, cutin, corrupt>>

(* ~CDatabase: Running = false; Hold = false; pthread_join(TID, 0); *)
DtorStop ==
  /\ CloseGoes(Dtor, "stop", "unhold")
  /\ Running' = FALSE
  /\ UNCHANGED <<Hold, ConnectionString, Instances, instVars, poolVars,
                 openVars, cfin, asked, overlap, raced, cutin, corrupt>>

DtorUnhold ==
  /\ CloseGoes(Dtor, "unhold", "join")
  /\ Hold' = FALSE
  /\ UNCHANGED <<Running, ConnectionString, Instances, instVars, poolVars,
                 openVars, cfin, asked, overlap, raced, cutin, corrupt>>

DtorJoin ==
  /\ pool = "done"
  /\ CloseGoes(Dtor, "join", "done")
  /\ UNCHANGED <<flagVars, ConnectionString, Instances, instVars, poolVars,
                 openVars, cfin, asked, overlap, raced, cutin, corrupt>>

Close(c) == CloseSet(c) \/ CloseTest(c) \/ CloseBack(c) \/ PopRead(c)
            \/ PopWrite(c) \/ CloseRelease(c)

-----------------------------------------------------------------------------
(* The clock, and setConnectionString. *)

Expire(i) ==
  /\ corrupt = {} /\ inst[i] = "live" /\ ~expired[i]
  /\ expired' = [expired EXCEPT ![i] = TRUE]
  /\ UNCHANGED <<flagVars, ConnectionString, Instances, inst, Used, cs,
                 poolVars, openVars, closeVars, asked, overlap, raced, cutin,
                 corrupt>>

SetConnectionString(s) ==
  /\ corrupt = {} /\ closer[Dtor] = "idle" /\ s # ConnectionString
  /\ ConnectionString' = s
  /\ asked' = [o \in Opens |-> IF opener[o] \in {"using", "done"}
                               THEN asked[o] ELSE None]
  /\ UNCHANGED <<flagVars, Instances, instVars, poolVars, openVars, closeVars,
                 overlap, raced, cutin, corrupt>>

-----------------------------------------------------------------------------
Next ==
  \/ Pool
  \/ \E o \in Opens : OpenCall(o) \/ OpenSpin(o) \/ Open(o) \/ Dispose(o)
  \/ \E c \in Closers : CloseCall(c) \/ CloseSpin(c) \/ Close(c)
  \/ DtorStop \/ DtorUnhold \/ DtorJoin
  \/ \E i \in Opens : Expire(i)
  \/ \E s \in ConnStrings : SetConnectionString(s)

Spec == Init /\ [][Next]_vars

(* Threads run, time passes.  A caller that spins on Hold tests it every   *)
(* few microseconds and the pool thread leaves it false for a second at a  *)
(* time (CDatabase.cpp:69), so it is not false again and again without the *)
(* caller seeing it: strong fairness of the spins.                         *)
FairSpec ==
  /\ Spec
  /\ WF_vars(Pool)
  /\ \A o \in Opens : SF_vars(OpenSpin(o)) /\ WF_vars(Open(o))
  /\ \A c \in Closers : SF_vars(CloseSpin(c)) /\ WF_vars(Close(c))
  /\ WF_vars(DtorStop \/ DtorUnhold \/ DtorJoin)
  /\ WF_vars(\E i \in Opens : Expire(i))

-----------------------------------------------------------------------------
(* Properties. *)

TypeOK ==
  /\ Running \in BOOLEAN /\ Hold \in BOOLEAN
  /\ ConnectionString \in ConnStrings
  /\ Instances \in [at : [1..Cardinality(Opens) -> Opens \cup {None}], fin : Nat]
  /\ inst \in [Opens -> InstState] /\ Used \in [Opens -> BOOLEAN]
  /\ expired \in [Opens -> BOOLEAN] /\ cs \in [Opens -> ConnStrings]
  /\ pool \in PoolPC /\ it \in Nat /\ pfin \in Nat
  /\ opener \in [Opens -> OpenPC] /\ got \in [Opens -> Opens \cup {None}]
  /\ oit \in [Opens -> Nat] /\ ofin \in [Opens -> Nat]
  /\ closer \in [Closers -> ClosePC] /\ cfin \in [Closers -> Nat]
  /\ asked \in [Opens -> ConnStrings \cup {None}]
  /\ overlap \in BOOLEAN /\ raced \in BOOLEAN /\ cutin \in BOOLEAN
  /\ corrupt \subseteq {"pool", "open", "close", "user"}

(* While no two threads were inside Hold and no update of Instances was    *)
(* overwritten, the caller whose open() created an instance has it to      *)
(* itself until it disposes of it: no other open() returns it              *)
(* (CDatabase.cpp:77) and the pool thread does not delete it               *)
(* (CDatabase.cpp:58), push_back outside of Hold notwithstanding.          *)
CreatorUndisturbed ==
  ~overlap /\ ~raced =>
    \A o \in Opens : opener[o] # "done" =>
      inst[o] # "swept" /\ \A q \in Opens \ {o} : got[q] # o

(* While, moreover, no push_back fell between closeAll()'s delete and its  *)
(* pop_back, neither the pool thread, nor open(), nor closeAll() ever      *)
(* touches an instance that was deleted (CDatabase.cpp:53-81, 103-112).    *)
PoolSound == ~overlap /\ ~raced /\ ~cutin => corrupt \subseteq {"user"}

(* Under the same condition Instances holds, each once, the live instances *)
(* whose push_back is done, but for one that is between its delete and the *)
(* end of its erase or pop_back.                                           *)
InstancesExact ==
  ~overlap /\ ~raced /\ ~cutin /\ corrupt = {} =>
    LET live  == {i \in Opens : inst[i] = "live"
                                /\ opener[i] \notin {"push1", "push2"}}
        doomed == {Instances.at[k] :
                     k \in {n \in {it} : pool \in {"erase", "erase2"}}
                            \cup {Instances.fin : c \in {d \in Closers :
                                                         closer[d] = "pop"}}
                            \cup {cfin[c] : c \in {d \in Closers :
                                                   closer[d] = "pop2"}}}
    IN HoldsExactly(Instances, live \cup doomed)

(* While no two threads were inside Hold and no update of Instances was    *)
(* overwritten, an open() during which nobody called setConnectionString   *)
(* returns an instance that is connected with the string it found, though  *)
(* getUnusedInstance reads the element again after its test                *)
(* (CDatabase.cpp:77-78, 89, 93).                                          *)
StringHonoured ==
  ~overlap /\ ~raced =>
    \A o \in Opens :
      opener[o] = "using" /\ asked[o] # None => cs[got[o]] = asked[o]

(* Hold is released by whoever takes it, so every open() and every         *)
(* closeAll() gets past it (CDatabase.cpp:86, 103) and ends, with an       *)
(* instance or by throwing.  A call is made once, so all of them end when  *)
(* again and again none is under way.                                      *)
CallsEnd ==
  []<>(\/ corrupt # {}
       \/ /\ \A o \in Opens : opener[o] \in {"idle", "using", "threw", "done"}
          /\ \A c \in Closes : closer[c] \in {"idle", "done"})

(* ~CDatabase ends: the pool thread sees Running false wherever it was,    *)
(* and the join returns (CDatabase.cpp:29-35, 47-52).                      *)
DestructorEnds ==
  closer[Dtor] = "spin" ~> closer[Dtor] = "done" \/ corrupt # {}

(* An instance its creator disposed of is deleted in the end, by the pool  *)
(* thread when it has expired or by closeAll(), if no update of Instances  *)
(* lost it (CDatabase.cpp:58-64): again and again there is none left.      *)
DisposedIsDeleted ==
  []<>(\/ raced \/ corrupt # {}
       \/ \A i \in Opens : ~(inst[i] = "live" /\ opener[i] = "done"))

(* getUnusedInstance (CDatabase.cpp:73) returns an instance nobody uses:   *)
(* no two callers hold the same one.                                       *)
ExclusiveUse ==
  \A o, q \in Opens :
    opener[o] = "using" /\ opener[q] = "using" /\ got[o] = got[q] => o = q
=============================================================================
