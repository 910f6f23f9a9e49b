------------------------------- MODULE Session -------------------------------
(***************************************************************************)
(* The sessions of CServer: startSession, getSession and destroySession,   *)
(* and the variables of a CSession, as the endpoint callbacks of several   *)
(* node threads call them.  Nothing here takes a lock.                     *)
(*                                                                         *)
(* The identifier of a session is the time in seconds followed by a static *)
(* counter that the constructor reads, prints and then increments; as long *)
(* as the time has ten digits the two can be told apart.  getSession and   *)
(* destroySession walk the vector with an iterator they compare with end() *)
(* anew at each element; what they then return, or erase, is what stands   *)
(* in the slot when they come back to it.  A destroyed session leaves the  *)
(* vector and is not deleted, so a thread that still holds one can go on   *)
(* using it.                                                               *)
(***************************************************************************)
EXTENDS Naturals, Sequences, FiniteSets, RawVector

CONSTANTS
  Threads,        (* node threads                                          *)
  MaxCalls,       (* bound: calls they make, together                      *)
  MaxSessions,    (* bound: sessions made                                  *)
  MaxTime,        (* bound: seconds that pass                              *)
  Wrap,           (* where the counter is reset: 4294967295                *)
  Names, Values   (* names and values of session variables                 *)

(* The empty string: no name and no value yet. *)
Empty == ""

ASSUME SessionAssumption ==
  /\ IsFiniteSet(Threads) /\ {MaxCalls, MaxSessions, MaxTime} \subseteq Nat
  /\ Wrap \in Nat \ {0} /\ Empty \notin Values

VARIABLES
  time,           (* time(0), when it was last read                        *)
  Incremental,    (* the static counter                                    *)
  ids,            (* the sessions made, as a sequence of their identifiers *)
  Sessions,       (* CServer::Sessions                                     *)
  Items,          (* CSession::Items, each a number of an object           *)
  objects,        (* the CVarVal objects of a session                      *)
  pc,             (* program counter of a thread                           *)
  my,             (* its locals                                            *)
  held,           (* the session its callback has a pointer to, or 0       *)
  calls,          (* calls made                                            *)
  clash,          (* history: sessions whose constructors overlapped       *)
  live,           (* history: sessions started and not destroyed           *)
  torn,           (* history: Sessions was changed by two threads at once  *)
  shifted,        (* history: threads whose iterator an erase left behind  *)
  last,           (* history: the value last set, by session and name      *)
  mixed           (* history: sessions that two threads set at once        *)

counterVars == <<Incremental, ids, clash>>
vectorVars  == <<Sessions, live, torn, shifted>>
itemVars    == <<Items, objects, last, mixed>>
vars == <<time, counterVars, vectorVars, itemVars, pc, my, held, calls>>

(* Where a thread is: between calls, with the answer of the last one; in   *)
(* the constructor of a session; in a push_back or an erase; on a scan; in *)
(* setStringValue; or past the end of a vector, where nothing is defined.  *)
Free   == {"idle", "found", "none"}
Ctor   == {"stamp", "load", "store"}
Setter == {"write", "put", "putting"}
PC == Free \cup Ctor \cup Setter
        \cup {"push", "pushing", "scan", "look", "return", "erase", "erasing",
              "lost"}

(* The locals of a call: the session it makes or asks for (ses) and the    *)
(* one it met (got), the iterator or counter it loaded (at), the end() it  *)
(* loaded (fin), whether it is to destroy, and the object and value to set.*)
NoLocals == [ses |-> 0, got |-> 0, at |-> 0, fin |-> 0, destroy |-> FALSE,
             obj |-> 0, var |-> Empty, val |-> Empty]

Init ==
  /\ time = 0 /\ Incremental = 0 /\ ids = <<>>
  /\ Sessions = EmptyVec(MaxSessions, 0)
  /\ Items = [s \in 1..MaxSessions |-> EmptyVec(MaxCalls, 0)]
  /\ objects = [s \in 1..MaxSessions |-> <<>>]
  /\ pc = [t \in Threads |-> "idle"] /\ my = [t \in Threads |-> NoLocals]
  /\ held = [t \in Threads |-> 0] /\ calls = 0
  /\ clash = {} /\ live = {} /\ torn = FALSE /\ shifted = {}
  /\ last = [s \in 1..MaxSessions |-> [n \in Names |-> Empty]] /\ mixed = {}

Goes(t, p) == pc' = [pc EXCEPT ![t] = p]
Keeps(t, l) == my' = [my EXCEPT ![t] = l]

(* A call returns; of a look-up it is remembered what it asked for and met. *)
Returns(t, p, got) ==
  /\ Goes(t, p)
  /\ Keeps(t, IF p = "idle" THEN NoLocals
              ELSE [NoLocals EXCEPT !.ses = my[t].ses, !.got = got])

Calls(t) == pc[t] \in Free /\ calls < MaxCalls /\ calls' = calls + 1

-----------------------------------------------------------------------------
(* startSession: the constructor, *)

(* the counter's limit is tested and the time read: seconds may have       *)
(* passed, and nothing else looks at the clock;                            *)
Enter(t) ==
  LET new == Len(ids) + 1
      with == {my[u].ses : u \in {v \in Threads : pc[v] \in Ctor}} IN
  /\ Calls(t) /\ new <= MaxSessions
  /\ time' \in time..MaxTime
  /\ ids' = Append(ids, <<time'>>)
  /\ Incremental' = IF Incremental >= Wrap THEN 0 ELSE Incremental
  /\ clash' = IF with = {} THEN clash ELSE clash \cup with \cup {new}
  /\ Keeps(t, [NoLocals EXCEPT !.ses = new]) /\ Goes(t, "stamp")
  /\ UNCHANGED <<vectorVars, itemVars, held>>

(* the counter is printed; *)
Stamp(t) ==
  /\ pc[t] = "stamp"
  /\ ids' = [ids EXCEPT ![my[t].ses] = Append(@, Incremental)]
  /\ Goes(t, "load")
  /\ UNCHANGED <<time, Incremental, clash, vectorVars, itemVars, my, held,
                 calls>>

(* and incremented. *)
Load(t) ==
  /\ pc[t] = "load"
  /\ Keeps(t, [my[t] EXCEPT !.at = Incremental]) /\ Goes(t, "store")
  /\ UNCHANGED <<time, counterVars, vectorVars, itemVars, held, calls>>

(* mutant of Store: the counter is not incremented *)
Store_Same(t) ==
  /\ pc[t] = "store" /\ Goes(t, "push")
  /\ UNCHANGED <<time, counterVars, vectorVars, itemVars, my, held, calls>>

Store(t) ==
  /\ pc[t] = "store"
  /\ Incremental' = my[t].at + 1
  /\ Goes(t, "push")
  /\ UNCHANGED <<time, ids, clash, vectorVars, itemVars, my, held, calls>>

(* Then Sessions.push_back(ses). *)
Push(t) ==
  /\ pc[t] = "push"
  /\ Keeps(t, [my[t] EXCEPT !.fin = Sessions.fin]) /\ Goes(t, "pushing")
  /\ UNCHANGED <<time, counterVars, vectorVars, itemVars, held, calls>>

Tears(t) == \E u \in Threads \ {t} : pc[u] \in {"pushing", "erasing"}

(* mutant of PushDone: the slot after the free one is filled *)
PushDone_Gap(t) ==
  /\ pc[t] = "pushing"
  /\ Sessions' = PutAt(Sessions, my[t].fin + 1, my[t].ses)
  /\ live' = live \cup {my[t].ses}
  /\ torn' = (torn \/ Tears(t))
  /\ held' = [held EXCEPT ![t] = my[t].ses] /\ Returns(t, "idle", 0)
  /\ UNCHANGED <<time, counterVars, shifted, itemVars, calls>>

PushDone(t) ==
  /\ pc[t] = "pushing"
  /\ Sessions' = PutAt(Sessions, my[t].fin, my[t].ses)
  /\ live' = live \cup {my[t].ses}
  /\ torn' = (torn \/ Tears(t))
  /\ held' = [held EXCEPT ![t] = my[t].ses] /\ Returns(t, "idle", 0)
  /\ UNCHANGED <<time, counterVars, shifted, itemVars, calls>>

-----------------------------------------------------------------------------
(* getSession and destroySession, with the identifier of a session that    *)
(* startSession returned to somebody.                                      *)

Told == {s \in DOMAIN ids :
           \A t \in Threads : my[t].ses = s =>
             pc[t] \notin Ctor \cup {"push", "pushing"}}

(* mutant of Ask: the scan begins with the second session *)
Ask_Second(t) ==
  /\ Calls(t)
  /\ \E s \in Told, d \in BOOLEAN :
       Keeps(t, [NoLocals EXCEPT !.ses = s, !.at = 2, !.destroy = d])
  /\ shifted' = shifted \ {t} /\ Goes(t, "scan")
  /\ UNCHANGED <<time, counterVars, Sessions, live, torn, itemVars, held>>

Ask(t) ==
  /\ Calls(t)
  /\ \E s \in Told, d \in BOOLEAN :
       Keeps(t, [NoLocals EXCEPT !.ses = s, !.at = 1, !.destroy = d])
  /\ shifted' = shifted \ {t} /\ Goes(t, "scan")
  /\ UNCHANGED <<time, counterVars, Sessions, live, torn, itemVars, held>>

Scans(t, p) ==
  /\ pc[t] = p
  /\ UNCHANGED <<time, counterVars, vectorVars, itemVars, calls>>

SameId(s, r) == ids[s] = ids[r]

(* it != Sessions.end(), which is loaded for each element: there is one;   *)
ScanOn(t) ==
  /\ Scans(t, "scan") /\ my[t].at <= Sessions.fin
  /\ Goes(t, "look") /\ UNCHANGED <<my, held>>

(* there is none;                                                          *)
ScanEnds(t) ==
  /\ Scans(t, "scan") /\ my[t].at = Sessions.fin + 1
  /\ Returns(t, "none", 0) /\ UNCHANGED held

(* or the iterator has passed end(), and goes on.                          *)
ScanRunsOff(t) ==
  /\ Scans(t, "scan") /\ my[t].at > Sessions.fin + 1
  /\ Goes(t, "lost") /\ UNCHANGED <<my, held>>

(* ( *it)->getID() == id: another session, ++it;                           *)
ScanNext(t) ==
  /\ Scans(t, "look")
  /\ ~SameId(Sessions.at[my[t].at], my[t].ses)
  /\ Keeps(t, [my[t] EXCEPT !.at = @ + 1]) /\ Goes(t, "scan")
  /\ UNCHANGED held

(* or this one, which is to be returned or erased.                         *)
ScanMatch(t) ==
  /\ Scans(t, "look")
  /\ LET s == Sessions.at[my[t].at] IN
       /\ SameId(s, my[t].ses)
       /\ \/ my[t].destroy /\ Goes(t, "erase")
             /\ Keeps(t, [my[t] EXCEPT !.got = s])
          \/ ~my[t].destroy /\ Goes(t, "return") /\ UNCHANGED my
  /\ UNCHANGED held

(* return ( *it): the slot is read again.                                  *)
Return(t) ==
  /\ Scans(t, "return")
  /\ LET s == Sessions.at[my[t].at] IN
       Returns(t, "found", s) /\ held' = [held EXCEPT ![t] = s]

(* Sessions.erase(it); an iterator that has passed end() is undefined.     *)
Erase(t) ==
  /\ pc[t] = "erase"
  /\ Keeps(t, [my[t] EXCEPT !.fin = Sessions.fin])
  /\ Goes(t, IF my[t].at <= Sessions.fin THEN "erasing" ELSE "lost")
  /\ UNCHANGED <<time, counterVars, vectorVars, itemVars, held, calls>>

(* Whether the erase of slot k leaves the iterator of u behind: the        *)
(* session it is to look at next is the one it seeks, and moves down; or   *)
(* the iterator is end(), or at the last element past the comparison with  *)
(* end(); or the element it is about to use moves away.                    *)
LeftBehind(u, k) ==
  LET a == my[u].at IN
  \/ /\ pc[u] \in {"scan", "look"}
     /\ k < a /\ a \in SlotsOf(Sessions, my[u].ses)
  \/ pc[u] = "scan" /\ a = Sessions.fin + 1
  \/ pc[u] = "look" /\ a = Sessions.fin
  \/ pc[u] \in {"return", "erase", "erasing"} /\ k <= a

(* The history of an erase: the session that was to go, and the iterators  *)
(* of others it leaves behind.                                             *)
Erases(t) ==
  /\ pc[t] = "erasing" /\ Returns(t, "found", my[t].got)
  /\ live' = live \ {my[t].got}
  /\ torn' = (torn \/ Tears(t) \/ t \in shifted)
  /\ shifted' = shifted \cup {u \in Threads \ {t} : LeftBehind(u, my[t].at)}
  /\ UNCHANGED <<time, counterVars, itemVars, held, calls>>

(* mutant of EraseDone: erase(++it) *)
EraseDone_Next(t) ==
  /\ Erases(t)
  /\ Sessions' = CutAt(Sessions, my[t].at + 1, my[t].fin)

EraseDone(t) ==
  /\ Erases(t)
  /\ Sessions' = CutAt(Sessions, my[t].at, my[t].fin)

-----------------------------------------------------------------------------
(* setStringValue on the session that the callback holds. *)

(* get(): the first object of that name, or 0 *)
Get(s, n) ==
  LET has == {k \in 1..Items[s].fin : objects[s][Items[s].at[k]].Var = n} IN
  IF has = {} THEN 0
  ELSE Items[s].at[CHOOSE k \in has : \A i \in has : k <= i]

GetStringValue(s, n) == IF Get(s, n) = 0 THEN Empty ELSE objects[s][Get(s, n)].Val

Setters(s) == {t \in Threads : pc[t] \in Setter /\ held[t] = s}

(* setStringValue(n, v) has looked for the object, and takes o.            *)
Takes(t, s, n, v, o) ==
  /\ Keeps(t, [NoLocals EXCEPT !.obj = o, !.var = n, !.val = v])
  /\ objects' = IF o <= Len(objects[s]) THEN objects
                ELSE [objects EXCEPT ![s] = Append(@, [Var |-> Empty, Val |-> Empty])]

Sets(t, s) ==
  /\ Calls(t) /\ s # 0 /\ Goes(t, "write")
  /\ mixed' = IF Setters(s) = {} THEN mixed ELSE mixed \cup {s}
  /\ UNCHANGED <<time, counterVars, vectorVars, Items, held>>

(* mutant of SetStringValue: a new object each time *)
SetStringValue_New(t, n, v) ==
  LET s == held[t] IN
  /\ Sets(t, s)
  /\ Takes(t, s, n, v, Len(objects[s]) + 1)
  /\ last' = [last EXCEPT ![s][n] = v]

(* get(), and a new object when it finds none; *)
SetStringValue(t, n, v) ==
  LET s == held[t] IN
  /\ Sets(t, s)
  /\ Takes(t, s, n, v, IF Get(s, n) = 0 THEN Len(objects[s]) + 1 ELSE Get(s, n))
  /\ last' = [last EXCEPT ![s][n] = v]

(* name and value are written; *)
Write(t) ==
  /\ pc[t] = "write"
  /\ objects' = [objects EXCEPT ![held[t]][my[t].obj] =
                   [Var |-> my[t].var, Val |-> my[t].val]]
  /\ Goes(t, "put")
  /\ UNCHANGED <<time, counterVars, vectorVars, Items, last, mixed, my, held,
                 calls>>

(* and the object is pushed, whether it is in Items already or not.        *)
Put(t) ==
  /\ pc[t] = "put"
  /\ Keeps(t, [my[t] EXCEPT !.fin = Items[held[t]].fin]) /\ Goes(t, "putting")
  /\ UNCHANGED <<time, counterVars, vectorVars, itemVars, held, calls>>

PutDone(t) ==
  /\ pc[t] = "putting"
  /\ Items' = [Items EXCEPT ![held[t]] = PutAt(@, my[t].fin, my[t].obj)]
  /\ Returns(t, "idle", 0)
  /\ UNCHANGED <<time, counterVars, vectorVars, objects, last, mixed, held,
                 calls>>

Next ==
  \E t \in Threads :
    \/ Enter(t) \/ Stamp(t) \/ Load(t) \/ Store(t) \/ Push(t) \/ PushDone(t)
    \/ Ask(t) \/ ScanOn(t) \/ ScanEnds(t) \/ ScanRunsOff(t)
    \/ ScanNext(t) \/ ScanMatch(t) \/ Return(t) \/ Erase(t) \/ EraseDone(t)
    \/ \E n \in Names, v \in Values : SetStringValue(t, n, v)
    \/ Write(t) \/ Put(t) \/ PutDone(t)

Spec == Init /\ [][Next]_vars

-----------------------------------------------------------------------------
(* Properties. *)

(* The reset of the counter can be undone by a store that comes late, so   *)
(* that only the number of sessions bounds it.                             *)
Counter == 0..MaxSessions

TypeOK ==
  /\ time \in 0..MaxTime /\ Incremental \in Counter
  /\ \A s \in DOMAIN ids : ids[s] \in {<<i>> : i \in 0..MaxTime}
                                    \cup (0..MaxTime) \X Counter
  /\ Len(ids) <= MaxSessions
  /\ Elements(Sessions) \subseteq DOMAIN ids
  /\ \A s \in 1..MaxSessions : Elements(Items[s]) \subseteq DOMAIN objects[s]
  /\ pc \in [Threads -> PC] /\ held \in [Threads -> 0..MaxSessions]
  /\ calls \in 0..MaxCalls /\ torn \in BOOLEAN /\ shifted \subseteq Threads
  /\ clash \cup live \cup mixed \subseteq DOMAIN ids

(* Whoever asks for a session, or destroys it, meets that one and not the  *)
(* session of another visitor, unless constructors ran at once or the      *)
(* counter went round within a second (CSession.cpp:7-14), or an erase by  *)
(* another thread came between the comparison and the return of getSession *)
(* (CServer.cpp:442-443).  Of the constructors it is enough that one of    *)
(* the two sessions was constructed while another was: a store of the      *)
(* counter that comes late turns it back under sessions made since.        *)
OwnSession ==
  \A t \in Threads : LET s == my[t].ses r == my[t].got IN
    r \notin {0, s} => \/ {r, s} \cap clash # {}
                       \/ r >= s + Wrap \/ s >= r + Wrap
                       \/ torn \/ t \in shifted

(* Sessions holds the sessions started and not destroyed, each once,       *)
(* unless two threads changed it at once, or an erase left the iterator    *)
(* behind with which destroySession erases, which then takes the session   *)
(* of another visitor (CServer.cpp:431-458).                               *)
SessionsExact == ~torn => HoldsExactly(Sessions, live)

(* A session that is there is found, and no scan leaves the vector, unless *)
(* an erase moved down the one session the scan was to look at next, or    *)
(* took the last while it stood there: the iterator is compared with       *)
(* end() for equality only, and is not moved back (CServer.cpp:440, 450).  *)
ScanSound ==
  \A t \in Threads : ~torn /\ t \notin shifted =>
    /\ pc[t] # "lost"
    /\ pc[t] = "none" => my[t].ses \notin live

(* getStringValue returns what was set last, although setStringValue       *)
(* pushes the object again each time, unless two threads set variables of  *)
(* the session at once (CSession.cpp:43-51).                               *)
ReadsLast ==
  \A s \in DOMAIN ids \ mixed : Setters(s) = {} =>
    \A n \in Names : GetStringValue(s, n) = last[s][n]
=============================================================================
