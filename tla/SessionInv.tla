----------------------------- MODULE SessionInv -----------------------------
(***************************************************************************)
(* The inductive invariant of Session from which SessionProofs derives its *)
(* theorems, in named parts.                                               *)
(***************************************************************************)
EXTENDS Session

(* The calls of startSession on their way to their push_back, and those    *)
(* that look for a session they were told of.                              *)
Making  == Ctor \cup {"push", "pushing"}
Scanning == {"scan", "look", "return", "erase", "erasing"}
Seeking  == Scanning \cup {"found", "none", "lost"}

(* The sessions whose constructor has stored the counter. *)
Passed == {s \in DOMAIN ids :
             \A t \in Threads : my[t].ses = s => pc[t] \notin Ctor}

(* The types that TypeOK leaves to the shape of the sequences. *)
Locals == [ses : 0..MaxSessions, got : 0..MaxSessions, at : Nat, fin : Nat,
           destroy : BOOLEAN, obj : Nat, var : Names \cup {Empty},
           val : Values \cup {Empty}]
Object == [Var : Names \cup {Empty}, Val : Values \cup {Empty}]
ShapeInv ==
  /\ ids \in Seq(Seq(Nat)) /\ Len(ids) <= MaxSessions
  /\ Sessions \in [at : [1..MaxSessions -> 0..MaxSessions], fin : Nat]
  /\ Items \in [1..MaxSessions -> [at : [1..MaxCalls -> Nat], fin : Nat]]
  /\ objects \in [1..MaxSessions -> Seq(Object)]
  /\ pc \in [Threads -> PC] /\ my \in [Threads -> Locals]
  /\ held \in [Threads -> 0..MaxSessions] /\ calls \in 0..MaxCalls
  /\ time \in 0..MaxTime /\ Incremental \in Nat
  /\ torn \in BOOLEAN /\ shifted \subseteq Threads
  /\ last \in [1..MaxSessions -> [Names -> Values \cup {Empty}]]

(* Who makes which session: each thread its own, and two constructors at   *)
(* once are a clash.  Whatever else a thread refers to was told.           *)
MakeInv ==
  /\ \A t \in Threads :
       /\ pc[t] \in Making => my[t].ses \in DOMAIN ids
       /\ pc[t] \in Seeking => my[t].ses = 0 \/ my[t].ses \in Told
       /\ pc[t] \in Scanning \cup {"none"} => my[t].ses # 0
       /\ my[t].got # 0 =>
            /\ my[t].got \in Told /\ my[t].ses \in Told
            /\ SameId(my[t].got, my[t].ses) \/ torn \/ t \in shifted
       /\ pc[t] \in {"erase", "erasing"} => my[t].got # 0
       /\ held[t] # 0 => held[t] \in Told
       /\ pc[t] \in Setter => held[t] # 0
  /\ \A t, u \in Threads : t # u =>
       /\ pc[t] \in Making /\ pc[u] \in Making => my[t].ses # my[u].ses
       /\ pc[t] \in Ctor /\ pc[u] \in Ctor => my[t].ses \in clash
  /\ live \subseteq Told /\ mixed \subseteq Told /\ clash \subseteq DOMAIN ids

(* A session's identifier is complete once it is stamped. *)
StampInv ==
  \A s \in DOMAIN ids :
    IF \E t \in Threads : pc[t] = "stamp" /\ my[t].ses = s
      THEN \E i \in 0..MaxTime : ids[s] = <<i>>
      ELSE \E i \in 0..MaxTime, n \in Counter : ids[s] = <<i, n>>

(* However stale a finish, the slots up to it hold sessions; and there are *)
(* no more of them than sessions were pushed.                              *)
SlotInv ==
  LET Filled(f) == /\ f <= Cardinality(Told)
                   /\ \A k \in 1..MaxSessions : k <= f => Sessions.at[k] # 0
  IN
  /\ \A k \in 1..MaxSessions : Sessions.at[k] # 0 => Sessions.at[k] \in Told
  /\ Filled(Sessions.fin)
  /\ \A t \in Threads :
       /\ pc[t] \in {"pushing", "erasing"} => Filled(my[t].fin)
       /\ pc[t] \in Scanning => 1 <= my[t].at
       /\ pc[t] \in {"look", "return"} =>
            my[t].at <= MaxSessions /\ Sessions.at[my[t].at] # 0
       /\ pc[t] = "erasing" => my[t].at <= my[t].fin

(* While the vector is not torn, a thread works with its own finish, and   *)
(* one whose iterator was not left behind has not passed what it seeks,    *)
(* and stands at what it compared.                                         *)
IteratorInv ==
  ~torn => \A t \in Threads :
    /\ pc[t] \in {"pushing", "erasing"} => my[t].fin = Sessions.fin
    /\ t \notin shifted =>
         /\ pc[t] \in {"erase", "erasing"} =>
              my[t].at <= Sessions.fin /\ Sessions.at[my[t].at] = my[t].got
         /\ pc[t] = "return" =>
              /\ my[t].at <= Sessions.fin
              /\ SameId(Sessions.at[my[t].at], my[t].ses)
         /\ pc[t] = "look" => my[t].at <= Sessions.fin
         /\ pc[t] \in {"scan", "look"} =>
              /\ my[t].at <= Sessions.fin + 1
              /\ \A k \in 1..MaxSessions :
                   k < my[t].at => Sessions.at[k] # my[t].ses

(* The counter.  It is no more than the stores that were made.  A session  *)
(* that no other constructor overlapped finds every earlier one past its   *)
(* store.  After such a session r a value x of the counter is one of those *)
(* that follow, or as many sessions passed since as it takes to go round.  *)
After(r, x) ==
  LET n == ids[r][2] m == Cardinality(Passed) - r IN
  \/ n + 1 <= x /\ x <= n + 1 + m
  \/ Wrap + x <= m + n + 1
CounterInv ==
  /\ Incremental <= Cardinality(Passed)
  /\ \A t \in Threads : pc[t] = "store" => my[t].at <= Cardinality(Passed)
  /\ \A t \in Threads : pc[t] \in Ctor /\ my[t].ses \notin clash =>
       /\ my[t].ses = Len(ids) /\ Cardinality(Passed) = Len(ids) - 1
       /\ pc[t] # "stamp" => Incremental = ids[my[t].ses][2]
       /\ pc[t] = "store" => my[t].at = Incremental
  /\ \A r \in Passed \ clash :
       /\ After(r, Incremental)
       /\ \A t \in Threads : pc[t] = "store" => After(r, my[t].at)

(* Two sessions that no other constructor overlapped have different        *)
(* identifiers, unless the counter went round.                             *)
Stamped(s) == \A t \in Threads : my[t].ses = s => pc[t] # "stamp"
DistinctInv ==
  \A r, s \in DOMAIN ids \ clash :
    r < s /\ Stamped(r) /\ Stamped(s) /\ ids[r] = ids[s] => r + Wrap <= s

(* The items of a session: slots up to a finish hold objects, and there is *)
(* one at most for each call of setStringValue that has ended.             *)
Busy == {t \in Threads : pc[t] \in Setter}
ItemsInv ==
  /\ \A s \in 1..MaxSessions :
       /\ Items[s].fin + Cardinality(Busy) <= calls
       /\ \A k \in 1..MaxCalls : k <= Items[s].fin =>
            Items[s].at[k] \in DOMAIN objects[s]
  /\ \A t \in Busy :
       /\ my[t].obj \in DOMAIN objects[held[t]]
       /\ my[t].var \in Names
       /\ pc[t] = "putting" =>
            /\ my[t].fin + Cardinality(Busy) <= calls
            /\ \A k \in 1..MaxCalls : k <= my[t].fin =>
                 Items[held[t]].at[k] \in DOMAIN objects[held[t]]

(* The variables of a session that only one thread at a time has set: its  *)
(* items name each variable once, with the value that was set last, but    *)
(* for the one that is being set.                                          *)
Item(s, k) == objects[s][Items[s].at[k]]
VarsRight(s) ==
  LET In == 1..Items[s].fin IN
  /\ \A t, u \in Setters(s) : t = u
  /\ \A i, k \in In :
       Item(s, i).Var = Item(s, k).Var => Items[s].at[i] = Items[s].at[k]
  /\ \A n \in Names : (\A t \in Setters(s) : my[t].var # n) =>
       /\ \A k \in In : Item(s, k).Var = n => Item(s, k).Val = last[s][n]
       /\ (\A k \in In : Item(s, k).Var # n) => last[s][n] = Empty
  /\ \A t \in Setters(s) :
       /\ last[s][my[t].var] = my[t].val
       /\ \A k \in In : Item(s, k).Var = my[t].var => Items[s].at[k] = my[t].obj
       /\ pc[t] = "write" =>
            \A k \in In : Items[s].at[k] = my[t].obj => Item(s, k).Var = my[t].var
       /\ pc[t] # "write" =>
            objects[s][my[t].obj] = [Var |-> my[t].var, Val |-> my[t].val]
       /\ pc[t] = "putting" => my[t].fin = Items[s].fin
VarInv == \A s \in (1..MaxSessions) \ mixed : VarsRight(s)

(* The inductive invariant: the sessions at every point of every           *)
(* interleaving (CServer.cpp:431-458, CSession.cpp:5-51).                  *)
SessionIInv ==
  /\ ShapeInv /\ MakeInv /\ StampInv /\ SlotInv /\ IteratorInv
  /\ CounterInv /\ DistinctInv /\ ItemsInv /\ VarInv
  /\ SessionsExact /\ ScanSound
=============================================================================
