------------------------------ MODULE DbPoolInv ------------------------------
(***************************************************************************)
(* The inductive invariant of DbPool from which DbPoolProofs derives its   *)
(* theorems, in named parts.                                               *)
(***************************************************************************)
EXTENDS DbPool

(* The accidents that the missing lock allows have not happened; nor has a *)
(* push_back made closeAll() pop another instance than it deleted.         *)
Calm  == ~overlap /\ ~raced
Clean == Calm /\ ~cutin

(* The calls of open() that have returned an instance. *)
Settled == {o \in Opens : opener[o] \in {"using", "done"}}

(* However stale the finish a thread works with, it is no more than the    *)
(* number of calls that have pushed; an erase or a pop_back has found an   *)
(* element.                                                                *)
VectorInv ==
  /\ Instances.fin <= Cardinality(Settled) /\ pfin <= Cardinality(Settled)
  /\ \A o \in Opens :
       /\ ofin[o] <= Cardinality(Settled) /\ 1 <= oit[o]
       /\ opener[o] \in {"string", "take"} => oit[o] <= Cardinality(Opens)
  /\ \A c \in Closers :
       /\ cfin[c] <= Cardinality(Settled)
       /\ closer[c] = "pop2" /\ corrupt = {} => 1 <= cfin[c]
  /\ 1 <= it
  /\ pool \in {"delete", "erase", "erase2"} => it <= Cardinality(Opens)
  /\ pool = "erase2" /\ corrupt = {} => it <= pfin

(* One thread at most is inside Hold while overlap is not set. *)
MutexInv ==
  ~overlap =>
    /\ PoolInside => /\ \A o \in Opens : ~OpenInside(o)
                     /\ \A c \in Closers : ~CloseInside(c)
    /\ \A o \in Opens, c \in Closers : ~(OpenInside(o) /\ CloseInside(c))
    /\ \A o, q \in Opens : OpenInside(o) /\ OpenInside(q) => o = q
    /\ \A c, d \in Closers : CloseInside(c) /\ CloseInside(d) => c = d

(* Where instances come from: only open() makes one, which pushes it       *)
(* before it returns it; what a scan returns was pushed.                   *)
Fresh == {"idle", "spin", "set", "scan", "unused", "string", "take", "release",
          "create"}
Pushes == {"push1", "push2"}
OriginInv ==
  /\ \A k \in DOMAIN Instances.at :
       Instances.at[k] # None =>
         /\ got[Instances.at[k]] = Instances.at[k]
         /\ opener[Instances.at[k]] \in {"using", "done"}
  /\ \A o \in Opens :
       /\ opener[o] \in Fresh => inst[o] = "none"
       /\ opener[o] \in Fresh \ {"release"} => got[o] = None
       /\ opener[o] \in Pushes => got[o] = o /\ inst[o] = "live"
       /\ opener[o] = "using" => got[o] # None
       /\ got[o] = o => inst[o] \in {"live", "swept", "closed"}
                        /\ opener[o] \in Pushes \cup {"using", "done"}
       /\ inst[o] = "live" => got[o] = o
       /\ got[o] \notin {None, o} =>
            got[got[o]] = got[o] /\ opener[got[o]] \in {"using", "done"}

(* What an open() has found is the string that was set when it began, if   *)
(* nobody set another.                                                     *)
StringInv ==
  \A o \in Opens : asked[o] # None =>
    /\ opener[o] \notin {"using", "done"} => asked[o] = ConnectionString
    /\ Calm =>
         /\ opener[o] = "take" => cs[Instances.at[oit[o]]] = asked[o]
         /\ opener[o] # "done" /\ got[o] # None => cs[got[o]] = asked[o]

(* A creator is marked as the user of its instance until it disposes of it. *)
UsedInv ==
  Calm => \A o \in Opens : opener[o] # "done" /\ got[o] = o => Used[o]

(* Where the pool thread stands in its sweep, a scan in the vector, and    *)
(* closeAll() in its loop.                                                 *)
SweepInv ==
  Clean /\ corrupt = {} =>
    /\ pool = "sweep" => it <= Instances.fin + 1
    /\ pool \in {"look", "delete", "erase", "erase2"} => it <= Instances.fin
    /\ pool = "delete" =>
         /\ Instances.at[it] # None /\ ~Used[Instances.at[it]]
    /\ pool \in {"erase", "erase2"} =>
         /\ Instances.at[it] # None /\ Gone(Instances.at[it])
    /\ \A c \in Closers :
         /\ closer[c] \in {"back", "pop"} => 1 <= Instances.fin
         /\ closer[c] = "pop" =>
              /\ Instances.at[Instances.fin] # None
              /\ Gone(Instances.at[Instances.fin])
         /\ closer[c] = "pop2" =>
              /\ cfin[c] <= Instances.fin
              /\ Instances.at[cfin[c]] # None /\ Gone(Instances.at[cfin[c]])
ScanInv ==
  Calm /\ corrupt = {} =>
    \A o \in Opens :
      /\ opener[o] = "scan" => oit[o] <= Instances.fin + 1
      /\ opener[o] \in {"unused", "string", "take"} => oit[o] <= Instances.fin
      /\ opener[o] \in {"string", "take"} =>
           /\ Instances.at[oit[o]] # None /\ ~Used[Instances.at[oit[o]]]

(* Once closeAll() has popped another instance than it deleted, or is      *)
(* about to, a deleted one stays among those that it goes on to delete, so *)
(* it does not get out of Hold.                                            *)
Rest(c) == 1..(IF closer[c] = "pop" THEN Instances.fin - 1
               ELSE IF closer[c] = "pop2" THEN cfin[c] - 1 ELSE Instances.fin)
CutInv ==
  Calm /\ corrupt = {} /\ cutin =>
    \E c \in Closers :
      /\ closer[c] \in Closing
      /\ closer[c] = "pop2" => cfin[c] <= Instances.fin
      /\ \E k \in Rest(c) : Instances.at[k] # None /\ Gone(Instances.at[k])

(* The two sets of InstancesExact: what has been pushed and not deleted,   *)
(* and what is between its delete and the end of its erase or pop_back.    *)
Live == {i \in Opens : inst[i] = "live" /\ opener[i] \notin Pushes}
DoomedSlots ==
  {n \in {it} : pool \in {"erase", "erase2"}}
    \cup {Instances.fin : c \in {d \in Closers : closer[d] = "pop"}}
    \cup {cfin[c] : c \in {d \in Closers : closer[d] = "pop2"}}
Doomed == {Instances.at[k] : k \in DoomedSlots}

(* The inductive invariant: the pool at every point of every interleaving  *)
(* (CDatabase.cpp:29-112).                                                 *)
DbPoolIInv ==
  /\ TypeOK /\ VectorInv /\ MutexInv /\ OriginInv /\ StringInv
  /\ UsedInv /\ CreatorUndisturbed /\ SweepInv /\ ScanInv /\ CutInv
  /\ InstancesExact /\ PoolSound
=============================================================================
