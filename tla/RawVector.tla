----------------------------- MODULE RawVector -----------------------------
(***************************************************************************)
(* A std::vector<T*> as threads see it that share it with no lock: an      *)
(* array of slots and the index of its last element ("finish").  CServer   *)
(* keeps its nodes in one (CServer.h:38) and CDatabase its instances       *)
(* (CDatabase.h:21).                                                       *)
(*                                                                         *)
(* push_back and erase each load finish first and store it last, so a      *)
(* thread that works on the vector carries the finish it loaded; the       *)
(* operators below take it as the parameter f.  Slots past finish keep     *)
(* their old contents, as they do in memory.  The array is taken to have   *)
(* spare capacity: reallocation is not modelled.                           *)
(***************************************************************************)
LOCAL INSTANCE Naturals

(* A vector with room for cap elements, all slots holding null. *)
EmptyVec(cap, null) == [at |-> [i \in 1..cap |-> null], fin |-> 0]

(* push_back(x) by a thread that loaded f as finish. *)
PutAt(v, f, x) == [at |-> [v.at EXCEPT ![f + 1] = x], fin |-> f + 1]

(* erase of slot k by a thread that loaded f as finish: the elements after *)
(* k move down one slot and finish is stored.                              *)
CutAt(v, k, f) ==
  [at  |-> [i \in DOMAIN v.at |->
              IF k <= i /\ i < f THEN v.at[i + 1] ELSE v.at[i]],
   fin |-> f - 1]

(* The slots that hold x, up to finish. *)
SlotsOf(v, x) == {i \in DOMAIN v.at : i <= v.fin /\ v.at[i] = x}

Elements(v) == {v.at[i] : i \in {j \in DOMAIN v.at : j <= v.fin}}

(* v holds exactly the members of S, each once. *)
HoldsExactly(v, S) ==
  /\ Elements(v) = S
  /\ \A i, j \in DOMAIN v.at :
        i <= v.fin /\ j <= v.fin /\ v.at[i] = v.at[j] => i = j
=============================================================================
