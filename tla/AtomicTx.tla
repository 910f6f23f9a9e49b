------------------------------ MODULE AtomicTx ------------------------------
(***************************************************************************)
(* What the users of ITransaction may rely on, whatever the database       *)
(* driver: a transaction collects its statements and publishes all of them *)
(* or none when it is committed; before that nothing of it is in the       *)
(* store.  A transaction that went wrong can only come to nothing.  After  *)
(* the commit, and from the beginning with a driver that has no            *)
(* transactions, every statement is published by itself.                   *)
(*                                                                         *)
(* There are no connections, servers or drivers here: Driver implements    *)
(* this module with CDatabaseHandler and CTransaction::commit.             *)
(***************************************************************************)
EXTENDS Naturals

CONSTANTS
  Txs,            (* transactions                                          *)
  MaxStmts        (* bound: statements of a transaction                    *)

VARIABLES
  store,          (* the statements <<transaction, number>> that are kept  *)
  buffer,         (* those a transaction has collected                     *)
  inside,         (* history: those it ever collected                      *)
  mode            (* how far it is                                         *)

vars == <<store, buffer, inside, mode>>

Mode == {"new", "tx", "dead", "auto", "end"}

Init ==
  /\ store = {} /\ mode = [t \in Txs |-> "new"]
  /\ buffer = [t \in Txs |-> {}] /\ inside = [t \in Txs |-> {}]

Goes(t, to) == mode' = [mode EXCEPT ![t] = to]
Drop(t) == buffer' = [buffer EXCEPT ![t] = {}]

(* A transaction starts, or is refused. *)
Start(t) ==
  /\ mode[t] = "new"
  /\ \E m \in {"tx", "auto", "end"} : Goes(t, m)
  /\ UNCHANGED <<store, buffer, inside>>

(* A new statement is collected, *)
Collect(t, n) ==
  /\ mode[t] = "tx" /\ <<t, n>> \notin store \cup inside[t]
  /\ buffer' = [buffer EXCEPT ![t] = @ \cup {<<t, n>>}]
  /\ inside' = [inside EXCEPT ![t] = @ \cup {<<t, n>>}]
  /\ UNCHANGED <<store, mode>>

(* or published by itself. *)
Publish(t, n) ==
  /\ mode[t] = "auto" /\ <<t, n>> \notin store \cup inside[t]
  /\ store' = store \cup {<<t, n>>}
  /\ UNCHANGED <<buffer, inside, mode>>

(* Something went wrong: what was collected is lost. *)
Doom(t) ==
  /\ mode[t] = "tx"
  /\ Goes(t, "dead") /\ Drop(t)
  /\ UNCHANGED <<store, inside>>

(* A commit publishes what was collected, or loses it. *)
Commit(t) ==
  /\ mode[t] \in {"tx", "dead"}
  /\ store' \in {store, store \cup buffer[t]}
  /\ Goes(t, "auto") /\ Drop(t)
  /\ UNCHANGED inside

(* The end; without a commit what was collected is lost. *)
End(t) ==
  /\ mode[t] \in {"tx", "dead", "auto"}
  /\ Goes(t, "end") /\ Drop(t)
  /\ UNCHANGED <<store, inside>>

Next ==
  \E t \in Txs :
    \/ Start(t) \/ Doom(t) \/ Commit(t) \/ End(t)
    \/ \E n \in 1..MaxStmts : Collect(t, n) \/ Publish(t, n)

Spec == Init /\ [][Next]_vars

=============================================================================
