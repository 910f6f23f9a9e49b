---------------------------- MODULE Transaction ----------------------------
(***************************************************************************)
(* CTransaction: the statements that threads run, each on a transaction of *)
(* its own, and the static Lock that all transactions of the process       *)
(* share.                                                                  *)
(*                                                                         *)
(* Lock is a plain bool meant as a spin lock: "while (Lock) usleep(1);"    *)
(* and "Lock = true;" are two steps.  The driver may throw between Lock =  *)
(* true and Lock = false, and nothing then resets Lock: libpqxx in esc(),  *)
(* MySQL in queryOne(), which makes a string of a NULL.  A call of insert, *)
(* update or select takes the lock once for each value it escapes and once *)
(* more for the statement.                                                 *)
(***************************************************************************)
EXTENDS Integers, FiniteSets

CONSTANTS
  Threads,        (* threads, each with one transaction                    *)
  MaxCalls,       (* bound: calls a thread makes                           *)
  MaxEsc,         (* bound: values a call escapes                          *)
  DriverMayThrow  (* whether the driver may throw                          *)

ASSUME TransactionAssumption ==
  /\ IsFiniteSet(Threads) /\ MaxCalls \in Nat /\ MaxEsc \in Nat
  /\ DriverMayThrow \in BOOLEAN

VARIABLES
  Lock,           (* CTransaction::Lock, static                            *)
  pc,             (* program counter of a thread                           *)
  todo,           (* what is left of its call                              *)
  calls,          (* calls made so far                                     *)
  Handles,        (* CTransaction::Handles, a handle named by its call     *)
  handle,         (* the handle objects                                    *)
  disposed,       (* handles whose user called dispose()                   *)
  leaked,         (* history: threads whose driver threw with Lock set     *)
  collided        (* history: two threads were past the test at once       *)

lockVars   == <<Lock, leaked, collided>>
handleVars == <<Handles, handle, disposed>>
vars == <<lockVars, handleVars, pc, todo, calls>>

PC == {"idle", "test", "set", "in", "keep", "gone"}
HandleState == {"none", "live", "freed", "twice"}

(* What a call does: how many values it escapes, whether a statement       *)
(* follows, and whether it returns a handle.  In order: exec and commit,   *)
(* selectCustom, esc, update, and insert, select and selectOne.            *)
Work(n, s, h) == [esc |-> n, stmt |-> s, handle |-> h]
Nothing == Work(0, FALSE, FALSE)
Kinds ==
  {Work(0, TRUE, FALSE), Work(0, TRUE, TRUE), Work(1, FALSE, FALSE)}
    \cup {Work(n, TRUE, FALSE) : n \in 0..MaxEsc}
    \cup {Work(n, TRUE, TRUE) : n \in 0..MaxEsc}

Init ==
  /\ Lock = FALSE
  /\ pc = [t \in Threads |-> "idle"]
  /\ todo = [t \in Threads |-> Nothing]
  /\ calls = [t \in Threads |-> 0]
  /\ Handles = [t \in Threads |-> {}]
  /\ handle = [t \in Threads |-> [k \in 1..MaxCalls |-> "none"]]
  /\ disposed = [t \in Threads |-> {}]
  /\ leaked = {} /\ collided = FALSE

Goes(t, from, to) == pc[t] = from /\ pc' = [pc EXCEPT ![t] = to]

(* Where a thread goes after it released the lock, w being left to do.     *)
After(w) == IF w.esc > 0 \/ w.stmt THEN "test" ELSE "idle"

-----------------------------------------------------------------------------
Call(t) ==
  /\ calls[t] < MaxCalls
  /\ Goes(t, "idle", "test")
  /\ \E w \in Kinds : todo' = [todo EXCEPT ![t] = w]
  /\ calls' = [calls EXCEPT ![t] = @ + 1]
  /\ UNCHANGED <<lockVars, handleVars>>

(* mutant of Test: "if (Lock) usleep(1);" *)
Test_Once(t) ==
  /\ Goes(t, "test", "set")
  /\ collided' = (collided \/ \E u \in Threads : pc[u] = "set")
  /\ UNCHANGED <<Lock, leaked, handleVars, todo, calls>>

(* while (Lock) usleep(1); *)
Test(t) ==
  /\ ~Lock
  /\ Goes(t, "test", "set")
  /\ collided' = (collided \/ \E u \in Threads : pc[u] = "set")
  /\ UNCHANGED <<Lock, leaked, handleVars, todo, calls>>

(* Lock = true; *)
Set(t) ==
  /\ Goes(t, "set", "in")
  /\ Lock' = TRUE
  /\ UNCHANGED <<leaked, collided, handleVars, todo, calls>>

(* Throws: the call ends, and Lock stays as it is. *)
Throws(t) ==
  /\ DriverMayThrow
  /\ Goes(t, "in", "idle")
  /\ todo' = [todo EXCEPT ![t] = Nothing]
  /\ leaked' = leaked \cup {t} /\ UNCHANGED Lock

(* r = T->esc(esc); Lock = false; -- or the driver throws, and the call    *)
(* ends with Lock as it is.                                                *)
Escape(t) ==
  /\ todo[t].esc > 0
  /\ \/ LET w == [todo[t] EXCEPT !.esc = @ - 1] IN
          /\ Goes(t, "in", After(w))
          /\ todo' = [todo EXCEPT ![t] = w]
          /\ Lock' = FALSE /\ UNCHANGED leaked
     \/ Throws(t)
  /\ UNCHANGED <<collided, handleVars, calls>>

(* mutant of Statement: Lock stays set when there is no handle to return *)
Statement_KeepsLock(t) ==
  /\ todo[t].esc = 0 /\ todo[t].stmt
  /\ Goes(t, "in", IF todo[t].handle THEN "keep" ELSE "idle")
  /\ todo' = [todo EXCEPT ![t].stmt = FALSE]
  /\ Lock' = (Lock /\ ~todo[t].handle)
  /\ UNCHANGED <<leaked, collided, handleVars, calls>>

(* The driver's exec, query, queryOne or insert reports a failure by its   *)
(* result; Lock = false; -- or queryOne, whose handle is then not made,    *)
(* throws.                                                                 *)
Statement(t) ==
  /\ todo[t].esc = 0 /\ todo[t].stmt
  /\ \/ /\ Goes(t, "in", IF todo[t].handle THEN "keep" ELSE "idle")
        /\ todo' = [todo EXCEPT ![t].stmt = FALSE]
        /\ Lock' = FALSE /\ UNCHANGED leaked
     \/ todo[t].handle /\ Throws(t)
  /\ UNCHANGED <<collided, handleVars, calls>>

(* mutant of Keep: the handle is returned only *)
Keep_Forgotten(t) ==
  /\ Goes(t, "keep", "idle")
  /\ handle' = [handle EXCEPT ![t][calls[t]] = "live"]
  /\ UNCHANGED <<lockVars, Handles, disposed, todo, calls>>

(* new CDatabaseHandle(...); Handles.push_back(r); return r; *)
Keep(t) ==
  /\ Goes(t, "keep", "idle")
  /\ handle' = [handle EXCEPT ![t][calls[t]] = "live"]
  /\ Handles' = [Handles EXCEPT ![t] = @ \cup {calls[t]}]
  /\ UNCHANGED <<lockVars, disposed, todo, calls>>

-----------------------------------------------------------------------------
(* The life of handles. *)

Free(h) == IF h = "live" THEN "freed" ELSE "twice"

(* CDatabaseHandle::dispose, disposeAndGetID or disposeAndGetError, by the *)
(* user of a handle that still is; the transaction is not told.            *)
DisposeHandle(t, k) ==
  /\ pc[t] = "idle" /\ handle[t][k] = "live"
  /\ handle' = [handle EXCEPT ![t][k] = Free(@)]
  /\ disposed' = [disposed EXCEPT ![t] = @ \cup {k}]
  /\ UNCHANGED <<lockVars, Handles, pc, todo, calls>>

FreeAll(t) ==
  handle' = [handle EXCEPT ![t] =
               [k \in 1..MaxCalls |-> IF k \in Handles[t] THEN Free(handle[t][k])
                                      ELSE handle[t][k]]]

(* mutant of Cleanup: Handles is not cleared *)
Cleanup_NoClear(t) ==
  /\ pc[t] = "idle"
  /\ FreeAll(t)
  /\ UNCHANGED <<lockVars, Handles, disposed, pc, todo, calls>>

(* cleanup(): every handle in the list is deleted, and the list cleared.   *)
Cleanup(t) ==
  /\ pc[t] = "idle"
  /\ FreeAll(t)
  /\ Handles' = [Handles EXCEPT ![t] = {}]
  /\ UNCHANGED <<lockVars, disposed, pc, todo, calls>>

(* dispose() of the transaction: cleanup(), then T is deleted. *)
DisposeTransaction(t) ==
  /\ Goes(t, "idle", "gone")
  /\ FreeAll(t)
  /\ Handles' = [Handles EXCEPT ![t] = {}]
  /\ UNCHANGED <<lockVars, disposed, todo, calls>>

-----------------------------------------------------------------------------
Round(t) == Test(t) \/ Set(t) \/ Escape(t) \/ Statement(t) \/ Keep(t)

Next ==
  \E t \in Threads :
    \/ Call(t) \/ Round(t) \/ Cleanup(t) \/ DisposeTransaction(t)
    \/ \E k \in 1..MaxCalls : DisposeHandle(t, k)

Spec == Init /\ [][Next]_vars

(* A thread in a call is scheduled and the driver answers; nobody has to   *)
(* make a call.                                                            *)
FairSpec == Spec /\ \A t \in Threads : WF_vars(Round(t))

-----------------------------------------------------------------------------
(* Properties. *)

Inside == {t \in Threads : pc[t] = "in"}

TypeOK ==
  /\ Lock \in BOOLEAN /\ pc \in [Threads -> PC]
  /\ todo \in [Threads -> [esc : Nat, stmt : BOOLEAN, handle : BOOLEAN]]
  /\ calls \in [Threads -> 0..MaxCalls]
  /\ Handles \in [Threads -> SUBSET (1..MaxCalls)]
  /\ handle \in [Threads -> [1..MaxCalls -> HandleState]]
  /\ disposed \in [Threads -> SUBSET (1..MaxCalls)]
  /\ leaked \subseteq Threads /\ collided \in BOOLEAN

(* The static Lock of CTransaction.cpp:14 serialises the statements of all *)
(* transactions, several of which may use one connection, as long as no    *)
(* two threads were between the test of Lock and its store at once: an     *)
(* exception that left Lock set does not break this.                       *)
StatementAlone ==
  ~collided => \A t, u \in Inside : t = u

(* Whatever threads collided, Lock stays set with nobody inside only when  *)
(* the driver threw (CTransaction.cpp:141, 251).                           *)
LockAccounted == Lock => Inside # {} \/ leaked # {}

(* A driver that threw stops every transaction of the process: when Lock   *)
(* was left set and no thread is past the test, none ever will be.         *)
Dead == Lock /\ \A t \in Threads : pc[t] \notin {"set", "in"}
DeadForEver == [][Dead => Dead']_vars

(* Unless the driver threw, every call ends: again and again no thread is in    *)
(* one (CTransaction.cpp:23-32, 34-209, 227-254).                          *)
CallsEnd ==
  []<>(leaked # {} \/ \A t \in Threads : pc[t] \in {"idle", "gone"})

(* A transaction that was disposed of leaves no result handle behind,      *)
(* whatever its user disposed of (CTransaction.cpp:17-21, 237-244).        *)
DisposeFreesAll ==
  \A t \in Threads : pc[t] = "gone" =>
    \A k \in 1..MaxCalls : handle[t][k] # "live"

(* cleanup() and dispose() together delete a handle once, unless its user  *)
(* called dispose() on it: then the transaction deletes it again           *)
(* (CTransaction.cpp:241, CDatabaseHandle.h:54).                           *)
FreedOnce ==
  \A t \in Threads : \A k \in 1..MaxCalls :
    handle[t][k] = "twice" => k \in disposed[t]

(* The inductive invariant of TransactionProofs, in named parts: who is    *)
(* past the test, when nobody collided; the calls made; and what the list  *)
(* of a transaction says of its handles.                                   *)
AloneInv ==
  ~collided =>
    /\ \A t, u \in Threads :
         pc[t] \in {"set", "in"} /\ pc[u] \in {"set", "in"} => t = u
    /\ \A t \in Threads : pc[t] = "in" => Lock
CallInv == \A t \in Threads : pc[t] \notin {"idle", "gone"} => calls[t] >= 1
HandleInv ==
  \A t \in Threads : \A k \in 1..MaxCalls :
    /\ handle[t][k] = "live" => k \in Handles[t]
    /\ k \in Handles[t] =>
         \/ handle[t][k] = "live"
         \/ handle[t][k] # "none" /\ k \in disposed[t]
TransactionIInv ==
  /\ TypeOK /\ AloneInv /\ LockAccounted /\ CallInv /\ HandleInv
  /\ DisposeFreesAll /\ FreedOnce
=============================================================================
