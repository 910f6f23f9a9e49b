------------------------------- MODULE Driver -------------------------------
(***************************************************************************)
(* The database drivers: CDatabaseHandler and CDatabaseTransaction, in the *)
(* three versions one of which is compiled in (PostgreSQL through libpqxx, *)
(* MySQL, and an empty one), together with CTransaction::commit and        *)
(* CDatabaseInstance::begin, which use them.                               *)
(*                                                                         *)
(* Each connection has a server session behind it.  With libpqxx a         *)
(* transaction is a pqxx::work registered with its connection; the server  *)
(* aborts it at the first statement that fails.  commit() sends the text   *)
(* "commit;" and ignores the answer, so that libpqxx still has the work    *)
(* while the server has left the transaction: what follows is committed    *)
(* statement by statement.  With MySQL the driver never starts a           *)
(* transaction.                                                            *)
(*                                                                         *)
(* A statement is one step: CTransaction::Lock is held around it (module   *)
(* Transaction).  The texts of statements are abstracted to the call that  *)
(* makes them.  The pool (module DbPool) may give one connection to two    *)
(* users, so any transaction may be begun on any connection.  A user whose *)
(* connection the pool closed has no defined step and takes none here;     *)
(* DbPool shows when that happens.                                         *)
(***************************************************************************)
EXTENDS Naturals, Sequences

CONSTANTS
  Conns,          (* CDatabaseHandler objects, one connection each         *)
  Txs,            (* CDatabaseTransaction objects                          *)
  NoTx,           (* no transaction                                        *)
  MaxStmts        (* bound: statements of a transaction, commits aside     *)

ASSUME DriverAssumption ==
  /\ NoTx \notin Txs /\ MaxStmts \in Nat

VARIABLES
  driver,         (* the version that is compiled in                       *)
  conn,           (* CDatabaseHandler::C and what is behind it             *)
  session,        (* the server's side of a connection                     *)
  pending,        (* what the server holds of its open transaction         *)
  unread,         (* MySQL: an answer was left on the connection           *)
  owner,          (* libpqxx: the work registered with a connection        *)
  tx,             (* how far a transaction is                              *)
  on,             (* the connection of a transaction                       *)
  durable,        (* the statements the database keeps                     *)
  log,            (* history: what the calls of a transaction were        *)
                  (* answered, and whether the server executed them        *)
  inside,         (* history: its statements the server took before commit *)
  asked,          (* history: the call before which it called commit()     *)
  cut             (* history: transactions cut off, or refused at commit   *)

connVars == <<conn, session, pending, unread, owner>>
txVars   == <<tx, on>>
history  == <<log, inside, asked, cut>>
vars == <<driver, connVars, txVars, durable, history>>

Drivers == {"pqxx", "mysql", "empty"}
Calls   == {"exec", "rows", "insert", "update", "selectOne", "select"}
Writing == {"exec", "insert", "update"}
Answer  == {"ok", "error", "noid", "false", "none"}
Entry   == [answer : Answer, done : BOOLEAN]

Init ==
  /\ driver \in Drivers
  /\ conn = [c \in Conns |-> "new"] /\ session = [c \in Conns |-> "idle"]
  /\ pending = [c \in Conns |-> {}] /\ unread = [c \in Conns |-> FALSE]
  /\ owner = [c \in Conns |-> NoTx]
  /\ tx = [t \in Txs |-> "none"] /\ on \in [Txs -> Conns]
  /\ durable = {} /\ log = [t \in Txs |-> <<>>]
  /\ inside = [t \in Txs |-> {}] /\ asked = [t \in Txs |-> 0]
  /\ cut = {}

-----------------------------------------------------------------------------
(* Connections. *)

(* CDatabaseHandler::open.  A handler that failed is dropped by its        *)
(* instance, which the pool neither keeps nor deletes.                     *)
Open(c) ==
  /\ conn[c] = "new"
  /\ \/ driver # "empty" /\ conn' = [conn EXCEPT ![c] = "up"]
     \/ conn' = [conn EXCEPT ![c] = "failed"]
  /\ UNCHANGED <<driver, session, pending, unread, owner, txVars, durable,
                 history>>

(* The server gives up what it holds for connection c. *)
RollBack(c, s) ==
  /\ session' = [session EXCEPT ![c] = IF @ = "active" THEN s ELSE @]
  /\ pending' = [pending EXCEPT ![c] = {}]

CutOff(c) ==
  cut' = IF session[c] = "active" THEN cut \cup {owner[c]} ELSE cut

(* The connection breaks.  External: the network and the server. *)
Lose(c) ==
  /\ conn[c] = "up"
  /\ conn' = [conn EXCEPT ![c] = "lost"]
  /\ RollBack(c, "failed") /\ CutOff(c)
  /\ UNCHANGED <<driver, unread, owner, txVars, durable, log, inside, asked>>

(* CDatabaseHandler::close, which ~CDatabaseInstance calls, whoever has a  *)
(* transaction on the connection.                                          *)
Close(c) ==
  /\ conn[c] \in {"up", "lost"}
  /\ conn' = [conn EXCEPT ![c] = "closed"]
  /\ RollBack(c, "failed") /\ CutOff(c)
  /\ UNCHANGED <<driver, unread, owner, txVars, durable, log, inside, asked>>

-----------------------------------------------------------------------------
(* Transactions. *)

Begun(t, c, p) ==
  /\ tx' = [tx EXCEPT ![t] = p]
  /\ on' = [on EXCEPT ![t] = c]

(* mutant of BeginWork: a second work is let on the connection *)
BeginWork_Shared(t, c) ==
  /\ driver = "pqxx" /\ tx[t] = "none" /\ conn[c] = "up"
  /\ Begun(t, c, "open")
  /\ owner' = [owner EXCEPT ![c] = t]
  /\ session' = [session EXCEPT ![c] = "active"]
  /\ UNCHANGED <<driver, conn, pending, unread, durable, history>>

(* mutant of BeginWork: the object begins no transaction at the server     *)
BeginWork_Plain(t, c) ==
  /\ driver = "pqxx" /\ tx[t] = "none"
  /\ conn[c] \in {"up", "lost"} /\ owner[c] = NoTx
  /\ Begun(t, c, "open")
  /\ conn' = [conn EXCEPT ![c] = "up"]
  /\ owner' = [owner EXCEPT ![c] = t]
  /\ UNCHANGED <<driver, session, pending, unread, durable, history>>

(* begin() with libpqxx: a new pqxx::work of it.  On a broken connection   *)
(* this throws, or (libpqxx 6) connects again.                             *)
BeginWork(t, c) ==
  /\ driver = "pqxx" /\ tx[t] = "none"
  /\ conn[c] \in {"up", "lost"} /\ owner[c] = NoTx
  /\ Begun(t, c, "open")
  /\ conn' = [conn EXCEPT ![c] = "up"]
  /\ owner' = [owner EXCEPT ![c] = t]
  /\ session' = [session EXCEPT ![c] = "active"]
  /\ UNCHANGED <<driver, pending, unread, durable, history>>

(* begin() with libpqxx throws: the connection is broken, or it has a work *)
(* already.                                                                *)
BeginThrows(t, c) ==
  /\ driver = "pqxx" /\ tx[t] = "none"
  /\ \/ conn[c] = "lost"
     \/ conn[c] = "up" /\ owner[c] # NoTx
  /\ Begun(t, c, "refused")
  /\ UNCHANGED <<driver, connVars, durable, history>>

(* begin() with MySQL: new CDatabaseTransaction(C), nothing is sent.       *)
BeginPlain(t, c) ==
  /\ driver = "mysql" /\ tx[t] = "none" /\ conn[c] \in {"up", "lost"}
  /\ Begun(t, c, "open")
  /\ UNCHANGED <<driver, connVars, durable, history>>

(* What the user of ITransaction is answered: a result, an error, update's *)
(* false, or nothing that can be used.  MySQL's insert() returns no value  *)
(* at all unless INSERT has a result set; its update() is true only if     *)
(* UPDATE has one; its queryOne() makes a string of the first column even  *)
(* when that is NULL, which throws, and does not tell a failure.  With     *)
(* libpqxx insert() fails after the fact (noid) when the id it reads back  *)
(* is NULL.  select() and selectCustom() ignore what query() returns.      *)
(* All a driver goes by is whether the server's answer reached it (heard). *)
Answers(call, heard) ==
  CASE call \in {"exec", "rows"} -> {IF heard THEN "ok" ELSE "error"}
    [] call = "insert" -> IF ~heard THEN {"error"}
                          ELSE IF driver = "pqxx" THEN {"ok", "noid"}
                          ELSE {"none"}
    [] call = "update" -> {IF heard /\ driver = "pqxx" THEN "ok" ELSE "false"}
    [] call = "selectOne" -> IF driver = "pqxx"
                               THEN {IF heard THEN "ok" ELSE "error"}
                               ELSE IF heard THEN {"ok", "none"} ELSE {"ok"}
    [] call = "select" -> {"ok"}

(* Transaction t makes a call on c, which is answered. *)
Called(t, c, call, done, heard) ==
  /\ tx[t] = "open" /\ on[t] = c /\ conn[c] \in {"up", "lost"}
  /\ Len(log[t]) < MaxStmts
  /\ \E a \in Answers(call, heard) :
       log' = [log EXCEPT ![t] = Append(@, [answer |-> a, done |-> done])]

Fresh(t) == {<<t, Len(log[t]) + 1>>}

(* mutant of Refuse: a statement that fails leaves the transaction open *)
Refuse_Goes_On(t, c, call) ==
  /\ Called(t, c, call, FALSE, FALSE)
  /\ UNCHANGED <<driver, connVars, txVars, durable, inside, asked, cut>>

(* The server, or the client library, refuses the statement: at any time   *)
(* for reasons of its own (a constraint, a type), and always on a broken   *)
(* connection, in an aborted transaction or when an answer is unread.  A   *)
(* transaction that is open at the server is aborted by it.                *)
Refuse(t, c, call) ==
  /\ Called(t, c, call, FALSE, FALSE)
  /\ RollBack(c, "failed")
  /\ UNCHANGED <<driver, conn, unread, owner, txVars, durable, inside, asked,
                 cut>>

(* Connection c is in a state in which the server executes a statement. *)
Ready(c) == conn[c] = "up" /\ session[c] # "failed" /\ ~unread[c]

(* The server takes the statement.  MySQL's exec() leaves the rows of its  *)
(* answer on the connection.                                               *)
Takes(t, c, call) ==
  /\ Called(t, c, call, TRUE, TRUE) /\ Ready(c)
  /\ unread' = [unread EXCEPT ![c] = driver = "mysql" /\ call = "rows"]
  /\ UNCHANGED <<driver, conn, session, owner, txVars, asked, cut>>

(* The server takes a statement that reads. *)
TakeRead(t, c, call) ==
  /\ call \notin Writing
  /\ Takes(t, c, call)
  /\ UNCHANGED <<pending, durable, inside>>

(* It takes a statement that writes, in a transaction *)
TakeInside(t, c, call) ==
  /\ call \in Writing /\ session[c] = "active"
  /\ Takes(t, c, call)
  /\ pending' = [pending EXCEPT ![c] = @ \cup Fresh(t)]
  /\ inside' = [inside EXCEPT ![t] = @ \cup Fresh(t)]
  /\ UNCHANGED durable

(* or outside of one, which commits it at once. *)
TakeAlone(t, c, call) ==
  /\ call \in Writing /\ session[c] = "idle"
  /\ Takes(t, c, call)
  /\ durable' = durable \cup Fresh(t)
  /\ UNCHANGED <<pending, inside>>

(* The server executes the statement, and the connection breaks before its *)
(* answer is there: the driver sees what it sees of a refusal, while what  *)
(* was written is durable.  In a transaction the server then takes it back *)
(* with all the rest.                                                      *)
LoseAnswer(t, c, call) ==
  /\ Called(t, c, call, TRUE, FALSE) /\ Ready(c)
  /\ conn' = [conn EXCEPT ![c] = "lost"]
  /\ RollBack(c, "failed") /\ CutOff(c)
  /\ durable' = IF call \in Writing /\ session[c] = "idle"
                  THEN durable \cup Fresh(t) ELSE durable
  /\ UNCHANGED <<driver, unread, owner, txVars, inside, asked>>

Statement(t) ==
  \E c \in Conns, call \in Calls :
    \/ Refuse(t, c, call) \/ TakeRead(t, c, call)
    \/ TakeInside(t, c, call) \/ TakeAlone(t, c, call)
    \/ LoseAnswer(t, c, call)

-----------------------------------------------------------------------------
(* CTransaction::commit sends "commit;" as a statement and returns nothing. *)

Committing(t, c) ==
  /\ tx[t] = "open" /\ on[t] = c /\ conn[c] \in {"up", "lost"}
  /\ asked' = [asked EXCEPT ![t] = IF @ = 0 THEN Len(log[t]) + 1 ELSE @]
  /\ UNCHANGED <<driver, conn, unread, owner, txVars, log, inside>>

(* The server leaves the open transaction. *)
Leave(c) ==
  /\ session' = [session EXCEPT ![c] = "idle"]
  /\ pending' = [pending EXCEPT ![c] = {}]

(* The server commits; or its own checks at the commit fail. *)
Commit(t, c) ==
  /\ Committing(t, c) /\ session[c] = "active"
  /\ Leave(c)
  /\ \/ durable' = durable \cup pending[c] /\ UNCHANGED cut
     \/ cut' = cut \cup {t} /\ UNCHANGED durable

(* mutant of CommitAborted: "commit;" is not sent *)
CommitAborted_Unsent(t, c) ==
  /\ Committing(t, c) /\ conn[c] = "up" /\ session[c] = "failed"
  /\ UNCHANGED <<session, pending, durable, cut>>

(* The transaction is aborted: "commit;" ends it, and is no error.         *)
CommitAborted(t, c) ==
  /\ Committing(t, c) /\ conn[c] = "up" /\ session[c] = "failed"
  /\ Leave(c)
  /\ UNCHANGED <<durable, cut>>

(* There is no transaction at the server, or no server: nothing happens.   *)
CommitIdle(t, c) ==
  /\ Committing(t, c) /\ (conn[c] = "lost" \/ session[c] = "idle")
  /\ UNCHANGED <<session, pending, durable, cut>>

(* mutant of DisposeWork: the server is not told to roll back *)
DisposeWork_Keeps(t, c) ==
  /\ driver = "pqxx" /\ tx[t] = "open" /\ on[t] = c
  /\ conn[c] \in {"up", "lost"}
  /\ tx' = [tx EXCEPT ![t] = "gone"]
  /\ owner' = [owner EXCEPT ![c] = NoTx]
  /\ UNCHANGED <<driver, conn, session, pending, unread, on, durable, history>>

(* dispose() with libpqxx: delete W, which rolls back what is still open.  *)
DisposeWork(t, c) ==
  /\ driver = "pqxx" /\ tx[t] = "open" /\ on[t] = c
  /\ conn[c] \in {"up", "lost"}
  /\ tx' = [tx EXCEPT ![t] = "gone"]
  /\ owner' = [owner EXCEPT ![c] = NoTx]
  /\ Leave(c)
  /\ UNCHANGED <<driver, conn, unread, on, durable, history>>

(* dispose() with MySQL: the destructor does nothing. *)
DisposePlain(t) ==
  /\ driver = "mysql" /\ tx[t] = "open"
  /\ tx' = [tx EXCEPT ![t] = "gone"]
  /\ UNCHANGED <<driver, connVars, on, durable, history>>

Next ==
  \/ \E c \in Conns : Open(c) \/ Lose(c) \/ Close(c)
  \/ \E t \in Txs :
       \/ Statement(t) \/ DisposePlain(t)
       \/ \E c \in Conns :
            \/ BeginWork(t, c) \/ BeginThrows(t, c) \/ BeginPlain(t, c)
            \/ Commit(t, c) \/ CommitAborted(t, c) \/ CommitIdle(t, c)
            \/ DisposeWork(t, c)

Spec == Init /\ [][Next]_vars

-----------------------------------------------------------------------------
(* The abstract transactions that the drivers implement. *)

Has(t) == tx[t] = "open" /\ owner[on[t]] = t

Collected(t) == IF Has(t) THEN pending[on[t]] ELSE {}

Progress(t) ==
  CASE tx[t] = "none" -> "new"
    [] tx[t] \in {"refused", "gone"} -> "end"
    [] Has(t) /\ session[on[t]] = "active" -> "tx"
    [] Has(t) /\ session[on[t]] = "failed" -> "dead"
    [] OTHER -> "auto"

absBuffer == [t \in Txs |-> Collected(t)]
absMode   == [t \in Txs |-> Progress(t)]

Abs == INSTANCE AtomicTx WITH store <- durable, buffer <- absBuffer,
                              mode <- absMode

(* Whatever the driver, transactions that share connections through the    *)
(* pool, lose them or have statements refused are atomic up to their       *)
(* first commit, and a sequence of single statements from then on          *)
(* (CTransaction.cpp:227-235, CDatabaseHandler_pqxx.cpp:26-34, 65-154).    *)
ImplementsAtomicTx == Abs!Spec

-----------------------------------------------------------------------------
(* Properties. *)

TypeOK ==
  /\ driver \in Drivers
  /\ conn \in [Conns -> {"new", "up", "failed", "lost", "closed"}]
  /\ session \in [Conns -> {"idle", "active", "failed"}]
  /\ pending \in [Conns -> SUBSET (Txs \X (1..MaxStmts))]
  /\ unread \in [Conns -> BOOLEAN] /\ owner \in [Conns -> Txs \cup {NoTx}]
  /\ tx \in [Txs -> {"none", "open", "refused", "gone"}]
  /\ on \in [Txs -> Conns]
  /\ durable \subseteq Txs \X (1..MaxStmts)
  /\ log \in [Txs -> Seq(Entry)] /\ \A t \in Txs : Len(log[t]) <= MaxStmts
  /\ inside \in [Txs -> SUBSET (Txs \X (1..MaxStmts))]
  /\ asked \in [Txs -> Nat] /\ cut \subseteq Txs

(* The statements of a transaction up to its commit() are all durable or   *)
(* none is, although commit() is a statement like any other, is never told *)
(* to libpqxx, and is not checked (CTransaction.cpp:229-233).              *)
AllOrNothing ==
  \A t \in Txs : inside[t] \subseteq durable \/ inside[t] \cap durable = {}

(* commit() returns nothing, and only this decides what it did, unless the *)
(* connection broke or the server refused: whether every call before it    *)
(* was executed.  One that was not takes all the others with it, and when  *)
(* it was a select() or selectCustom(), which answer a failure with an     *)
(* empty result (CTransaction.cpp:154, 204), no call ever told the user.   *)
CommitVerdict ==
  \A t \in Txs \ cut : asked[t] > 0 /\ driver = "pqxx" =>
    IF \A n \in 1..asked[t] - 1 : log[t][n].done
      THEN inside[t] \subseteq durable
      ELSE inside[t] \cap durable = {}

(* Before the first commit() of a libpqxx transaction an error is final: a *)
(* call that reported one has nothing in the database, then or later, not  *)
(* even when it was executed and its answer was lost with the connection   *)
(* (CDatabaseHandler_pqxx.cpp:71-83, 105-127), but for an insert() whose   *)
(* id was NULL (line 91).  With MySQL, and after "commit;"                 *)
(* (CTransaction.cpp:233), a call that failed may have been done.          *)
Early(t, n) == asked[t] = 0 \/ n < asked[t]
ErrorLeavesNothing ==
  driver = "pqxx" =>
    \A t \in Txs : \A n \in 1..Len(log[t]) :
      Early(t, n) /\ log[t][n].answer \in {"error", "false"}
        => <<t, n>> \notin durable

(* After its first commit(), and with MySQL always, a transaction is       *)
(* outside of any transaction of the server, though libpqxx takes its work *)
(* for active: dispose() has nothing to take back.                         *)
NoWayBack ==
  \A t \in Txs :
    tx[t] = "open" /\ conn[on[t]] = "up" /\ (driver = "mysql" \/ asked[t] > 0)
      => session[on[t]] = "idle"

(* The inductive invariant of DriverProofs, in named parts: whose work is  *)
(* on a connection, and what the server holds of it; which statements a    *)
(* transaction can have made, and what those that the server holds were    *)
(* answered; what became of those it made before its commit, and why; and  *)
(* that before it nothing goes into the database by itself.                *)
OwnerInv ==
  /\ \A c \in Conns :
       IF owner[c] = NoTx
         THEN session[c] = "idle"
         ELSE /\ driver = "pqxx" /\ conn[c] \in {"up", "lost", "closed"}
              /\ tx[owner[c]] = "open" /\ on[owner[c]] = c
  /\ \A t \in Txs : driver = "pqxx" /\ tx[t] = "open" => owner[on[t]] = t
HeldInv ==
  \A c \in Conns :
    /\ session[c] = "active" => conn[c] = "up"
    /\ pending[c] = IF session[c] = "active" THEN inside[owner[c]] ELSE {}
LeftInv ==
  \A c \in Conns :
    conn[c] = "up" /\ session[c] # "idle" => asked[owner[c]] = 0
MadeInv ==
  \A t \in Txs :
    /\ \A p \in inside[t] : p[1] = t /\ p[2] <= Len(log[t])
    /\ \A p \in durable : p[1] = t => p[2] <= Len(log[t])
    /\ tx[t] = "none" => inside[t] = {} /\ asked[t] = 0
FateInv ==
  /\ AllOrNothing
  /\ \A c \in Conns : session[c] # "idle" => inside[owner[c]] \cap durable = {}
AnswerInv ==
  \A t \in Txs :
    /\ tx[t] = "none" => log[t] = <<>>
    /\ tx[t] = "open" => driver # "empty"
    /\ \A p \in inside[t] : log[t][p[2]].answer \notin {"error", "false"}
EarlyInv ==
  driver = "pqxx" =>
    \A p \in durable : Early(p[1], p[2]) => p \in inside[p[1]]
AllDone(t, n) == \A m \in 1..n : log[t][m].done
VerdictInv ==
  /\ CommitVerdict
  /\ \A t \in Txs :
       /\ asked[t] <= Len(log[t]) + 1
       /\ driver = "pqxx" /\ tx[t] = "open" /\ asked[t] = 0 =>
            session[on[t]] # "idle"
  /\ \A c \in Conns :
       /\ session[c] = "active" => AllDone(owner[c], Len(log[owner[c]]))
       /\ session[c] = "failed" /\ owner[c] \notin cut =>
            ~AllDone(owner[c], Len(log[owner[c]]))
DriverIInv ==
  /\ TypeOK /\ OwnerInv /\ HeldInv /\ LeftInv /\ MadeInv /\ FateInv
  /\ AnswerInv /\ VerdictInv /\ EarlyInv
=============================================================================
