------------------------------ MODULE Request -------------------------------
(***************************************************************************)
(* What a program that calls CClient::runRequest() may rely on, and what   *)
(* the endpoint may that answers it, whatever becomes of the connection:   *)
(* the endpoint is called at most once, with what was asked, and nothing   *)
(* that was refused is asked of it; there is one answer, settled with the  *)
(* call or without one; and the program gets a first part of that answer,  *)
(* once, or all of it.  It may get nothing of an answer that there is, or  *)
(* that comes later: a failure does not mean that nothing was done.        *)
(*                                                                         *)
(* There are no sockets, messages or ends here: HttpExchange implements    *)
(* this module with CClient and CNode.                                     *)
(***************************************************************************)
EXTENDS Naturals, Sequences, SequencesExt

CONSTANTS
  NulByte,        (* the byte at which a body is cut                       *)
  NotRun          (* no call                                               *)

VARIABLES
  asked,          (* what is asked                                         *)
  mine,           (* by runRequest(); else by some other client            *)
  ran,            (* what the endpoint was called with                     *)
  answer,         (* [settled, code, body]                                 *)
  result          (* [returned, code, body, whole]                         *)

vars == <<asked, mine, ran, answer, result>>

(* The answer of a server that is not Solusek's is settled from the start. *)
Init ==
  /\ mine \in BOOLEAN
  /\ ran = NotRun
  /\ answer.settled => mine
  /\ ~result.returned

AsAsked(call) ==
  /\ asked.valid
  /\ call.method = asked.method /\ call.host = asked.host
  /\ call.path = asked.target.path /\ call.query = asked.target.query
  /\ NulByte \notin ToSet(asked.body) => call.body = asked.body

(* The answer is settled without the endpoint, *)
Settle ==
  /\ ~answer.settled /\ (answer').settled
  /\ mine => asked.valid
  /\ UNCHANGED <<asked, mine, ran, result>>

(* or with it. *)
Run ==
  /\ ~answer.settled /\ (answer').settled
  /\ ran = NotRun /\ ran' # NotRun
  /\ mine => AsAsked(ran')
  /\ UNCHANGED <<asked, mine, result>>

(* What is returned of the answer, if there is one by then. *)
IsOf(r) ==
  IF answer.settled
  THEN /\ r.code \in {0, answer.code} /\ IsPrefix(r.body, answer.body)
       /\ r.whole => r.code = answer.code /\ r.body = answer.body
  ELSE r.code = 0 /\ r.body = <<>> /\ ~r.whole

Return ==
  /\ mine /\ asked.valid
  /\ ~result.returned /\ (result').returned
  /\ IsOf(result')
  /\ UNCHANGED <<asked, mine, ran, answer>>

(* A request that is not made gets the response by default. *)
Refuse ==
  /\ mine /\ ~asked.valid
  /\ ~result.returned /\ (result').returned
  /\ (result').code = 200 /\ (result').body = <<>>
  /\ UNCHANGED <<asked, mine, ran, answer>>

Next == Settle \/ Run \/ Return \/ Refuse

Spec == Init /\ [][Next]_vars

=============================================================================
