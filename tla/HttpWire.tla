------------------------------ MODULE HttpWire ------------------------------
(***************************************************************************)
(* What travels on one HTTP connection between CClient and CNode, and the  *)
(* rules both ends share.  A direction of the connection is a sequence of  *)
(* items: a line of the header (one item, with the fields that the code    *)
(* reads out of it), or a byte of the body.  Both ends read the header     *)
(* byte by byte and act at the end of a line only, so a line that is still *)
(* on its way is a line that has not come.                                 *)
(***************************************************************************)
EXTENDS Integers, Sequences, SequencesExt

CONSTANTS Wrap,      \* 2^32 for the code's unsigned int; scaled down for TLC
          NulByte    \* the byte 0, the end of a C string

VARIABLES up,        \* request items on their way to the server
          upOpen,    \* the client's end is open
          down,      \* response items on their way to the client
          downOpen,  \* the server's end is open
          fault      \* history: a timeout, a death, a failed or short write

wireVars == <<up, upOpen, down, downOpen, fault>>

ASSUME WrapAssumption == Wrap \in Nat /\ Wrap > 1

\* The lines of a request.  A target is the path, a sequence of segments
\* (the last one empty for a path that ends in "/"), and the query string,
\* cut at its colons: <<>> for none, two parts for "a:b".
StartLine(method, target) ==
  [k |-> "start", method |-> method, target |-> target]
HostLine(host)     == [k |-> "host", host |-> host]
CookieLine(crumbs) == [k |-> "cookie", crumbs |-> crumbs]
LengthLine(n)      == [k |-> "length", n |-> n]
BlankLine          == [k |-> "blank"]
OtherLine          == [k |-> "other"]

\* The lines only a response has, and the items of a chunked body.
StatusLine(code)       == [k |-> "status", code |-> code]
TypeLine(type)         == [k |-> "type", type |-> type]
SetCookie(name, value) == [k |-> "setcookie", name |-> name, value |-> value]
ChunkedLine            == [k |-> "chunked"]
SizeLine(n)            == [k |-> "size", n |-> n]
Cr                     == [k |-> "cr"]
Lf                     == [k |-> "lf"]

Byte(b)      == [k |-> "byte", b |-> b]
Bytes(body)  == [i \in DOMAIN body |-> Byte(body[i])]
Text(items)  == [i \in DOMAIN items |-> items[i].b]

NoResponse == [code |-> 0, type |-> "", sid |-> "", cookies |-> <<>>,
               body |-> <<>>]

\* Both ends count line ends, and a second one with no character between
\* stops the header: a blank line does, unless it is the very first line.
EndsHeader(line, before) == line.k = "blank" /\ before > 0

\* atoi yields a signed number, which the loops compare as an unsigned int.
Unsigned(n) == n % Wrap

\* A chunk appended to a std::string as a C string stops at its first NUL.
CString(bytes) ==
  IF \E i \in DOMAIN bytes : bytes[i] = NulByte
  THEN SubSeq(bytes, 1, SelectInSeq(bytes, LAMBDA b : b = NulByte) - 1)
  ELSE bytes
=============================================================================
