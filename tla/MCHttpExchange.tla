--------------------------- MODULE MCHttpExchange ---------------------------
(* Instance of HttpExchange for TLC.  Two bytes fill one of the node's     *)
(* reads and one goes out in one of the client's writes, so that bodies of *)
(* three bytes take several of both; unsigned numbers have five bits.      *)
EXTENDS HttpInv

MCEndpoints == {[path |-> <<"api", "get">>, method |-> "GET"],
                [path |-> <<"api", "set">>, method |-> "POST"]}

MCStaticEndpoints == <<[host |-> <<"solusek.com">>, dir |-> "solusek"],
                       [host |-> <<>>, dir |-> "static"]>>

MCStaticIndexes == <<"index.html", "readme">>

MCFiles == (<<"static", "readme">> :> <<"r">>)
             @@ (<<"solusek", "index.html">> :> <<"i", "x">>)

MCMime == "index.html" :> "text/html"

Resp(type, sid, cookies, body) ==
  [code |-> 200, type |-> type, sid |-> sid, cookies |-> cookies,
   body |-> body]

(* What callbacks return: with a body of two bytes, with none, with a      *)
(* session and a cookie, with no type, and with a cookie without a value.  *)
MCResponses ==
  {Resp("json", "", <<>>, <<"a", "b">>),
   Resp("json", "id", <<[name |-> "test", value |-> "v"]>>, <<"a">>),
   Resp("json", "", <<>>, <<>>),
   Resp("", "", <<>>, <<"a">>),
   Resp("json", "", <<[name |-> "test", value |-> ""]>>, <<"a">>)}

Target(path, query) == [path |-> path, query |-> query]

Job(method, target, body) ==
  [valid |-> TRUE, hasPort |-> TRUE, host |-> <<"www.", "solusek.com">>,
   method |-> method, target |-> target, body |-> body, crumbs |-> <<>>,
   ignoreResult |-> FALSE]

MCJobs ==
  LET set == Job("POST", Target(<<"api", "set">>, <<>>), <<"a", "b", "c">>)
      get == Job("GET", Target(<<"api", "get">>, <<"q">>), <<>>)
      odd == [get EXCEPT !.target.query = <<"q", "r">>]
  IN  {set, get, odd,
       [set EXCEPT !.body = <<"a", NulByte, "c">>],
       [set EXCEPT !.ignoreResult = TRUE],
       [get EXCEPT !.crumbs = <<[name |-> "test", eq |-> FALSE, value |-> ""],
                                [name |-> "SolusekSID", eq |-> TRUE,
                                 value |-> "id"]>>],
       [get EXCEPT !.target = Target(<<"">>, <<>>)],
       [get EXCEPT !.target = Target(<<"">>, <<>>), !.host = <<"other.org">>],
       [get EXCEPT !.target = Target(<<"..", "readme">>, <<>>)],
       [odd EXCEPT !.hasPort = FALSE],
       [get EXCEPT !.valid = FALSE]}

(* Streams of other clients: no header at all, blank lines before and in   *)
(* place of a start line, a header line in its place, half a header, a     *)
(* negative length, a body cut short, and one longer than announced.       *)
MCStrangers ==
  LET start == StartLine("POST", Target(<<"api", "set">>, <<>>))
      line(n) == <<start, LengthLine(n), BlankLine>>
  IN  {<<>>, <<BlankLine, BlankLine>>, <<BlankLine, start, BlankLine>>,
       <<HostLine(<<"other.org">>), BlankLine>>, <<start, OtherLine>>,
       line(-1) \o Bytes(<<"a">>), line(2) \o Bytes(<<"a">>),
       line(1) \o Bytes(<<"a", "b", "c">>)}

Stream(whole, items, body) ==
  [whole |-> whole, items |-> items, code |-> 200, body |-> body]

Chunks(parts) ==
  <<StatusLine(200), ChunkedLine, BlankLine>>
  \o FlattenSeq([i \in DOMAIN parts |->
                   <<SizeLine(Len(parts[i]))>> \o Bytes(parts[i]) \o <<Cr, Lf>>])

(* Streams of other servers: with a length, whole, cut short and empty; in *)
(* two chunks, whole and cut at several places; with neither, until the    *)
(* end of the connection; half a header.                                   *)
MCServers ==
  LET head == <<StatusLine(200), TypeLine("json"), LengthLine(2), BlankLine>>
      abc  == Chunks(<< <<"a">>, <<"b", "c">>, <<>> >>)
  IN  {Stream(TRUE, head \o Bytes(<<"a", "b">>), <<"a", "b">>),
       Stream(FALSE, head \o Bytes(<<"a">>), <<"a", "b">>),
       Stream(FALSE, SubSeq(head, 1, 2), <<>>),
       Stream(TRUE, <<StatusLine(200), LengthLine(0), BlankLine>>, <<>>),
       Stream(FALSE, <<StatusLine(200), BlankLine>> \o Bytes(<<"a">>), <<"a">>),
       Stream(TRUE, abc, <<"a", "b", "c">>)}
    \cup {Stream(FALSE, SubSeq(abc, 1, n), <<"a", "b", "c">>) : n \in 5..10}
=============================================================================
