---------------------------- MODULE MCHttpContext ----------------------------
(* Requests of both versions that keep or close the connection, bodies of  *)
(* every length, with a CRLF too, and what the parser refuses, misreads or *)
(* dies of.                                                                *)
EXTENDS HttpContext

MCGet(version, connection) ==
  [word |-> "GET", version |-> version, connection |-> connection, length |-> -1, body |-> <<>>]
MCPost(length, body) ==
  [word |-> "POST", version |-> "1.1", connection |-> "none", length |-> length, body |-> body]

MCRequests ==
  {MCGet("1.1", "none"), MCGet("1.1", "close"), MCGet("1.0", "none"), MCGet("1.0", "Keep-Alive"),
   [MCGet("other", "none") EXCEPT !.word = "CONNECT"],
   [MCGet("1.1", "none") EXCEPT !.body = <<"byte">>],
   MCPost(-1, <<"byte">>), MCPost(2, <<"byte">>), MCPost(1, <<"cr", "lf">>),
   MCPost(0, <<>>), MCPost(1, <<"byte">>), MCPost(2, <<"byte", "byte">>), MCPost(2, <<"cr", "lf">>)}
=============================================================================
