---------------------------- MODULE MCHttpsFetch ----------------------------
(***************************************************************************)
(* An instance of HttpsFetch for TLC: the URLs on the command line and the *)
(* server's response, as sequences of the module's characters.            *)
(***************************************************************************)
EXTENDS HttpsFetch

\* https://h/h, http://h/h, h:8/h (no scheme, port 8), https://h:80/h
\* (rejected), http://h (no path: rejected), https://h/h:8 (a ':' after
\* the '/').
CommandLines ==
    { <<"https://", "h", "/", "h">>, <<"http://", "h", "/", "h">>,
      <<"h", ":", "8", "/", "h">>, <<"https://", "h", ":", "8", "0", "/", "h">>,
      <<"http://", "h">>, <<"https://", "h", "/", "h", ":", "8">> }

\* "t CR LF CR LF": a status line and the blank line; a body of one byte.
HeadReply == <<"t", "r", "n", "r", "n">>
BodyReply == <<"t">>
====
