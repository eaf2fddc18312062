---------------------------- MODULE MCHttpServer ----------------------------
(* The instance of HttpServer that TLC checks: plain requests, the ways to  *)
(* ask for or against closing, a refused method and version, a line that    *)
(* ends the headers early; the callback of a server that sets none, one     *)
(* that serves everything and one that does not serve PUT.                  *)
EXTENDS HttpServer

MCCallbacks == {DefaultHttpCallback, {}, {"kput"}}

MCRequests == {
    <<Request("GET", "HTTP/1.1"), Blank>>,
    <<Request("PUT", "HTTP/1.1"), Header("Host", "h"), Header("Connection", "close"), Blank>>,
    <<Request("POST", "HTTP/1.0"), Header("Connection", "Keep-Alive"), Blank>>,
    <<Request("DELETE", "HTTP/1.0"), Blank>>,
    <<Request("HEAD", "HTTP/1.1"), Blank>>,
    <<Request("GET", "HTTP/2.0"), Blank>>,
    <<Request("GET", "HTTP/1.1"), Text, Blank>>}
=============================================================================
