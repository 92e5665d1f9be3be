----------------------------- MODULE MCHttpServer -----------------------------
(* An instance of the HTTP server whose only fault is an argument that     *)
(* does not parse.                                                         *)
EXTENDS HttpServer

BadArguments == {"arguments"}
=============================================================================
