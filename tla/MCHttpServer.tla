---------------------------- MODULE MCHttpServer ----------------------------
EXTENDS HttpServer

(* A target without a query, and one with.                                 *)
NoneOrOne == {<<>>, <<"q">>}
=============================================================================
