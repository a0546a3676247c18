---------------------------- MODULE MCHttpClient ----------------------------
(* An instance of HttpClient: a GET and a POST of one client.             *)
EXTENDS HttpClient

CONSTANTS get, post

MCReq == {get, post}
MCMethod == [q \in MCReq |-> IF q = get THEN "GET" ELSE "POST"]
MCClient == [q \in MCReq |-> "client"]

=============================================================================
