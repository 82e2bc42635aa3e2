---------------------------- MODULE MCTcpServer ----------------------------
(* Instances of TcpServer. *)
EXTENDS TcpServer, TLC

Request(name, argc) == [name |-> name, argc |-> argc, key |-> 1]

MCRequests == {Request("SET", 3), Request("GET", 2), Request("BAD", 0)}
MCOtherRequests == {Request("RSCAN", 2), Request("BAD", 0)}
MCSymmetry == Permutations(Clients) \cup Permutations(Workers)
=============================================================================
