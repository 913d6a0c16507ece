----------------------------- MODULE MCClients -----------------------------
(* Two brokers, the first of which is the bootstrap address. *)
EXTENDS ClientsInv
CONSTANTS a1, a2
MCAddr == {a1, a2}
MCBootstrap == << a1, a2 >>
MCFaults == {"io", "connect", "codec", "timeout", "silent", "code", "auto", "elect", "leader", "cancel"}
MCAlone == {"silent", "elect", "leader", "auto"}
=============================================================================
