------------------------------- MODULE MCServer -------------------------------
(***************************************************************************)
(* Instances of Server: two clients and no peer, or one of each.           *)
(***************************************************************************)
EXTENDS Server

CONSTANTS h1, h2, p1

MCConfigurations ==
    {[clients |-> {h1, h2}, peers |-> {}], [clients |-> {h1}, peers |-> {p1}]}

===============================================================================
