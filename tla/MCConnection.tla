---------------------------- MODULE MCConnection ----------------------------
(* Two nodes: late headers leave the first one with two competing reconnects. *)
EXTENDS Connection, TLC

CONSTANTS n1, n2

MCMaxCalls == n1 :> 2 @@ n2 :> 1

\* a bound that does not bind: an object is always free
ObjectsSuffice == \E c \in Conn : IsFree(c)

=============================================================================
