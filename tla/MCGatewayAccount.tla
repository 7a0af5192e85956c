-------------------------- MODULE MCGatewayAccount --------------------------
(***************************************************************************)
(* TLC instance of GatewayAccount: two lifecycles that may overlap, the    *)
(* first with a TOTP secret, the second without, and two messages.  The    *)
(* first message is a code, right or wrong, of alice and reaches both; the *)
(* second is a text or a code of alice, or the first code, from bob.       *)
(***************************************************************************)
EXTENDS GatewayAccount

CONSTANTS alice, bob, m1, m2

From(s, texts) == {[sender |-> s, text |-> t] : t \in texts}

Letters == [m \in Messages |->
    IF m = m1
    THEN From(alice, {0, WrongCode})
    ELSE From(alice, {Text, 1}) \cup From(bob, {0})]

Delivered == [n \in Lives |-> IF n = 1 THEN Messages ELSE {m1}]
=============================================================================
