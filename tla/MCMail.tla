------------------------------- MODULE MCMail -------------------------------
(***************************************************************************)
(* Mail on a small instance: a customer whose form gives no address, or    *)
(* one twice, and three webhook events, one of them forged.                *)
(***************************************************************************)
EXTENDS MailProperties

CONSTANTS c1, a1, a2, e1, e2, e3

MCLogin == [u \in User |-> a1]
MCAddressLists == {<<a2, a2>>}
MCReported == [e \in Event |-> IF e = e1 THEN <<a1, a2>> ELSE <<a1>>]
MCSubscriber == [s \in Subscription |-> c1]
=============================================================================
