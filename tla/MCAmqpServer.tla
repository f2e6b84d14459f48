---------------------------- MODULE MCAmqpServer ----------------------------
(***************************************************************************)
(* A small instance of AmqpServer: the two exchanges of wunderdns.ini.     *)
(***************************************************************************)
EXTENDS AmqpServer

CONSTANTS amqp1, amqp2, k1, k2

MCExchangeOf == [g \in Consumer |-> IF g = amqp1 THEN "wunderdns" ELSE "wunderdns2"]
MCPublishes  == [k \in Client |-> IF k = k1 THEN "wunderdns" ELSE "wunderdns2"]
=============================================================================
