---------------------------- MODULE MCHttpGateway ----------------------------
(***************************************************************************)
(* A small instance of HttpGateway: the two exchanges of wunderdns.ini,    *)
(* and a call of the HTTP interface, which publishes to the first.         *)
(***************************************************************************)
EXTENDS HttpGateway

CONSTANTS amqp1, amqp2, h1

Asks(cmd, flaw, view, items) == [cmd |-> cmd, flaw |-> flaw, view |-> view, items |-> items]

MCClient     == Http \X (1 .. MaxParts)
MCExchangeOf == [g \in Consumer |-> IF g = amqp1 THEN "wunderdns" ELSE "wunderdns2"]
MCPublishes  == [k \in Client |-> "wunderdns"]
MCAsked ==
  { Asks("create_record", "none", "other", <<"whole", "whole">>),
    Asks("delete_record", "none", "other", <<"whole", "untyped">>),
    Asks("replace_record", "none", "other", <<"whole", "incomplete">>),
    Asks("create_record", "fields", "other", <<>>),
    Asks("create_domain", "fields", "other", <<>>),
    Asks("replace_owner", "none", "*", <<"whole">>),
    Asks("replace_owner", "none", "private", <<"no hash">>),
    Asks("replace_owner", "none", "other", <<>>),
    Asks("list_records", "fields", "public", <<>>),
    Asks("list_own", "headers", "other", <<>>) }
=============================================================================
