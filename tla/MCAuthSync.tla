----------------------------- MODULE MCAuthSync -----------------------------
(***************************************************************************)
(* A small instance of AuthSync: a token of the configuration, which Vault *)
(* may hold too, and one of Vault alone.                                   *)
(***************************************************************************)
EXTENDS AuthSync

CONSTANTS w1, w2, tc, tv, s1, a, b

MCHandlers == {w1, w2}

MCKey(view, name, cmds) == [parts |-> 2, view |-> view, name |-> name, cmds |-> cmds]
MCSection(secret, keys) == [secret |-> secret, keys |-> keys]

MCConfigured ==
  [t \in Token |->
     IF t = tc THEN MCSection(s1, {MCKey("public", <<"*", a>>, {"create_record", "replace_owner"}),
                                   [MCKey("*", <<b>>, {"delete_record", "list_own"})
                                      EXCEPT !.parts = 1],
                                   [MCKey("public", <<b, a>>, {"*"}) EXCEPT !.parts = 3],
                                   MCKey("privat", <<b>>, {"*"})})
     ELSE NoEntry]

MCVault == {MCSection(s1, {MCKey("*", <<"*">>, {"*"})}),
            MCSection(s1, {MCKey("public", <<b, a>>, {"replace_owner"})})}

MCReq(token, secret, cmd, name, newToken) ==
  [token |-> token, secret |-> secret, fresh |-> TRUE, cmd |-> cmd, view |-> "public",
   name |-> name, newToken |-> newToken]

\* A handover under the lock beside an edit that locks the same row; of the
\* two sections that Vault may hold for tv only the first permits the edit.
MCRequests ==
  {MCReq(tc, s1, "replace_owner", <<b, a>>, tv),
   MCReq(tv, s1, "create_record", <<b, a>>, tc)}
=============================================================================
