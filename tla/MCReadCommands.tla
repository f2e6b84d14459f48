--------------------------- MODULE MCReadCommands ---------------------------
(* The menu of MCOrmCommands with a reader beside the handlers.            *)
EXTENDS MCOrmCommands, ReadCommands

CONSTANT r1

MCQuery(cmd, names) ==
  [cmd |-> cmd, token |-> t1, view |-> "*", domain |-> z1, names |-> {z1} \X names]
MCQueries ==
  {MCQuery("list_domains", {}), MCQuery("list_records", MCLabels),
   MCQuery("list_own", MCLabels), MCQuery("search_record", {"www"})}

\* A zone that is made in both views while its first records arrive, and
\* then loses them in one.
MCReadRequests ==
  (MCZoneRequests \ {MCReq("create_record", t1, <<MCSoa(2)>>)}) \cup
  {MCBothViews(q) : q \in {MCReq("create_domain", t1, <<>>), MCMxCreate}}
=============================================================================
