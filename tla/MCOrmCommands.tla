--------------------------- MODULE MCOrmCommands ---------------------------
(***************************************************************************)
(* Small instances of OrmCommands for TLC: one zone, two tenants, a record *)
(* name beside the apex.  Each MC...Requests is the menu of one run.       *)
(***************************************************************************)
EXTENDS OrmCommands, TLC

CONSTANTS w1, w2, w3, z1, h1, h2, t1, t2, t3

MCHandlers  == {w1, w2}
MCHandlers3 == {w1, w2, w3}
MCSymmetry  == Permutations(Handler)
MCOneView   == <<"public">>
MCReplicas  == <<"public", "public">>
MCTwoViews  == <<"public", "private">>
MCLabels    == {"", "@", "www"}
MCTypes     == {"SOA", "A", "CNAME", "MX", "SRV", "PTR", "LOC"}

MCRec(name, type, data) == [name |-> name, type |-> type, data |-> data, ttl |-> 0]
MCReq(cmd, token, records) ==
  [cmd |-> cmd, token |-> token, view |-> "public", domain |-> z1, recs |-> records,
   newToken |-> IF cmd # "replace_owner" THEN UnknownToken ELSE IF token = t1 THEN t2 ELSE t1]

MCSoa(n)      == MCRec("", "SOA", <<<<n>>>>)
MCWww(type, h) == MCRec("www", type, <<<<h>>>>)

MCRow(id, name, type, content, owner) ==
  [id |-> id, domain |-> z1, name |-> name, type |-> type, content |-> content,
   ttl |-> DefaultTtl, prio |-> 0, owner |-> owner]

\* The same contents in every database.
MCStore(kind, content, next) ==
  [zones |-> [d \in Orm |-> [x \in DomainName |-> kind]],
   rows |-> [d \in Orm |-> content], nextId |-> [d \in Orm |-> next]]

MCZone == MCStore("MASTER", {MCRow(1, "", "SOA", <<2>>, t1),
                             MCRow(2, "www", "A", <<h1>>, t1)}, 3)
MCMxZone == MCStore("MASTER", {MCRow(1, "", "SOA", <<2>>, t1),
                               [MCRow(2, "www", "MX", <<h1>>, t1) EXCEPT !.prio = 1]}, 3)
MCNoZone == MCStore("absent", {}, 1)
\* What two create_record at once can leave: a zone with two SOAs.
MCTwinSoas == MCStore("MASTER", {MCRow(1, "", "SOA", <<2>>, t1),
                                 MCRow(2, "", "SOA", <<4>>, t1)}, 3)
MCStores == {MCZone}
MCMxStores == {MCMxZone}
MCMaybeZone == {MCNoZone, MCZone}
MCNoZones == {MCNoZone, MCTwinSoas, MCZone}

MCBothViews(q) == [q EXCEPT !.view = "*"]
MCMx(h)     == MCRec("www", "MX", <<<<1, h>>>>)
MCMxCreate  == MCReq("create_record", t1, <<MCMx(h1)>>)
MCMxDelete  == MCReq("delete_record", t1, <<MCMx(h1)>>)
MCSrvCreate == MCReq("create_record", t1, <<MCRec("www", "SRV", <<<<1, 2, 3, h1>>>>)>>)
MCSrvDelete == MCReq("delete_record", t1, <<MCRec("www", "SRV", <<<<1, 2, 3, h1>>>>)>>)
MCSrvRequests == {MCSrvCreate, MCSrvDelete}

\* Two tenants in one zone, whose SOA is replaced and handed over and back
\* under the editors.  The replacement locks the SOA before the MX, the delete
\* after it; the delete goes to both views, and finds its data stripped in
\* the second.
MCTenantRequests ==
  {MCReq("create_record", t2, <<MCWww("A", h2)>>),
   MCReq("replace_record", t1, <<MCSoa(2), MCMx(h2)>>),
   MCReq("replace_owner", t1, <<MCSoa(2)>>),
   MCReq("replace_owner", t2, <<MCSoa(2)>>),
   MCBothViews(MCMxDelete)}

\* A zone that is made while its first records arrive, and then loses them.
MCZoneRequests ==
  {MCReq("create_domain", t1, <<>>),
   MCReq("create_record", t1, <<MCSoa(4), MCRec("www", "LOC", <<<<h1>>>>)>>),
   MCReq("create_record", t1, <<MCSoa(2)>>),
   MCReq("create_record", t1, <<MCRec("www", "LOC", <<>>)>>),
   MCReq("delete_record", t1, <<MCRec("www", "LOC", <<>>)>>),
   MCReq("delete_record", t1, <<MCSoa(4)>>),
   MCReq("delete_record", t1, <<MCSoa(2)>>),
   MCReq("replace_owner", t2, <<MCSoa(2)>>)}

MCHandToT2 == MCReq("replace_owner", t1, <<MCWww("A", h1)>>)
MCHandToT3 == [MCHandToT2 EXCEPT !.newToken = t3]
MCHandToNobody == [MCHandToT2 EXCEPT !.newToken = UnknownToken]

\* One request after another, to two databases of one view, which may lack
\* the zone at first.
MCSequentialRequests ==
  {MCReq("create_record", t2, <<MCWww("CNAME", h1)>>),
   MCReq("create_record", t2, <<MCWww("A", h2)>>),
   MCReq("create_record", t1, <<MCRec("@", "PTR", <<<<h1>>>>)>>),
   MCReq("create_record", t1, <<MCSoa(3)>>),
   MCReq("create_record", t2, <<MCWww("A", h1), MCWww("CNAME", h1)>>),
   MCReq("delete_record", t1, <<MCRec("www", "A", <<<<h1>>, <<h2>>>>)>>),
   MCReq("replace_record", t1, <<MCWww("A", h2)>>),
   MCReq("create_domain", t1, <<>>),
   MCReq("create_record", t1, <<MCSoa(4), MCRec("www", "LOC", <<<<h1>>>>)>>),
   MCReq("create_record", t1, <<MCRec("www", "LOC", <<>>)>>),
   MCReq("delete_record", t1, <<MCRec("www", "LOC", <<>>)>>),
   MCReq("delete_record", t1, <<MCSoa(2)>>),
   MCHandToT3, MCHandToNobody}

\* Two requests that both pass create_record's checks.
MCCnameRequests == {MCReq("create_record", t1, <<MCRec("@", "PTR", <<<<h1>>>>)>>),
                    MCReq("create_record", t2, <<MCRec("@", "PTR", <<<<h2>>>>)>>)}
MCSerialRequests == {MCReq("create_record", t1, <<MCRec("@", "PTR", <<<<h1>>>>)>>),
                     MCReq("create_record", t2, <<MCWww("A", h2)>>)}

\* A token hands one row to two others.
MCHandoverRequests == {MCHandToT2, MCHandToT3}
=============================================================================
