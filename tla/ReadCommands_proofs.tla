------------------------ MODULE ReadCommands_proofs ------------------------
(***************************************************************************)
(* What the lists and searches show beside the writing commands, for every *)
(* value of the constants: a reply of SUCCESS is whole and true of every   *)
(* database of its view.  The readers and their deaths leave the handlers' *)
(* own theorems standing.                                                  *)
(***************************************************************************)
EXTENDS ReadCommands, SoaKept_proofs

-----------------------------------------------------------------------------
(* The handlers: a step of ReadSpec is one of theirs, or leaves all but    *)
(* the count of faults alone.                                              *)

Standstill ==
  UNCHANGED <<today, database, tx, req, recs, pc, loc, reply>> /\ faults' \in Nat

\* Where no handler runs, the process has nothing of theirs to lose.
LEMMA NothingToLose ==
  ASSUME IInv, InFlight = {}, Die
  PROVE  UNCHANGED <<today, database, tx, req, recs, pc, loc, reply>>
<1>1. \A w \in Handler : ~Running(w) /\ tx[w] = NoTx /\ loc[w] = NoLoc
  BY DEF InFlight, IInv, Control, Placed
<1>2. TypeOK BY DEF IInv
<1>3. tx' = tx BY <1>1, <1>2 DEF Die, TypeOK
<1>4. loc' = loc BY <1>1, <1>2 DEF Die, TypeOK
<1>5. pc' = pc BY <1>1, <1>2 DEF Die, TypeOK
<1> QED BY <1>3, <1>4, <1>5 DEF Die

LEMMA HandlersStep == ASSUME IInv, [ReadNextState]_readVars PROVE [Next]_vars \/ Standstill
<1>1. Handlers \/ Crash \/ (\E w \in Handler : Panic(w)) => Next
  BY DEF Handlers, Next, Handle
<1>2. ASSUME CrashReading PROVE Standstill
  BY <1>2, NothingToLose DEF CrashReading, Fault, Standstill, IInv, TypeOK
<1>3. ASSUME NEW r \in Reader, StatementFails(r) PROVE Standstill
  BY <1>3 DEF StatementFails, Fault, Standstill, IInv, TypeOK
<1>4. UNCHANGED readVars => UNCHANGED vars BY DEF readVars
<1> QED BY <1>1, <1>2, <1>3, <1>4 DEF ReadNextState, ProcessDies

LEMMA StandstillKeeps == ASSUME IInv, KInv, Standstill PROVE IInv' /\ KInv'
<1>1. UNCHANGED <<today, zones, rows, nextId, tx, req, recs, pc, loc, reply>>
  BY DEF Standstill, database
<1>2. TypeOK' BY <1>1 DEF Standstill, IInv, TypeOK
<1>3. RowIdentity'
  <2>1. \A d \in Orm : Versions(d)' = Versions(d) BY <1>1 DEF Versions, Held
  <2> QED BY <1>1, <2>1 DEF IInv, RowIdentity
<1>4. OpenTransactions'
  BY <1>1
  DEF IInv, OpenTransactions, Running, Open, Rightful, Rewritten, RightfulDelete,
      RightfulInsert, RightfulUpdate, Written, LockedByOther, ZonePending, Edits, Cmd
<1>5. Control' BY <1>1 DEF IInv, Control, Placed, Running, Cmd, Rec, Written
<1>6. KInv'
  BY <1>1
  DEF KInv, Running, OneSoa, Counted, Fresh, InRows, Back, Kept, IsSoa, Edits, Cmd
<1> QED BY <1>2, <1>3, <1>4, <1>5, <1>6 DEF IInv

\* The handlers' invariants, beside the readers.
LEMMA HandlersKeep == ASSUME IInv, KInv, [ReadNextState]_readVars PROVE IInv' /\ KInv'
<1>1. ASSUME [Next]_vars PROVE IInv' /\ KInv'
  BY <1>1, TypeStep, IdentityStep, OpenStep, ControlStep, KeptStep DEF IInv
<1> QED BY <1>1, HandlersStep, StandstillKeeps

\* The proofs of Spec's invariant and tenancy, of ReadSpec.
THEOREM HandlersBesideReaders == ReadSpec => []IInv
<1>1. ReadInit => IInv /\ KInv BY InitIInv, KeptInit DEF ReadInit
<1>2. IInv /\ KInv /\ [ReadNextState]_readVars => (IInv /\ KInv)' BY HandlersKeep
<1> QED BY <1>1, <1>2, PTL DEF ReadSpec

-----------------------------------------------------------------------------
(* Zones, and the rows in them.                                            *)

\* A zone that is there stays.
LEMMA ZonesStay ==
  ASSUME IInv, [Next]_vars, NEW d \in Orm, NEW n \in DomainName, zones[d][n] # "absent"
  PROVE  zones'[d][n] # "absent"
<1>1. zones \in [Orm -> [DomainName -> ZoneKind]] BY DEF IInv, TypeOK
<1>2. [Tenants!TZNext]_(Tenants!tzVars) BY StepRefines
<1>3. ASSUME NEW e \in Orm, NEW z \in DomainName, Tenants!AddZone(e, z)
      PROVE  zones'[d][n] # "absent"
  BY <1>1, <1>3 DEF Tenants!AddZone
<1> QED
  BY <1>2, <1>3
  DEF Tenants!TZNext, Tenants!tzVars, Tenants!AskFor, Tenants!Edit, Tenants!Handover

\* A commit puts rows only where rows were, and into the zone it edits.
LEMMA CommitInZones ==
  ASSUME IInv, ZonesThere, NEW w \in Handler, pc[w] = "commit", Apply(w),
         NEW d \in Orm, NEW y \in rows'[d]
  PROVE  zones[d][y.domain] # "absent"
<1>1. /\ TypeOK /\ Running(w) /\ loc[w].db \in Orm /\ Cmd(w) \in Command
      /\ rows \in [Orm -> SUBSET Row]
  BY LocFields DEF IInv, Running, Control, Placed, Cmd, RequestType, TypeOK
<1>2. CASE y \in rows[d] BY <1>2 DEF ZonesThere
<1>3. CASE y \notin rows[d]
  <2>1. d = loc[w].db BY <1>1, <1>3, ApplyMeans
  <2>2. ASSUME NEW x \in rows[d], y.domain = x.domain PROVE zones[d][y.domain] # "absent"
    BY <2>2 DEF ZonesThere
  <2>3. y \notin Tenants!Appeared(d) =>
          \E x \in rows[d] : x.id = y.id /\ <<x, y>> \in Tenants!Changed(d)
    BY <1>3 DEF Tenants!Appeared, Tenants!Changed
  <2>4. \A x \in rows[d] : Tenants!Restamped(x, y) => y.domain = x.domain
    BY <1>1 DEF Tenants!Restamped, Row
  <2>5. CASE Edits(w)
    <3>1. Tenants!Edit(d, req[w].token, req[w].domain) BY <1>1, <2>1, <2>5, EditRefines
    <3>2. CASE y \in Tenants!Appeared(d)
      BY <1>1, <2>1, <2>5, <3>1, <3>2 DEF Tenants!Edit, ZonesThere
    <3>3. CASE y \notin Tenants!Appeared(d)
      BY <2>2, <2>3, <2>4, <3>1, <3>3 DEF Tenants!Edit
    <3> QED BY <3>2, <3>3
  <2>6. CASE Cmd(w) = "replace_owner"
    <3>1. Tenants!Handover(d, req[w].token, req[w].newToken)
      BY <1>1, <2>1, <2>6, HandoverRefines
    <3>2. PICK x \in rows[d] : <<x, y>> \in Tenants!Changed(d)
      BY <2>3, <3>1 DEF Tenants!Handover
    <3>3. x \in Row BY <1>1
    <3>4. \/ y = [x EXCEPT !.owner = req[w].newToken]
          \/ Tenants!Restamped([x EXCEPT !.owner = req[w].newToken], y)
      BY <3>1, <3>2 DEF Tenants!Handover
    <3>5. y.domain = x.domain BY <3>3, <3>4 DEF Tenants!Restamped, Row
    <3> QED BY <2>2, <3>5
  <2>7. CASE Cmd(w) = "create_domain"
    BY <1>1, <1>3, <2>1, <2>7, AddZoneRefines DEF Tenants!AddZone
  <2> QED BY <1>1, <2>5, <2>6, <2>7 DEF Edits, Command
<1> QED BY <1>2, <1>3

\* A handler that edits a zone, and has begun to, has found it.
LEMMA EditsInZone ==
  ASSUME IInv, ZonesThere, [Next]_vars, NEW w \in Handler,
         Running(w)', pc'[w] # "begin", Edits(w)'
  PROVE  zones[loc'[w].db][req'[w].domain] # "absent"
<1>1. CASE /\ Running(w) /\ pc[w] # "begin" /\ Edits(w)
           /\ loc'[w].db = loc[w].db /\ req'[w] = req[w]
  BY <1>1 DEF ZonesThere
<1>2. ~Die BY DEF Die, Running
<1>3. CASE UNCHANGED <<rows, tx, req, recs, pc, loc>>
  BY <1>1, <1>3 DEF Running, Edits, Cmd
<1>4. ASSUME NEW u \in Handler, OthersKeep(u), req' = req, u # w
      PROVE  zones[loc'[w].db][req'[w].domain] # "absent"
  BY <1>1, <1>4 DEF OthersKeep, Running, Edits, Cmd
<1>5. ~Between(w) BY DEF Between
<1>6. CASE Work(w) /\ req' = req
  <2>1. Edits(w) /\ Running(w) /\ (pc[w] = "begin" => BeginRecords(w))
    BY <1>6
    DEF Work, FindDomain, BeginRecords, DeletedAll, EndOwner, EndOfRecords, InsertDomain,
        DeleteNextItem, SelectOwned, AtRecord, StartDelete, Deletes, DeleteRow, UpdateOwner,
        CreateRecord, ReplaceInsert, ReadSoa, SaveSoa, SoaVanished, InsertSoa,
        InsertNothing, Running, Edits, Cmd
  <2>2. loc'[w].db = loc[w].db BY <1>6, WorkStays
  <2>3. BeginRecords(w) => zones[loc[w].db][req[w].domain] # "absent"
    BY DEF BeginRecords, MayBegin
  <2> QED BY <1>1, <1>6, <2>1, <2>2, <2>3
<1> QED BY <1>2, <1>3, <1>4, <1>5, <1>6, StepKinds

LEMMA ZonesStep == ASSUME IInv, ZonesThere, [Next]_vars PROVE ZonesThere'
<1>1. TypeOK /\ TypeOK' BY TypeStep DEF IInv
<1>2. ASSUME NEW d \in Orm, NEW y \in rows'[d] PROVE zones'[d][y.domain] # "absent"
  <2>1. y.domain \in DomainName BY <1>1 DEF TypeOK, Row
  <2>2. zones[d][y.domain] # "absent" BY RowsChangeByCommit, CommitInZones DEF ZonesThere
  <2> QED BY <2>1, <2>2, ZonesStay
<1>3. ASSUME NEW w \in Handler, Running(w)', pc'[w] # "begin", Edits(w)'
      PROVE  zones'[loc'[w].db][req'[w].domain] # "absent"
  <2>1. loc'[w].db \in Orm BY <1>3, ControlStep DEF Control, Placed
  <2>2. req'[w].domain \in DomainName BY <1>1, RequestTyped DEF TypeOK, RequestType
  <2> QED BY <1>3, <2>1, <2>2, EditsInZone, ZonesStay
<1> QED BY <1>2, <1>3 DEF ZonesThere

-----------------------------------------------------------------------------
(* The types of what is read.                                              *)

LEMMA FoundTyped ==
  ASSUME TypeOK, NEW q \in QueryType, NEW d \in Orm, NEW known
  PROVE  Found(q, d, known) \subseteq Shown
<1>1. ASSUME NEW S \in SUBSET Row PROVE Items(q, S) \subseteq Shown
  <2> SUFFICES ASSUME NEW x \in Row PROVE Item(q, x) \in Shown BY DEF Items
  <2>1. /\ x.domain \in DomainName /\ x.name \in Label /\ x.type \in Type
        /\ x.content \in Seq(Field) /\ x.prio \in Field
    BY DEF Row, Field
  <2>2. <<x.prio>> \in Seq(Field) BY <2>1
  <2>3. <<x.prio>> \o x.content \in Seq(Field) BY <2>1, <2>2
  <2> QED BY <2>1, <2>3 DEF Item, Shown
<1>2. rows[d] \subseteq Row BY DEF TypeOK
<1>3. q.cmd \in {"list_domains", "list_records", "list_own", "search_record"}
  BY DEF QueryType
<1>4. \A S : S \subseteq rows[d] => Items(q, S) \subseteq Shown BY <1>1, <1>2
<1>5. {n \in DomainName : zones[d][n] # "absent"} \subseteq Shown BY DEF Shown
<1> QED BY <1>3, <1>4, <1>5 DEF Found

LEMMA OrmNat == ASSUME NEW d \in Orm PROVE d \in Nat /\ d > 0
<1>1. DbView \in Seq(View) BY OrmAssumption
<1> QED BY <1>1 DEF Orm

\* A reader that leaves, and one that goes on to the next database.
LEMMA LeaveTyped ==
  ASSUME ReadTypeOK, NEW r \in Reader, NEW where \in {"done", "lost"},
         NEW reported \in {"SUCCESS", "ERROR"}, Leave(r, where, reported)
  PROVE  ReadTypeOK'
<1>1. Nowhere \in [db : Nat, aborted : BOOLEAN, found : BOOLEAN] BY DEF Nowhere
<1>2. NoAnswer \in [Orm -> SUBSET Shown] BY DEF NoAnswer
<1> QED BY <1>1, <1>2 DEF Leave, ReadTypeOK

LEMMA ReadNextTyped ==
  ASSUME ReadTypeOK, NEW r \in Reader, NEW after, ReadNext(r, after) PROVE ReadTypeOK'
<1>1. CASE Leave(r, "done", "SUCCESS") BY <1>1, LeaveTyped
<1>2. ASSUME NEW d \in Orm, at' = [at EXCEPT ![r] = [Nowhere EXCEPT !.db = d]],
             rpc' = [rpc EXCEPT ![r] = IF query[r].cmd = "list_records" THEN "zone" ELSE "rows"],
             UNCHANGED <<query, answer, status>>
      PROVE  ReadTypeOK'
  <2>1. [Nowhere EXCEPT !.db = d] \in [db : Nat, aborted : BOOLEAN, found : BOOLEAN]
    BY OrmNat DEF Nowhere
  <2> QED BY <1>2, <2>1 DEF ReadTypeOK
<1> QED BY <1>1, <1>2 DEF ReadNext

LEMMA ReadTyped ==
  ASSUME IInv, ReadTypeOK, NEW r \in Reader, Reads(r) => at[r].db \in Orm,
         Read(r) \/ StatementFails(r)
  PROVE  ReadTypeOK'
<1>1. CASE StartRead(r) \/ ReadCommit(r)
  BY <1>1, ReadNextTyped DEF StartRead, ReadCommit
<1>2. CASE ReadFails(r) BY <1>2, LeaveTyped DEF ReadFails
<1>3. CASE FindZone(r) BY <1>3 DEF FindZone, ReadTypeOK
<1>4. CASE StatementFails(r) BY <1>4 DEF StatementFails, ReadTypeOK
<1>5. CASE ReadRows(r)
  <2>1. at[r].db \in Orm BY <1>5 DEF ReadRows, Reads
  <2>2. query[r] \in QueryType BY QueryAssumption DEF ReadTypeOK
  <2>3. Found(query[r], at[r].db, at[r].found) \in SUBSET Shown
    BY <2>1, <2>2, FoundTyped DEF IInv
  <2> DEFINE read == IF at[r].aborted THEN {} ELSE Found(query[r], at[r].db, at[r].found)
  <2>4. read \in SUBSET Shown BY <2>3
  <2>5. answer' = [answer EXCEPT ![r][at[r].db] = read] BY <1>5 DEF ReadRows
  <2> HIDE DEF read
  <2>6. answer' \in [Reader -> [Orm -> SUBSET Shown]] BY <2>1, <2>4, <2>5 DEF ReadTypeOK
  <2> QED BY <1>5, <2>6 DEF ReadRows, ReadTypeOK
<1> QED BY <1>1, <1>2, <1>3, <1>4, <1>5 DEF Read

-----------------------------------------------------------------------------
(* What has been read so far is whole and true.                            *)

\* The history of a reader that reads on: what always holds only shrinks, to
\* what holds now, and what has held only grows, by what holds now.
LEMMA Watched ==
  ASSUME Watch, NEW r \in Reader, Reads(r)', NEW d \in Orm
  PROVE  /\ Found(query[r], d, TRUE)' \subseteq ever'[r][d]
         /\ always'[r][d] \subseteq Found(query[r], d, TRUE)'
         /\ ever[r][d] \subseteq ever'[r][d]
         /\ Reads(r) => always'[r][d] \subseteq always[r][d]
BY DEF Watch

\* Found in a step that writes nothing.
LEMMA FoundSame ==
  ASSUME UNCHANGED <<zones, rows, query>>, NEW r, NEW d, NEW known
  PROVE  Found(query[r], d, known)' = Found(query[r], d, known)
BY DEF Found, Items, Item

\* The look-up of the zone matters to list_records alone.
LEMMA FoundKnown ==
  ASSUME NEW q \in QueryType, NEW d, NEW known \in BOOLEAN, known \/ q.cmd # "list_records"
  PROVE  Found(q, d, known) = Found(q, d, TRUE)
<1>1. CASE known = TRUE BY <1>1
<1>2. CASE q.cmd = "list_domains" BY <1>2 DEF Found
<1>3. CASE q.cmd = "search_record" BY <1>3 DEF Found
<1>4. CASE q.cmd = "list_own" BY <1>4 DEF Found
<1> QED BY <1>1, <1>2, <1>3, <1>4 DEF QueryType

LEMMA FoundUnknown ==
  ASSUME NEW q, NEW d, q.cmd = "list_records" PROVE Found(q, d, FALSE) = {}
BY DEF Found, Items

\* What is true of a reader stays so while it does nothing.
LEMMA WaitingReader ==
  ASSUME NEW r \in Reader, Reads(r), ReadSoFar(r), Watch, query' = query,
         rpc'[r] = rpc[r], at'[r] = at[r], answer'[r] = answer[r]
  PROVE  ReadSoFar(r)'
<1>1. Reads(r)' BY DEF Reads
<1>2. \A d \in Orm : True(r, d) => True(r, d)' BY <1>1, Watched DEF True
<1>3. \A d \in Orm : Asked(r, d)' = Asked(r, d) BY DEF Asked
<1>4. always'[r][at[r].db] \subseteq always[r][at[r].db] BY <1>1, Watched DEF ReadSoFar
<1> QED BY <1>2, <1>3, <1>4 DEF ReadSoFar

\* On to the next database, which is the next to be asked.
LEMMA NextReader ==
  ASSUME ReadTypeOK, NEW r \in Reader, Watch, NEW after, ReadNext(r, after), Reads(r)',
         \/ after = 0 /\ ~Reads(r)
         \/ Reads(r) /\ ReadSoFar(r) /\ after = at[r].db /\ rpc[r] = "commit" /\ ~at[r].aborted
  PROVE  ReadSoFar(r)'
<1> DEFINE left == {d \in Orm : d > after /\ query[r].view \in {"*", DbView[d]}}
<1>1. ~Leave(r, "done", "SUCCESS") BY DEF Leave, Reads, ReadTypeOK
<1>2. PICK d \in left :
        /\ \A e \in left : d <= e
        /\ rpc' = [rpc EXCEPT ![r] = IF query[r].cmd = "list_records" THEN "zone" ELSE "rows"]
        /\ at' = [at EXCEPT ![r] = [Nowhere EXCEPT !.db = d]]
        /\ UNCHANGED <<query, answer, status>>
  BY <1>1 DEF ReadNext
<1>3. /\ at'[r].db = d /\ d \in Orm
      /\ rpc'[r] = IF query[r].cmd = "list_records" THEN "zone" ELSE "rows"
  BY <1>2 DEF ReadTypeOK, Nowhere
<1>4. \A e \in Orm : Asked(r, e) /\ e > after => d <= e BY <1>2 DEF Asked
<1>5. ASSUME NEW e \in Orm, Asked(r, e)', ~(d < e), d # e PROVE True(r, e)'
  <2>1. Asked(r, e) BY <1>2, <1>5 DEF Asked
  <2>2. e <= after /\ e > 0
    <3>1. e \in Nat /\ d \in Nat /\ e > 0 BY <1>2, OrmNat
    <3>2. ~(e > after) BY <1>4, <1>5, <2>1, <3>1
    <3>3. after \in Nat BY DEF ReadTypeOK
    <3> QED BY <3>1, <3>2, <3>3
  <2>3. Reads(r) /\ ReadSoFar(r) /\ after = at[r].db /\ rpc[r] = "commit" /\ ~at[r].aborted
    BY <2>2, OrmNat
  <2>4. True(r, e) BY <2>1, <2>2, <2>3, OrmNat DEF ReadSoFar
  <2> QED BY <1>2, <2>3, <2>4, Watched DEF True
<1> QED BY <1>2, <1>3, <1>5 DEF ReadSoFar

\* A zone that is not found has had no rows since, for then it was not there.
LEMMA FindingReader ==
  ASSUME ReadTypeOK, ZonesThere, NEW r \in Reader, Watch, Reads(r), ReadSoFar(r), FindZone(r),
         UNCHANGED vars
  PROVE  ReadSoFar(r)'
<1>1. /\ rpc[r] = "zone" /\ rpc'[r] = "rows" /\ Reads(r)'
      /\ at'[r].db = at[r].db /\ at'[r].aborted = at[r].aborted
      /\ at'[r].found = (~at[r].aborted /\ zones[at[r].db][query[r].domain] # "absent")
      /\ UNCHANGED <<query, answer, status, zones, rows>>
  BY DEF FindZone, ReadTypeOK, Reads, vars, database
<1>2. at[r].db \in Orm BY DEF ReadSoFar
<1>3. \A d \in Orm : True(r, d) => True(r, d)' BY <1>1, Watched DEF True
<1>4. \A d \in Orm : Asked(r, d)' = Asked(r, d) BY <1>1 DEF Asked
<1>5. ASSUME ~at'[r].aborted, ~at'[r].found, query[r].cmd = "list_records"
      PROVE  always'[r][at[r].db] = {}
  <2>1. zones[at[r].db][query[r].domain] = "absent" BY <1>1, <1>5
  <2>2. {x \in rows[at[r].db] : TRUE /\ x.domain = query[r].domain} = {}
    BY <1>2, <2>1 DEF ZonesThere
  <2>3. Found(query[r], at[r].db, TRUE) = {} BY <1>5, <2>2 DEF Found, Items
  <2> QED BY <1>1, <1>2, <2>3, Watched, FoundSame
<1> QED BY <1>1, <1>2, <1>3, <1>4, <1>5 DEF ReadSoFar

\* The rows, as they are now.
LEMMA ReadingReader ==
  ASSUME ReadTypeOK, NEW r \in Reader, Watch, Reads(r), ReadSoFar(r), ReadRows(r),
         UNCHANGED vars
  PROVE  ReadSoFar(r)'
<1> DEFINE e == at[r].db
<1>1. /\ rpc[r] = "rows" /\ rpc'[r] = "commit" /\ Reads(r)' /\ at' = at
      /\ UNCHANGED <<query, zones, rows>>
  BY DEF ReadRows, ReadTypeOK, Reads, vars, database
<1>2. e \in Orm BY DEF ReadSoFar
<1>3. /\ \A d \in Orm \ {e} : answer'[r][d] = answer[r][d]
      /\ ~at[r].aborted => answer'[r][e] = Found(query[r], e, at[r].found)
  BY <1>2 DEF ReadRows, ReadTypeOK
<1>4. \A d \in Orm \ {e} : True(r, d) => True(r, d)' BY <1>1, <1>3, Watched DEF True
<1>5. \A d \in Orm : Asked(r, d)' = Asked(r, d) BY <1>1 DEF Asked
<1>6. query[r] \in QueryType /\ at[r].found \in BOOLEAN
  BY QueryAssumption DEF ReadTypeOK
<1>7. ASSUME ~at[r].aborted PROVE True(r, e)'
  <2>1. /\ Found(query[r], e, TRUE) \subseteq ever'[r][e]
        /\ always'[r][e] \subseteq Found(query[r], e, TRUE)
        /\ always'[r][e] \subseteq always[r][e]
    BY <1>1, <1>2, Watched, FoundSame
  <2>2. CASE at[r].found \/ query[r].cmd # "list_records"
    <3>1. Found(query[r], e, at[r].found) = Found(query[r], e, TRUE)
      BY <1>6, <2>2, FoundKnown
    <3> QED BY <1>1, <1>3, <1>7, <2>1, <3>1 DEF True
  <2>3. CASE ~at[r].found /\ query[r].cmd = "list_records"
    <3>1. always[r][e] = {} BY <1>1, <1>7, <2>3 DEF ReadSoFar
    <3>2. Found(query[r], e, at[r].found) = {} BY <1>6, <2>3, FoundUnknown
    <3> QED BY <1>1, <1>3, <1>7, <2>1, <3>1, <3>2 DEF True
  <2> QED BY <2>2, <2>3
<1> QED BY <1>1, <1>2, <1>4, <1>5, <1>7 DEF ReadSoFar

\* An error: what the database is asked no longer counts.
LEMMA FailingReader ==
  ASSUME ReadTypeOK, NEW r \in Reader, Watch, ReadSoFar(r), StatementFails(r)
  PROVE  ReadSoFar(r)'
<1>1. /\ Reads(r) /\ Reads(r)' /\ at'[r].db = at[r].db /\ at'[r].aborted
      /\ UNCHANGED <<query, rpc, answer>>
  BY DEF StatementFails, ReadTypeOK, Reads
<1>2. \A d \in Orm : True(r, d) => True(r, d)' BY <1>1, Watched DEF True
<1>3. \A d \in Orm : Asked(r, d)' = Asked(r, d) BY <1>1 DEF Asked
<1> QED BY <1>1, <1>2, <1>3 DEF ReadSoFar

-----------------------------------------------------------------------------
(* The invariant of the readers.                                           *)

\* The statements of one reader move no other.
LEMMA OneReads ==
  ASSUME ReadTypeOK, NEW u \in Reader, Read(u) \/ StatementFails(u), NEW r \in Reader \ {u}
  PROVE  rpc'[r] = rpc[r] /\ at'[r] = at[r] /\ answer'[r] = answer[r] /\ status'[r] = status[r]
BY DEF Read, StatementFails, StartRead, FindZone, ReadRows, ReadCommit, ReadFails, ReadNext,
       Leave, ReadTypeOK

LEMMA QueryKept == ASSUME [ReadNextState]_readVars PROVE query' = query
BY DEF ReadNextState, Handlers, ProcessDies, Read, StatementFails, StartRead, FindZone, ReadRows,
       ReadCommit, ReadFails, ReadNext, Leave, reading, readVars

LEMMA SoFarStep ==
  ASSUME IInv, ReadInv, [ReadNextState]_readVars, NEW r \in Reader, Reads(r)'
  PROVE  ReadSoFar(r)'
<1>1. ReadTypeOK /\ ZonesThere /\ query' = query BY QueryKept DEF ReadInv
<1>2. Reads(r) => ReadSoFar(r) BY DEF ReadInv
<1>3. CASE UNCHANGED readVars
  <2>1. ReadSoFar(r) /\ UNCHANGED <<query, rpc, at, answer, always, ever>>
    BY <1>2, <1>3 DEF readVars, reading, Reads
  <2> QED BY <2>1 DEF ReadSoFar, True, Asked
<1>4. ASSUME rpc'[r] = rpc[r], at'[r] = at[r], answer'[r] = answer[r], Watch
      PROVE  ReadSoFar(r)'
  <2>1. Reads(r) BY <1>4 DEF Reads
  <2> QED BY <1>1, <1>2, <1>4, <2>1, WaitingReader
<1>5. ~ProcessDies BY <1>1 DEF ProcessDies, Reads, ReadTypeOK
<1>6. CASE Handlers /\ Watch BY <1>4, <1>6 DEF Handlers, reading
<1>7. ASSUME NEW u \in Reader \ {r}, Read(u) \/ StatementFails(u), Watch PROVE ReadSoFar(r)'
  BY <1>1, <1>4, <1>7, OneReads
<1>8. CASE Read(r) /\ UNCHANGED vars /\ Watch
  <2>1. CASE StartRead(r)
    <3>1. ReadNext(r, 0) /\ ~Reads(r) BY <2>1 DEF StartRead, Reads
    <3> QED BY <1>1, <1>8, <3>1, NextReader
  <2>2. CASE ReadCommit(r)
    <3>1. ReadNext(r, at[r].db) /\ rpc[r] = "commit" /\ ~at[r].aborted /\ Reads(r)
      BY <2>2 DEF ReadCommit, Reads
    <3> QED BY <1>1, <1>2, <1>8, <3>1, NextReader
  <2>3. CASE FindZone(r) BY <1>1, <1>2, <1>8, <2>3, FindingReader DEF FindZone, Reads
  <2>4. CASE ReadRows(r) BY <1>1, <1>2, <1>8, <2>4, ReadingReader DEF ReadRows, Reads
  <2>5. ~ReadFails(r) BY <1>1 DEF ReadFails, Leave, Reads, ReadTypeOK
  <2> QED BY <1>8, <2>1, <2>2, <2>3, <2>4, <2>5 DEF Read
<1>9. CASE StatementFails(r) /\ Watch
  BY <1>1, <1>2, <1>9, FailingReader DEF StatementFails
<1> QED BY <1>3, <1>5, <1>6, <1>7, <1>8, <1>9 DEF ReadNextState

LEMMA ReadTypedStep ==
  ASSUME IInv, ReadInv, [ReadNextState]_readVars PROVE ReadTypeOK'
<1>1. ReadTypeOK /\ \A r \in Reader : Reads(r) => at[r].db \in Orm
  BY DEF ReadInv, ReadSoFar
<1>2. CASE UNCHANGED reading BY <1>1, <1>2 DEF reading, ReadTypeOK
<1>3. CASE ProcessDies
  <2>1. Nowhere \in [db : Nat, aborted : BOOLEAN, found : BOOLEAN] BY DEF Nowhere
  <2>2. NoAnswer \in [Orm -> SUBSET Shown] BY DEF NoAnswer
  <2> QED BY <1>1, <1>3, <2>1, <2>2 DEF ProcessDies, ReadTypeOK
<1>4. ASSUME NEW r \in Reader, Read(r) \/ StatementFails(r) PROVE ReadTypeOK'
  BY <1>1, <1>4, ReadTyped
<1> QED BY <1>2, <1>3, <1>4 DEF ReadNextState, Handlers, readVars

LEMMA ReadStep ==
  ASSUME IInv, ReadInv, [ReadNextState]_readVars PROVE ReadInv'
<1>1. ZonesThere'
  <2>1. ZonesThere BY DEF ReadInv
  <2>2. CASE [Next]_vars BY <2>1, <2>2, ZonesStep
  <2>3. CASE Standstill
    BY <2>1, <2>3 DEF Standstill, database, ZonesThere, Running, Edits, Cmd
  <2> QED BY <2>2, <2>3, HandlersStep
<1> QED BY <1>1, ReadTypedStep, SoFarStep DEF ReadInv

LEMMA ReadingInit == ReadInit => IInv /\ KInv /\ ReadInv
<1> SUFFICES ASSUME ReadInit PROVE IInv /\ KInv /\ ReadInv OBVIOUS
<1>1. IInv /\ KInv /\ Init BY InitIInv, KeptInit DEF ReadInit
<1>2. ReadTypeOK
  <2>1. Nowhere \in [db : Nat, aborted : BOOLEAN, found : BOOLEAN] BY DEF Nowhere
  <2>2. NoAnswer \in [Orm -> SUBSET Shown] BY DEF NoAnswer
  <2> QED BY <2>1, <2>2 DEF ReadInit, ReadTypeOK
<1>3. ZonesThere
  <2>1. \A w \in Handler : ~Running(w) BY <1>1 DEF Init, Running
  <2>2. PICK s \in InitialStore : zones = s.zones /\ rows = s.rows BY <1>1 DEF Init
  <2>3. IsStore(s) BY StoreAssumption
  <2> QED BY <2>1, <2>2, <2>3 DEF ZonesThere, IsStore
<1>4. \A r \in Reader : ~Reads(r) BY DEF ReadInit, Reads
<1> QED BY <1>1, <1>2, <1>3, <1>4 DEF ReadInv

\* The zones of the rows and of the edits are there, and what a reader has
\* read of a database is whole and true (orm.go:513), however many handlers
\* write meanwhile and whichever statements fail.
THEOREM ReadInvariance == ReadSpec => []ReadInv
<1>1. IInv /\ KInv /\ ReadInv /\ [ReadNextState]_readVars => (IInv /\ KInv /\ ReadInv)'
  BY HandlersKeep, ReadStep
<1> QED BY <1>1, ReadingInit, PTL DEF ReadSpec

\* A reply of SUCCESS is sent when no database of the view is left, and all
\* those before have been read without an error.
LEMMA SuccessIsTrue ==
  ASSUME IInv, ReadInv, [ReadNextState]_readVars, NEW r \in Reader,
         status[r] = "none", status'[r] = "SUCCESS", NEW d \in Orm, Asked(r, d)
  PROVE  True(r, d)
<1>1. ReadTypeOK BY DEF ReadInv
<1>2. ~ProcessDies /\ ~Handlers /\ ~UNCHANGED readVars
  BY DEF ProcessDies, Handlers, reading, readVars
<1>3. \A u \in Reader \ {r} : ~Read(u) /\ ~StatementFails(u) BY <1>1, OneReads
<1>4. Read(r) BY <1>2, <1>3 DEF ReadNextState, StatementFails
<1>5. ASSUME NEW after, ReadNext(r, after) PROVE ~(d > after)
  <2>1. {e \in Orm : e > after /\ query[r].view \in {"*", DbView[e]}} = {}
    BY <1>1, <1>5 DEF ReadNext
  <2> QED BY <2>1 DEF Asked
<1>6. ~StartRead(r) BY <1>5, OrmNat DEF StartRead
<1>7. ~FindZone(r) /\ ~ReadRows(r) /\ ~ReadFails(r)
  BY <1>1 DEF FindZone, ReadRows, ReadFails, Leave, ReadTypeOK
<1>8. ReadCommit(r) BY <1>4, <1>6, <1>7 DEF Read
<1>9. rpc[r] = "commit" /\ ~at[r].aborted /\ ~(d > at[r].db) /\ ReadSoFar(r)
  BY <1>5, <1>8 DEF ReadCommit, ReadInv, Reads
<1> QED BY <1>1, <1>9, OrmNat DEF ReadSoFar

\* The replies of the reading commands (orm.go:513-541): every reply of
\* SUCCESS shows of every database of the view all that it has held since the
\* request was taken, and nothing that it has not held since.
THEOREM RepliesTrue == ReadSpec => ReadsTrue
<1>1. IInv /\ ReadInv /\ [ReadNextState]_readVars =>
        [\A r \in Reader : status[r] = "none" /\ status'[r] = "SUCCESS" =>
           \A d \in Orm : query[r].view \in {"*", DbView[d]} =>
             always[r][d] \subseteq answer[r][d] /\ answer[r][d] \subseteq ever[r][d]]_readVars
  BY SuccessIsTrue DEF Asked, True
<1> QED BY <1>1, HandlersBesideReaders, ReadInvariance, PTL DEF ReadSpec, ReadsTrue

\* The promise to the tenants, with readers beside the handlers and deaths of a
\* process that only reads.
THEOREM TenantsBesideReaders == ReadSpec => TenantSpec
<1>1. ReadInit => Tenants!TZInit
  <2> SUFFICES ASSUME ReadInit PROVE Tenants!TZInit OBVIOUS
  <2>1. RowIdentity BY ReadingInit DEF IInv
  <2>2. \A w \in Handler : HandedOver(w) = {}
    BY DEF ReadInit, Init, HandedOver, NoTx, NoLoc, LocAt
  <2>3. Wished = {} BY <2>2 DEF Wished, Wishes
  <2> QED BY <2>1, <2>3 DEF RowIdentity, Tenants!TZInit
<1>2. IInv /\ [ReadNextState]_readVars => [Tenants!TZNext]_(Tenants!tzVars)
  <2>1. ASSUME Standstill PROVE UNCHANGED Tenants!tzVars
    <3>1. UNCHANGED <<zones, rows, tx, req, pc, loc>> BY <2>1 DEF Standstill, database
    <3>2. Wished' = Wished BY <3>1 DEF Wished, Wishes, HandedOver, Cmd
    <3> QED BY <3>1, <3>2 DEF Tenants!tzVars
  <2> QED BY <2>1, HandlersStep, StepRefines
<1> QED BY <1>1, <1>2, HandlersBesideReaders, PTL DEF ReadSpec, TenantSpec, Tenants!TZSpec

\* And a zone's SOA survives them (orm.go:475-511).
THEOREM SoasBesideReaders == ReadSpec => SoaSurvives
<1>1. IInv /\ KInv /\ [ReadNextState]_readVars => (IInv /\ KInv)' BY HandlersKeep
<1>2. IInv /\ KInv /\ [ReadNextState]_readVars =>
        [\A d \in Orm, n \in DomainName : ZoneSoas(d, n) # {} => ZoneSoas(d, n)' # {}]_vars
  <2> SUFFICES ASSUME IInv, KInv, [ReadNextState]_readVars, NEW d \in Orm,
                      NEW n \in DomainName, ZoneSoas(d, n) # {}
               PROVE  ZoneSoas(d, n)' # {}
    OBVIOUS
  <2>1. Standstill => ZoneSoas(d, n)' = ZoneSoas(d, n) BY DEF Standstill, database, ZoneSoas
  <2> QED BY <2>1, HandlersStep, SoaStep
<1> QED BY <1>1, <1>2, ReadingInit, PTL DEF ReadSpec, SoaSurvives
=============================================================================
