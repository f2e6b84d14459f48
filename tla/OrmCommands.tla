---------------------------- MODULE OrmCommands ----------------------------
(***************************************************************************)
(* The writing commands of wunderdns/orm.go: create_domain, create_record, *)
(* delete_record, replace_record and replace_owner, as the goroutines that *)
(* queue.go starts (one per AMQP message) run them against the configured  *)
(* PowerDNS databases.                                                     *)
(*                                                                         *)
(* A request is applied to the matching databases one after another, each  *)
(* in a transaction of its own.  The transactions are PostgreSQL's at its  *)
(* default level READ COMMITTED, which the code never changes: a statement *)
(* sees what was committed when it began plus the transaction's own        *)
(* writes; UPDATE and DELETE lock the rows they change until the           *)
(* transaction ends, wait for a row another transaction has locked, and    *)
(* then judge the row's newest version.  An action below is one SQL        *)
(* statement (for UPDATE and DELETE: one row of it), together with the Go  *)
(* code up to the next statement; only the look-up and the INSERTs of one  *)
(* record are one action, since rows with new ids are nobody else's to     *)
(* see or to wait for before the COMMIT.                                   *)
(*                                                                         *)
(* Requests have passed securityProcessRequest and checkRFCRequest.        *)
(***************************************************************************)
EXTENDS SoaSerial, Sequences, FiniteSets

CONSTANTS
  Handler,      \* the goroutines: one per message, each handles one request
  DbView,       \* the [psql.*] sections in order: the view each one serves
  DomainName,   \* names of zones
  Label,        \* record names below a zone; "" is its apex
  Type,         \* record types, as they are spelt in a request or a row
  Target,       \* what records point to: the fields that are not numbers
  Token,        \* the tokens of the auth database
  UnknownToken, \* a token name that is empty or not in the auth database
  NoOwner,      \* the owner of a row of "records" that is not in "records_api"
  Request,      \* the requests that clients may send
  InitialStore, \* the contents the databases may start with
  FirstDay,     \* the day the behaviour starts on
  MaxDay,       \* bound: the last day
  MaxInFlight,  \* bound: how many requests are handled at the same time
  MaxFaults     \* bound: crashes and lost connections

Orm     == 1 .. Len(DbView)
View    == {"public", "private", "*"}
Command == {"create_domain", "create_record", "delete_record",
            "replace_record", "replace_owner"}
Field   == Nat \cup Target

(***************************************************************************)
(* A data string is the sequence of its blank-separated fields: <<h>> for  *)
(* an address, <<prio, h>> for MX, <<prio, weight, port, h>> for SRV.  Of  *)
(* the seven fields of an SOA only the serial matters: <<serial>>.         *)
(***************************************************************************)
Record == [name : Label, type : Type, data : Seq(Seq(Field)), ttl : Nat]

RequestType ==
  [cmd : Command, token : Token, view : View, domain : DomainName,
   recs : Seq(Record), newToken : Token \cup {UnknownToken}]

(***************************************************************************)
(* A row of "records".  Its child table "records_api" adds the owner, so a *)
(* row is in "records_api" iff its owner is a token.                       *)
(***************************************************************************)
Row == [id : Nat, domain : DomainName, name : Label, type : Type,
        content : Seq(Field), ttl : Nat, prio : Nat,
        owner : Token \cup {NoOwner}]

(***************************************************************************)
(* What the checkers of dns.go leave of a create, replace or delete.       *)
(***************************************************************************)
RfcChecked(r) ==
  /\ r.type \in {"CNAME", "PTR", "SOA"} => Len(r.data) = 1
  /\ r.type \in {"A", "AAAA", "TXT", "SRV", "MX", "NS"} => r.data # <<>>
  /\ r.type = "CNAME" => r.name # ""
  /\ r.type = "SOA" => r.name = "" /\ r.data[1][1] \in Nat
  /\ r.type = "MX"  => \A i \in DOMAIN r.data : Len(r.data[i]) = 2 /\ r.data[i][1] \in Nat
  /\ r.type = "SRV" => \A i \in DOMAIN r.data : Len(r.data[i]) = 4 /\ r.data[i][1] \in Nat

ASSUME OrmAssumption ==
  /\ DbView \in Seq(View)
  /\ NoOwner \notin Token /\ UnknownToken \notin Token
  /\ "" \in Label
  /\ Request \subseteq RequestType
  /\ \A q \in Request : q.cmd # "replace_owner" =>
       \A i \in DOMAIN q.recs : RfcChecked(q.recs[i])
  /\ FirstDay \in Nat /\ MaxDay \in Nat

(***************************************************************************)
(* A store is the content of every database: the kind of each zone that    *)
(* its domains table holds, and its rows, whose ids are serial numbers and *)
(* whose domain_id is a foreign key.                                       *)
(***************************************************************************)
ZoneKind == {"absent", "NATIVE", "MASTER"}
Store == [zones : [Orm -> [DomainName -> ZoneKind]], rows : [Orm -> SUBSET Row],
          nextId : [Orm -> Nat]]

IsStore(s) ==
  /\ s \in Store
  /\ \A d \in Orm : /\ \A r \in s.rows[d] : r.id < s.nextId[d]
                    /\ \A r1, r2 \in s.rows[d] : r1.id = r2.id => r1 = r2
                    /\ \A r \in s.rows[d] : s.zones[d][r.domain] # "absent"

ASSUME StoreAssumption == \A s \in InitialStore : IsStore(s)

VARIABLES
  today,    \* the current day
  zones,    \* zones[d]: the committed domains table of database d
  rows,     \* rows[d]: the committed rows of "records" and "records_api"
  nextId,   \* nextId[d]: the id sequence; it never rolls back
  tx,       \* tx[w]: the open transaction of handler w
  req,      \* req[w]: the request whose message w is started for
  recs,     \* recs[w]: its records, which the handler itself modifies
  pc,       \* pc[w]: the statement w executes next
  loc,      \* loc[w]: w's local variables
  reply,    \* reply[w]: the status of the reply w published
  faults    \* how many faults have happened

database == <<zones, rows, nextId>>
vars == <<today, database, tx, req, recs, pc, loc, reply, faults>>

Pc == {"idle", "begin", "zone", "records", "delete", "owner", "soa", "save",
       "insert", "commit", "done", "lost"}

(***************************************************************************)
(* A transaction: the ids of the rows it changed, deleted or inserted, the *)
(* versions it left of them, and the zones it inserted.                     *)
(***************************************************************************)
Tx == [locked : SUBSET Nat, writes : SUBSET Row, made : SUBSET DomainName]

(***************************************************************************)
(* Local variables: the database, the record and the data item a handler   *)
(* is at, the code's n, the rows the current statement has affected, the   *)
(* rows it still has to visit, and the SOA row ormUpdateSOA holds (a set   *)
(* of at most one).                                                        *)
(***************************************************************************)
Loc == [db : Nat, ri : Nat, di : Nat, n : Nat, aff : Nat,
        cand : SUBSET Row, soa : SUBSET Row]

NoTx  == [locked |-> {}, writes |-> {}, made |-> {}]
LocAt(d, record, count) ==
  [db |-> d, ri |-> record, di |-> 1, n |-> count, aff |-> 0, cand |-> {}, soa |-> {}]
NoLoc == LocAt(0, 1, 0)

TypeOK ==
  /\ today \in Nat
  /\ zones \in [Orm -> [DomainName -> ZoneKind]]
  /\ rows \in [Orm -> SUBSET Row]
  /\ nextId \in [Orm -> Nat]
  /\ tx \in [Handler -> Tx]
  /\ req \in [Handler -> Request]
  /\ recs \in [Handler -> Seq(Record)]
  /\ pc \in [Handler -> Pc]
  /\ loc \in [Handler -> Loc]
  /\ reply \in [Handler -> {"none", "SUCCESS", "ERROR"}]
  /\ faults \in Nat

Init ==
  /\ today = FirstDay
  /\ \E s \in InitialStore : zones = s.zones /\ rows = s.rows /\ nextId = s.nextId
  /\ tx = [w \in Handler |-> NoTx]
  /\ req \in [Handler -> Request]
  /\ recs = [w \in Handler |-> req[w].recs]
  /\ pc = [w \in Handler |-> "idle"]
  /\ loc = [w \in Handler |-> NoLoc]
  /\ reply = [w \in Handler |-> "none"]
  /\ faults = 0

-----------------------------------------------------------------------------
(* What a handler sees and where it is.                                    *)

Running(w)  == pc[w] \notin {"idle", "done", "lost"}
InFlight    == {w \in Handler : Running(w)}
Cmd(w)      == req[w].cmd
Rec(w)      == recs[w][loc[w].ri]
Matches(w, d) == req[w].view \in {"*", DbView[d]}

\* READ COMMITTED: the committed rows, with this transaction's versions.
ViewOf(w) ==
  {x \in rows[loc[w].db] : x.id \notin tx[w].locked} \cup tx[w].writes

LockedByOther(w, id) ==
  \E v \in Handler \ {w} : loc[v].db = loc[w].db /\ id \in tx[v].locked

\* name.domain, or the domain itself
FullName(name) == IF name \in {"@", "."} THEN "" ELSE name

\* strings.ToUpper of a row's type, which may be spelt in upper, in lower or,
\* as "Cname" here, in mixed case.
Upper(type) == CASE type \in {"cname", "Cname"} -> "CNAME"
                 [] type \in {"soa", "Soa"}     -> "SOA"
                 [] type \in {"ptr", "Ptr"}     -> "PTR"
                 [] OTHER                       -> type

\* The column prio of an MX or SRV string, and what remains as its content.
HasPrio(type)    == type \in {"MX", "SRV"}
Prio(type, d)    == IF HasPrio(type) /\ d # <<>> THEN Atoi(d[1]) ELSE 0
Content(type, d) == IF HasPrio(type) /\ d # <<>> THEN Tail(d) ELSE d

\* Variant of Owned: the owner is not in the WHERE.
OwnedByAnyone(w, x) ==
  x.domain = req[w].domain /\ x.type = Rec(w).type /\ x.name = FullName(Rec(w).name)

\* domain_id = ? and type = ? and name = ? and owner = ?
Owned(w, x) ==
  /\ x.domain = req[w].domain
  /\ x.type = Rec(w).type
  /\ x.name = FullName(Rec(w).name)
  /\ x.owner = req[w].token

\* The DELETE for one data item: gorm leaves zero fields out of the WHERE.
OwnedItem(w, x) ==
  LET r == Rec(w)
      c == Content(r.type, r.data[loc[w].di])
      p == Prio(r.type, r.data[loc[w].di])
  IN  /\ Owned(w, x)
      /\ c # <<>>    => x.content = c
      /\ r.ttl # 0   => x.ttl = r.ttl
      /\ p # 0       => x.prio = p

ByItem(w) == Cmd(w) = "delete_record" /\ Rec(w).data # <<>>
Matched(w, x) == IF ByItem(w) THEN OwnedItem(w, x) ELSE Owned(w, x)

\* The rows that create and replace insert for a record, in order.
NewRow(w, i) ==
  [id |-> nextId[loc[w].db] + i - 1, domain |-> req[w].domain,
   name |-> FullName(Rec(w).name), type |-> Rec(w).type,
   content |-> Content(Rec(w).type, Rec(w).data[i]), ttl |-> Rec(w).ttl,
   prio |-> Prio(Rec(w).type, Rec(w).data[i]), owner |-> req[w].token]
NewRows(w) == {NewRow(w, i) : i \in DOMAIN Rec(w).data}

-----------------------------------------------------------------------------
(* Steps that actions share.                                               *)

Goto(w, p, l) == pc' = [pc EXCEPT ![w] = p] /\ loc' = [loc EXCEPT ![w] = l]

Finish(w, status) ==
  /\ Goto(w, "done", NoLoc)
  /\ reply' = [reply EXCEPT ![w] = status]

\* Variant of Fail: the transaction is not rolled back.
FailWithoutRollback(w) ==
  /\ Goto(w, "done", loc[w])
  /\ reply' = [reply EXCEPT ![w] = "ERROR"]
  /\ UNCHANGED <<today, database, tx, req, recs, faults>>

\* An error rolls the transaction back and skips the databases left.
Fail(w) ==
  /\ Finish(w, "ERROR")
  /\ tx' = [tx EXCEPT ![w] = NoTx]
  /\ UNCHANGED <<today, database, req, recs, faults>>

\* Variant of NextDatabase: only the first database of the view is served.
FirstDatabaseOnly(w, after) ==
  \/ after # 0 /\ Finish(w, "SUCCESS")
  \/ \E d \in Orm : /\ after = 0 /\ Matches(w, d) /\ \A e \in Orm : Matches(w, e) => d <= e
                   /\ Goto(w, "begin", LocAt(d, 1, 0))
                   /\ UNCHANGED reply

\* The loop of ormApplyCommand: on to the next database of the view.
NextDatabase(w, after) ==
  LET left == {d \in Orm : d > after /\ Matches(w, d)}
  IN  \/ left = {} /\ Finish(w, "SUCCESS")
      \/ \E d \in left : /\ \A e \in left : d <= e
                         /\ Goto(w, "begin", LocAt(d, 1, 0))
                         /\ UNCHANGED reply

\* The versions "gone" of rows leave w's view, and "new" enter it.
Write(w, gone, new) ==
  tx' = [tx EXCEPT ![w] =
          [locked  |-> tx[w].locked \cup {x.id : x \in gone \cup new},
           writes  |-> (tx[w].writes \ gone) \cup new,
           made    |-> tx[w].made]]

\* Variant of Insert: the id sequence stays where it is.
InsertUnderOldIds(w) ==
  /\ Write(w, {}, NewRows(w))
  /\ nextId' = nextId

Insert(w) ==
  /\ Write(w, {}, NewRows(w))
  /\ nextId' = [nextId EXCEPT ![loc[w].db] = @ + Len(Rec(w).data)]

\* A step that leaves everything but w's transaction and place alone.
OnlyTx  == UNCHANGED <<today, database, req, recs, reply, faults>>
OnlyLoc == UNCHANGED <<today, database, tx, req, recs, reply, faults>>
OnlyNew == UNCHANGED <<today, zones, rows, req, recs, reply, faults>>

-----------------------------------------------------------------------------
(* processMessage, from checkRFCRequest on.                                *)

\* An SOA must not be older than the day, and a missing ttl becomes 600.
DefaultTtl == 600
SerialsInTime(q) ==
  \A i \in DOMAIN q.recs :
    q.recs[i].type = "SOA" => q.recs[i].data[1][1] >= DateSerial(today)
WithTtl(q) ==
  IF q.cmd = "replace_owner" THEN q.recs
  ELSE [i \in DOMAIN q.recs |->
         [q.recs[i] EXCEPT !.ttl = IF @ = 0 THEN DefaultTtl ELSE @]]

Deliver(w) ==
  /\ pc[w] = "idle" /\ Cardinality(InFlight) < MaxInFlight
  /\ Cmd(w) # "replace_owner" => SerialsInTime(req[w])
  /\ recs' = [recs EXCEPT ![w] = WithTtl(req[w])]
  /\ NextDatabase(w, 0)
  /\ UNCHANGED <<today, database, tx, req, faults>>

RejectSerial(w) ==
  /\ pc[w] = "idle" /\ Cardinality(InFlight) < MaxInFlight
  /\ Cmd(w) # "replace_owner" /\ ~SerialsInTime(req[w])
  /\ Fail(w)

-----------------------------------------------------------------------------
(* create_domain.                                                          *)

FindDomain(w) ==
  /\ pc[w] = "begin" /\ Cmd(w) = "create_domain"
  /\ Goto(w, IF zones[loc[w].db][req[w].domain] = "NATIVE" THEN "commit" ELSE "zone",
          loc[w])
  /\ OnlyLoc

\* The unique index on domains.name: wait for a pending insert of the name.
ZonePending(w) ==
  \E v \in Handler \ {w} : loc[v].db = loc[w].db /\ req[w].domain \in tx[v].made

\* Variant of InsertDomain: the name need not be free.
InsertDomainAnyway(w) ==
  /\ pc[w] = "zone" /\ ~ZonePending(w)
  /\ tx' = [tx EXCEPT ![w].made = {req[w].domain}]
  /\ Goto(w, "commit", loc[w])
  /\ OnlyTx

\* Variant of InsertDomain: names are not indexed.
InsertDomainUnindexed(w) ==
  /\ pc[w] = "zone" /\ zones[loc[w].db][req[w].domain] = "absent"
  /\ tx' = [tx EXCEPT ![w].made = {req[w].domain}]
  /\ Goto(w, "commit", loc[w])
  /\ OnlyTx

InsertDomain(w) ==
  /\ pc[w] = "zone" /\ ~ZonePending(w)
  /\ zones[loc[w].db][req[w].domain] = "absent"
  /\ tx' = [tx EXCEPT ![w].made = {req[w].domain}]
  /\ Goto(w, "commit", loc[w])
  /\ OnlyTx

DomainConflict(w) ==
  /\ pc[w] = "zone" /\ ~ZonePending(w)
  /\ zones[loc[w].db][req[w].domain] # "absent"
  /\ Fail(w)

-----------------------------------------------------------------------------
(* The other commands look the domain up first, replace_owner after        *)
(* checkIfCanMigrate, and then go through the records.                     *)

\* Variant of MayBegin: the new token need not exist.
MayBeginForAnyone(w) == zones[loc[w].db][req[w].domain] # "absent"

MayBegin(w) ==
  /\ zones[loc[w].db][req[w].domain] # "absent"
  /\ Cmd(w) = "replace_owner" => req[w].newToken \in Token

BeginRecords(w) ==
  /\ pc[w] = "begin" /\ Cmd(w) # "create_domain" /\ MayBegin(w)
  /\ Goto(w, "records", loc[w])
  /\ OnlyLoc

CannotBegin(w) ==
  /\ pc[w] = "begin" /\ Cmd(w) # "create_domain" /\ ~MayBegin(w)
  /\ Fail(w)

AtRecord(w, cmds) ==
  pc[w] = "records" /\ loc[w].ri \in DOMAIN recs[w] /\ Cmd(w) \in cmds

NextRecord(w, affected) ==
  Goto(w, "records", LocAt(loc[w].db, loc[w].ri + 1, loc[w].n + affected))

EmptyData(w) ==
  /\ AtRecord(w, {"create_record", "replace_record"})
  /\ Rec(w).data = <<>>
  /\ Fail(w)

\* Variant of Conflict: only a record of the same type is in the way.
ConflictOfType(w) ==
  \E x \in ViewOf(w) :
    /\ x.domain = req[w].domain /\ x.name = FullName(Rec(w).name)
    /\ Upper(x.type) = Rec(w).type /\ Rec(w).type \in {"CNAME", "PTR", "SOA"}

\* The rows at the record's name, of "records" and so of "records_api" too.
Conflict(w) ==
  \E x \in ViewOf(w) :
    /\ x.domain = req[w].domain /\ x.name = FullName(Rec(w).name)
    /\ \/ Upper(x.type) = "CNAME" \/ Rec(w).type = "CNAME"
       \/ Upper(x.type) = Rec(w).type /\ Rec(w).type \in {"PTR", "SOA"}

CreateRecord(w) ==
  /\ AtRecord(w, {"create_record"})
  /\ Rec(w).data # <<>> /\ ~Conflict(w)
  /\ Insert(w)
  /\ NextRecord(w, Len(Rec(w).data))
  /\ OnlyNew

CreateConflict(w) ==
  /\ AtRecord(w, {"create_record"})
  /\ Rec(w).data # <<>> /\ Conflict(w)
  /\ Fail(w)

-----------------------------------------------------------------------------
(* The DELETE statements of delete_record and replace_record.  A statement *)
(* takes the matching rows when it begins, then locks and judges them one  *)
(* by one.                                                                 *)

\* strings.Split(r.Data[i], " ")[1] of an MX that has one field left
Panics(w) == /\ ByItem(w) /\ Rec(w).type = "MX"
             /\ Len(Rec(w).data[loc[w].di]) < 2

Deletes(w) ==
  /\ AtRecord(w, {"delete_record", "replace_record"})
  /\ Cmd(w) = "replace_record" => Rec(w).data # <<>>

StartDelete(w) ==
  /\ Deletes(w) /\ ~Panics(w)
  /\ Goto(w, "delete", [loc[w] EXCEPT !.cand = {x \in ViewOf(w) : Matched(w, x)}])
  /\ OnlyLoc

\* Variant of DeleteRow: the row is deleted as it was read before the wait.
DeleteRowAsRead(w) ==
  /\ pc[w] = "delete"
  /\ \E r \in loc[w].cand :
       /\ ~LockedByOther(w, r.id)
       /\ Write(w, {x \in ViewOf(w) : x.id = r.id}, {})
       /\ Goto(w, "delete", [loc[w] EXCEPT !.cand = @ \ {r}, !.aff = @ + 1])
  /\ OnlyTx

DeleteRow(w) ==
  /\ pc[w] = "delete"
  /\ \E r \in loc[w].cand :
       LET now == {x \in ViewOf(w) : x.id = r.id /\ Matched(w, x)}
       IN  /\ ~LockedByOther(w, r.id)
           /\ Write(w, now, {})
           /\ Goto(w, "delete", [loc[w] EXCEPT !.cand = @ \ {r},
                                               !.aff = @ + (IF now = {} THEN 0 ELSE 1)])
  /\ OnlyTx

\* r.Data[i] keeps what is left after the prio; r is the request's record.
StripItem(w) ==
  recs' = [recs EXCEPT ![w][loc[w].ri].data[loc[w].di] = Content(Rec(w).type, @)]

\* Variant of DeleteNextItem: the loop over the items runs one too far.
DeletePastLastItem(w) ==
  /\ pc[w] = "delete" /\ loc[w].cand = {} /\ ByItem(w)
  /\ StripItem(w)
  /\ IF loc[w].di <= Len(Rec(w).data)
     THEN Goto(w, "records", [loc[w] EXCEPT !.di = @ + 1])
     ELSE NextRecord(w, loc[w].aff)
  /\ UNCHANGED <<today, database, tx, req, reply, faults>>

DeleteNextItem(w) ==
  /\ pc[w] = "delete" /\ loc[w].cand = {} /\ ByItem(w)
  /\ StripItem(w)
  /\ IF loc[w].di < Len(Rec(w).data)
     THEN Goto(w, "records", [loc[w] EXCEPT !.di = @ + 1])
     ELSE NextRecord(w, loc[w].aff)
  /\ UNCHANGED <<today, database, tx, req, reply, faults>>

DeletedAll(w) ==
  /\ pc[w] = "delete" /\ loc[w].cand = {}
  /\ Cmd(w) = "delete_record" /\ Rec(w).data = <<>>
  /\ NextRecord(w, loc[w].aff)
  /\ OnlyLoc

ReplaceInsert(w) ==
  /\ pc[w] = "delete" /\ loc[w].cand = {} /\ Cmd(w) = "replace_record"
  /\ loc[w].aff # 0
  /\ Insert(w)
  /\ NextRecord(w, loc[w].aff + Len(Rec(w).data))
  /\ OnlyNew

ReplaceMissing(w) ==
  /\ pc[w] = "delete" /\ loc[w].cand = {} /\ Cmd(w) = "replace_record"
  /\ loc[w].aff = 0
  /\ Fail(w)

-----------------------------------------------------------------------------
(* replace_owner: a SELECT of the token's rows, then an UPDATE by id of    *)
(* each, which writes back every column as it was read.                    *)

\* Variant of SelectOwned: the owner is not in the WHERE.
SelectAnybodys(w) ==
  /\ AtRecord(w, {"replace_owner"})
  /\ LET found == {x \in ViewOf(w) : OwnedByAnyone(w, x) /\ x.owner # NoOwner}
     IN  /\ found # {}
         /\ Goto(w, "owner", [loc[w] EXCEPT !.cand = found])
  /\ OnlyLoc

SelectOwned(w) ==
  /\ AtRecord(w, {"replace_owner"})
  /\ LET mine == {x \in ViewOf(w) : Owned(w, x)}
     IN  /\ mine # {}
         /\ Goto(w, "owner", [loc[w] EXCEPT !.cand = mine])
  /\ OnlyLoc

NothingOwned(w) ==
  /\ AtRecord(w, {"replace_owner"})
  /\ \A x \in ViewOf(w) : ~Owned(w, x)
  /\ Fail(w)

UpdateOwner(w) ==
  /\ pc[w] = "owner"
  /\ \E r \in loc[w].cand :
       LET now == {x \in ViewOf(w) : x.id = r.id /\ x.owner # NoOwner}
           new == IF now = {} THEN {} ELSE {[r EXCEPT !.owner = req[w].newToken]}
       IN  /\ ~LockedByOther(w, r.id)
           /\ Write(w, now, new)
           /\ Goto(w, "owner", [loc[w] EXCEPT !.cand = @ \ {r},
                                              !.aff = @ + (IF now = {} THEN 0 ELSE 1)])
  /\ OnlyTx

EndOwner(w) ==
  /\ pc[w] = "owner" /\ loc[w].cand = {}
  /\ NextRecord(w, loc[w].aff)
  /\ OnlyLoc

-----------------------------------------------------------------------------
(* ormUpdateSOA and the end of the transaction.                            *)

\* Variant of EndOfRecords: a delete leaves the SOA alone.
EndOfRecordsNoSoa(w) ==
  /\ pc[w] = "records" /\ loc[w].ri \notin DOMAIN recs[w]
  /\ Goto(w, IF loc[w].n > 0 /\ Cmd(w) \in {"create_record", "replace_record"}
             THEN "soa" ELSE "commit", loc[w])
  /\ OnlyLoc

EndOfRecords(w) ==
  /\ pc[w] = "records" /\ loc[w].ri \notin DOMAIN recs[w]
  /\ Goto(w, IF loc[w].n > 0 /\ Cmd(w) # "replace_owner" THEN "soa" ELSE "commit", loc[w])
  /\ OnlyLoc

Soas(w) == {x \in ViewOf(w) : x.domain = req[w].domain /\ x.type = "SOA"}

\* First: the SOA of the lowest id, with its serial moved on.
ReadSoa(w) ==
  /\ pc[w] = "soa"
  /\ \E x \in Soas(w) :
       LET serial == GenerateNewSerial(x.content[1], today)
       IN  /\ \A y \in Soas(w) : x.id <= y.id
           /\ Goto(w, "save",
                   [loc[w] EXCEPT !.soa = {[x EXCEPT !.content = <<serial>>]}])
  /\ OnlyLoc

NoSoa(w) ==
  /\ pc[w] = "soa" /\ Soas(w) = {}
  /\ Fail(w)

\* gorm's Save: UPDATE records SET (every column but owner) WHERE id = ?
SaveSoa(w) ==
  /\ pc[w] = "save"
  /\ \E x \in loc[w].soa : \E now \in ViewOf(w) :
       /\ now.id = x.id /\ ~LockedByOther(w, x.id)
       /\ Write(w, {now}, {[x EXCEPT !.owner = now.owner]})
       /\ Goto(w, "commit", loc[w])
  /\ OnlyTx

\* ... and when that affects no row it looks the id up and inserts it.
SoaVanished(w) ==
  /\ pc[w] = "save"
  /\ \E x \in loc[w].soa : /\ \A now \in ViewOf(w) : now.id # x.id
                           /\ ~LockedByOther(w, x.id)
                           /\ Goto(w, "insert", loc[w])
  /\ OnlyLoc

InsertSoa(w) ==
  /\ pc[w] = "insert"
  /\ \E x \in loc[w].soa : /\ \A now \in ViewOf(w) : now.id # x.id
                           /\ ~LockedByOther(w, x.id)
                           /\ Write(w, {}, {[x EXCEPT !.owner = NoOwner]})
                           /\ Goto(w, "commit", loc[w])
  /\ OnlyTx

\* Another handler has inserted the id: before the look-up, or after it.
SoaIsBack(w) == \E x \in loc[w].soa : \E now \in rows[loc[w].db] : now.id = x.id

InsertNothing(w) ==
  /\ pc[w] = "insert" /\ SoaIsBack(w)
  /\ Goto(w, "commit", loc[w])
  /\ OnlyLoc

InsertConflict(w) ==
  /\ pc[w] = "insert" /\ SoaIsBack(w)
  /\ Fail(w)

Apply(w) ==
  /\ rows' = [rows EXCEPT ![loc[w].db] = ViewOf(w)]
  /\ zones' = [zones EXCEPT ![loc[w].db] =
       [n \in DomainName |-> IF n \in tx[w].made THEN "NATIVE" ELSE @[n]]]
  /\ tx' = [tx EXCEPT ![w] = NoTx]
  /\ UNCHANGED <<today, nextId, req, recs>>

Commit(w) ==
  /\ pc[w] = "commit"
  /\ Apply(w)
  /\ NextDatabase(w, loc[w].db)
  /\ UNCHANGED faults

-----------------------------------------------------------------------------
(* Faults, and what PostgreSQL and the process do on their own.            *)

\* The handlers whose rows w's statement is waiting for.
Needs(w) == IF pc[w] \in {"delete", "owner"} THEN {x.id : x \in loc[w].cand}
            ELSE IF pc[w] \in {"save", "insert"} THEN {x.id : x \in loc[w].soa}
            ELSE {}
WaitsFor(w) ==
  IF Needs(w) # {} /\ \A id \in Needs(w) : LockedByOther(w, id)
  THEN {v \in Handler \ {w} : loc[v].db = loc[w].db /\ tx[v].locked \cap Needs(w) # {}}
  ELSE {}

\* PostgreSQL aborts a transaction that waits, over others, for itself.
InCycle(w) ==
  \A S \in SUBSET Handler :
    (WaitsFor(w) \subseteq S /\ \A v \in S : WaitsFor(v) \subseteq S) => w \in S
DeadlockAbort(w) == Running(w) /\ InCycle(w) /\ Fail(w)

Fault == faults < MaxFaults /\ faults' = faults + 1

\* A statement fails; COMMIT of an aborted transaction is an error.
ConnectionLost(w) ==
  /\ Running(w) /\ Fault
  /\ Finish(w, "ERROR")
  /\ tx' = [tx EXCEPT ![w] = NoTx]
  /\ UNCHANGED <<today, database, req, recs>>

\* The transaction is committed, the answer to COMMIT is lost.
CommitLost(w) ==
  /\ pc[w] = "commit" /\ Fault
  /\ Apply(w)
  /\ Finish(w, "ERROR")

\* The process dies with its handlers; the messages are acknowledged.
Die ==
  /\ tx' = [w \in Handler |-> NoTx]
  /\ pc' = [w \in Handler |-> IF Running(w) THEN "lost" ELSE pc[w]]
  /\ loc' = [w \in Handler |-> NoLoc]
  /\ UNCHANGED <<today, database, req, recs, reply>>

Panic(w) == Deletes(w) /\ Panics(w) /\ Die /\ UNCHANGED faults
Crash    == InFlight # {} /\ Fault /\ Die

Tick ==
  /\ today < MaxDay /\ today' = today + 1
  /\ UNCHANGED <<database, tx, req, recs, pc, loc, reply, faults>>

Terminated ==
  /\ \A w \in Handler : pc[w] \in {"done", "lost"}
  /\ UNCHANGED vars

-----------------------------------------------------------------------------
\* What a handler and PostgreSQL do for it without anybody's help.
Handle(w) ==
  \/ FindDomain(w) \/ InsertDomain(w) \/ DomainConflict(w)
  \/ BeginRecords(w) \/ CannotBegin(w) \/ EmptyData(w)
  \/ CreateRecord(w) \/ CreateConflict(w)
  \/ StartDelete(w) \/ DeleteRow(w) \/ DeleteNextItem(w) \/ DeletedAll(w)
  \/ ReplaceInsert(w) \/ ReplaceMissing(w)
  \/ SelectOwned(w) \/ NothingOwned(w) \/ UpdateOwner(w) \/ EndOwner(w)
  \/ EndOfRecords(w) \/ ReadSoa(w) \/ NoSoa(w)
  \/ SaveSoa(w) \/ SoaVanished(w) \/ InsertSoa(w)
  \/ InsertNothing(w) \/ InsertConflict(w)
  \/ Commit(w) \/ DeadlockAbort(w) \/ Panic(w)

Next ==
  \/ \E w \in Handler : \/ Deliver(w) \/ RejectSerial(w) \/ Handle(w)
                        \/ ConnectionLost(w) \/ CommitLost(w)
  \/ Crash \/ Tick \/ Terminated

Spec     == Init /\ [][Next]_vars
FairSpec == Spec /\ \A w \in Handler : WF_vars(Handle(w))

-----------------------------------------------------------------------------
(* Properties.                                                             *)

\* Every copy of a row of database d: committed, or held by a handler there.
Held(w) == tx[w].writes \cup loc[w].cand \cup loc[w].soa
Versions(d) ==
  rows[d] \cup UNION {Held(w) : w \in {v \in Handler : loc[v].db = d}}

SameRow(a, b) ==
  /\ a.domain = b.domain /\ a.name = b.name /\ a.type = b.type
  /\ a.ttl = b.ttl /\ a.prio = b.prio
  /\ a.type # "SOA" => a.content = b.content

\* Ids are drawn once, and the copies of an id are copies of one row.
RowIdentity ==
  \A d \in Orm :
    /\ \A a \in Versions(d) : a.id < nextId[d]
    /\ \A a, b \in Versions(d) : a.id = b.id => SameRow(a, b)
    /\ \A a, b \in rows[d] : a.id = b.id => a = b

Edits(w) == Cmd(w) \in {"create_record", "delete_record", "replace_record"}

\* A transaction deletes its token's rows, and rewrites only an SOA or,
\* handing over, rows that have an owner.
RightfulDelete(w, x) ==
  /\ Cmd(w) \in {"delete_record", "replace_record"}
  /\ x.domain = req[w].domain /\ x.owner = req[w].token
RightfulInsert(w, y) ==
  /\ Edits(w) /\ y.domain = req[w].domain
  /\ \/ y.owner = req[w].token
     \/ y.type = "SOA" /\ y.owner = NoOwner
RightfulUpdate(w, x, y) ==
  \/ Cmd(w) = "replace_owner" /\ x.owner # NoOwner /\ y.owner = req[w].newToken
  \/ /\ Edits(w) /\ x.type = "SOA" /\ x.domain = req[w].domain
     /\ y.owner = x.owner

Written(w, id) == \E y \in tx[w].writes : y.id = id
Rewritten(w) ==
  {y \in tx[w].writes : \E x \in rows[loc[w].db] : x.id = y.id}
Rightful(w) ==
  /\ Edits(w) => \A y, z \in Rewritten(w) : y = z /\ pc[w] = "commit"
  /\ \A x \in rows[loc[w].db] : x.id \in tx[w].locked =>
       \/ RightfulDelete(w, x) /\ ~Written(w, x.id)
       \/ \E y \in tx[w].writes : y.id = x.id /\ RightfulUpdate(w, x, y)
  /\ \A y \in tx[w].writes : y \notin Rewritten(w) => RightfulInsert(w, y)

\* What an open transaction may hold: its locks are its own, its changes
\* are those its request's token is entitled to, and the zone it makes is new.
Open(w) ==
  /\ \A y \in tx[w].writes : y.id \in tx[w].locked
  /\ \A y, z \in tx[w].writes : y.id = z.id => y = z
  /\ \A id \in tx[w].locked : id < nextId[loc[w].db] /\ ~LockedByOther(w, id)
  /\ Rightful(w)
  /\ \A n \in tx[w].made : zones[loc[w].db][n] = "absent" /\ ~ZonePending(w)
OpenTransactions == \A w \in Handler : Running(w) => Open(w)

\* The statements of each command.
Places(cmd) ==
  {"begin", "commit"} \cup
  (IF cmd = "create_domain" THEN {"zone"}
   ELSE IF cmd = "replace_owner" THEN {"records", "owner"}
   ELSE IF cmd = "create_record" THEN {"records", "soa", "save", "insert"}
   ELSE {"records", "delete", "soa", "save", "insert"})

\* Where a handler is, and what it has done by then.
Placed(w) ==
  /\ ~Running(w) => tx[w] = NoTx /\ loc[w] = NoLoc
  /\ Running(w) => pc[w] \in Places(Cmd(w)) /\ loc[w].db \in Orm
  /\ pc[w] \in {"begin", "zone"} => tx[w] = NoTx
  /\ Cmd(w) = "create_domain" => tx[w].locked = {} /\ tx[w].writes = {}
  /\ \A n \in tx[w].made : /\ n = req[w].domain
                            /\ Cmd(w) = "create_domain" /\ pc[w] = "commit"
  /\ pc[w] \in {"records", "owner", "commit"} /\ Cmd(w) = "replace_owner" =>
       req[w].newToken \in Token
  /\ pc[w] = "delete" => loc[w].ri \in DOMAIN recs[w]
  /\ pc[w] \in {"begin", "records", "delete"} /\ loc[w].ri \in DOMAIN recs[w] =>
       loc[w].di = 1 \/ loc[w].di \in DOMAIN Rec(w).data
  /\ \A x \in loc[w].soa :
       /\ x.type = "SOA" /\ x.domain = req[w].domain
       /\ pc[w] \in {"save", "insert"} /\ x.id \in tx[w].locked => Written(w, x.id)
Control == \A w \in Handler : Placed(w)

IInv == TypeOK /\ RowIdentity /\ OpenTransactions /\ Control

\* The handovers that the requests have asked for: of the rows that a request
\* has read as its token's own and is at, or has written.
HandedOver(w) == tx[w].writes \cup {y \in loc[w].cand : pc[w] = "owner"}
Wishes(w) ==
  {[db |-> loc[w].db, id |-> x.id, from |-> req[w].token, to |-> req[w].newToken] :
     x \in HandedOver(w)}
Wished == UNION {Wishes(w) : w \in {v \in Handler : Cmd(v) = "replace_owner"}}

\* What is left of README.md's multitenancy when requests overlap: only its
\* owner deletes or edits a row, and a row is handed over only by a request of
\* a token that owned it when the request read it (orm.go:278, orm.go:371).
Tenants == INSTANCE TenantZones WITH Database <- Orm, asked <- Wished
TenantSpec == Tenants!TZSpec

\* README.md:5 of a handover: the request that hands a row over is one of the
\* token that owns it by then.
HandoverByOwner ==
  [][\A d \in Orm : \A r \in rows[d], y \in rows'[d] :
       r.id = y.id /\ r.owner # y.owner =>
         \E w \in Handler : /\ pc[w] = "commit" /\ r.id \in tx[w].locked
                            /\ loc[w].db = d /\ req[w].token = r.owner
                            /\ tx'[w] = NoTx]_vars

\* What the zone answers, but for its SOA: owners and ids do not show.
Answers(d, n) ==
  {[x EXCEPT !.owner = NoOwner, !.id = 0] :
     x \in {y \in rows[d] : y.domain = n /\ y.type # "SOA"}}
ZoneSoas(d, n) == {x \in rows[d] : x.domain = n /\ x.type = "SOA"}
FirstSoa(d, n) == {x \in ZoneSoas(d, n) : \A y \in ZoneSoas(d, n) : x.id <= y.id}

\* A zone that has an SOA keeps one, whatever its tenants delete.
SoaSurvives ==
  [][\A d \in Orm, n \in DomainName :
       ZoneSoas(d, n) # {} => ZoneSoas(d, n)' # {}]_vars

\* Secondaries see every change of the answers: the zone's serial rises with
\* it (orm.go:484), unless the change comes with an SOA of its own.
SerialBumped ==
  [][\A d \in Orm, n \in DomainName :
       Answers(d, n)' # Answers(d, n) =>
         \E s \in FirstSoa(d, n)' : \A r \in FirstSoa(d, n) :
           r.id = s.id => s.content[1] > r.content[1]]_vars

\* The checks of create_record: a CNAME is alone at its name, and an SOA and
\* a PTR are the only one of their type there.
SingleRecords ==
  \A d \in Orm : \A a, b \in rows[d] :
    a.domain = b.domain /\ a.name = b.name /\ a # b =>
      a.type # "CNAME" /\ (a.type \in {"SOA", "PTR"} => a.type # b.type)

\* Databases of one view answer alike when no request is being handled, as
\* long as no connection is lost and no process dies between two of them.
ReplicasAgree ==
  InFlight = {} /\ faults = 0 =>
    \A d, e \in Orm : DbView[d] = DbView[e] =>
      \A n \in DomainName : /\ zones[d][n] = zones[e][n]
                            /\ Answers(d, n) = Answers(e, n)

\* Every request that is handled is replied to (or its process dies).
EventuallyReplied == \A w \in Handler : Running(w) ~> ~Running(w)
=============================================================================
