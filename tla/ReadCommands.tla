---------------------------- MODULE ReadCommands ----------------------------
(***************************************************************************)
(* The reading commands of wunderdns/orm.go beside the writing ones:       *)
(* list_domains, list_records, list_own and search_record read the         *)
(* databases of a view one after another, each in a transaction of its own *)
(* (ormApplyCommandMerge), while OrmCommands' handlers change them.        *)
(*                                                                         *)
(* The commands build strings of what they read; an answer here is the set *)
(* of names or of record items it shows.  Left out are the layout of the   *)
(* reply, how the items of one name and type are put together into a       *)
(* record, and the ttl that such a record gets (that of any of its items). *)
(***************************************************************************)
EXTENDS OrmCommands

CONSTANTS
  Reader,  \* the goroutines that handle the reading requests
  Query    \* the reading requests that clients may send

(***************************************************************************)
(* The names of a query are the full names, as pairs of zone and label,    *)
(* that its records select: for search_record the first record's name, for *)
(* the lists those that begin with the name of any of its records, which   *)
(* is every name when it has none.                                         *)
(***************************************************************************)
QueryType ==
  [cmd : {"list_domains", "list_records", "list_own", "search_record"},
   token : Token, view : View, domain : DomainName, names : SUBSET (DomainName \X Label)]

ASSUME QueryAssumption == Query \subseteq QueryType

VARIABLES
  query,    \* query[r]: the request whose message r is started for
  rpc,      \* rpc[r]: the statement r executes next
  at,       \* at[r]: the database it reads, whether its transaction is
            \* aborted, and whether list_records has found the zone
  answer,   \* answer[r][d]: what r has read from database d
  status,   \* status[r]: the status of the reply r published
  always,   \* history: always[r][d] is what r is to read that database d
            \* has held all the time since r began,
  ever      \* and ever[r][d] what it has held at some time

reading == <<query, rpc, at, answer, status>>
readVars == <<vars, reading, always, ever>>

Nowhere == [db |-> 0, aborted |-> FALSE, found |-> FALSE]
NoAnswer == [d \in Orm |-> {}]

ReadInit ==
  /\ Init
  /\ query \in [Reader -> Query]
  /\ rpc = [r \in Reader |-> "idle"]
  /\ at = [r \in Reader |-> Nowhere]
  /\ answer = [r \in Reader |-> NoAnswer]
  /\ status = [r \in Reader |-> "none"]
  /\ always = [r \in Reader |-> NoAnswer] /\ ever = always

-----------------------------------------------------------------------------
(* What a statement finds in the committed rows, and what it shows.        *)

\* The lists put the prio of an MX or SRV before its content; search_record
\* shows the content alone.
Item(q, x) ==
  [domain |-> x.domain, name |-> x.name, type |-> x.type,
   data |-> IF q.cmd # "search_record" /\ HasPrio(x.type)
            THEN <<x.prio>> \o x.content ELSE x.content]
Items(q, S) == {Item(q, x) : x \in {y \in S : <<y.domain, y.name>> \in q.names}}

\* ormApplyCommandData's SELECT.  A zone not found leaves 0 for its id, and
\* no row has that.
Found(q, d, zoneKnown) ==
  CASE q.cmd = "list_domains"  -> {n \in DomainName : zones[d][n] # "absent"}
    [] q.cmd = "search_record" -> Items(q, rows[d])
    [] q.cmd = "list_own"      -> Items(q, {x \in rows[d] : x.owner = q.token})
    [] q.cmd = "list_records"  -> Items(q, {x \in rows[d] : zoneKnown /\ x.domain = q.domain})

-----------------------------------------------------------------------------
(* A reader's steps.                                                       *)

Reads(r) == rpc[r] \in {"zone", "rows", "commit"}

\* The reply has been published, or the process has died.
Leave(r, where, reported) ==
  /\ rpc' = [rpc EXCEPT ![r] = where]
  /\ status' = [status EXCEPT ![r] = reported]
  /\ at' = [at EXCEPT ![r] = Nowhere]
  /\ answer' = [answer EXCEPT ![r] = NoAnswer]
  /\ UNCHANGED query

\* Variant of ReadNext: the loop begins with the last database.
ReadNextFromLast(r, after) ==
  LET left == {d \in Orm : d > after /\ query[r].view \in {"*", DbView[d]}}
  IN  \/ left = {} /\ Leave(r, "done", "SUCCESS")
      \/ \E d \in left :
           /\ \A e \in left : e <= d
           /\ rpc' = [rpc EXCEPT ![r] = IF query[r].cmd = "list_records" THEN "zone" ELSE "rows"]
           /\ at' = [at EXCEPT ![r] = [Nowhere EXCEPT !.db = d]]
           /\ UNCHANGED <<query, answer, status>>

\* The loop of ormApplyCommandMerge: on to the next database of the view.
ReadNext(r, after) ==
  LET left == {d \in Orm : d > after /\ query[r].view \in {"*", DbView[d]}}
  IN  \/ left = {} /\ Leave(r, "done", "SUCCESS")
      \/ \E d \in left :
           /\ \A e \in left : d <= e
           /\ rpc' = [rpc EXCEPT ![r] = IF query[r].cmd = "list_records" THEN "zone" ELSE "rows"]
           /\ at' = [at EXCEPT ![r] = [Nowhere EXCEPT !.db = d]]
           /\ UNCHANGED <<query, answer, status>>

StartRead(r) == rpc[r] = "idle" /\ ReadNext(r, 0)

FindZone(r) ==
  /\ rpc[r] = "zone"
  /\ rpc' = [rpc EXCEPT ![r] = "rows"]
  /\ at' = [at EXCEPT ![r].found =
       ~at[r].aborted /\ zones[at[r].db][query[r].domain] # "absent"]
  /\ UNCHANGED <<query, answer, status>>

ReadRows(r) ==
  /\ rpc[r] = "rows"
  /\ rpc' = [rpc EXCEPT ![r] = "commit"]
  /\ answer' = [answer EXCEPT ![r][at[r].db] =
       IF at[r].aborted THEN {} ELSE Found(query[r], at[r].db, at[r].found)]
  /\ UNCHANGED <<query, at, status>>

\* Nobody looks at the error of a statement: it counts as one that found
\* nothing, but it aborts the transaction, whose COMMIT is then an error.
StatementFails(r) ==
  /\ Reads(r) /\ ~at[r].aborted /\ Fault
  /\ at' = [at EXCEPT ![r].aborted = TRUE]
  /\ UNCHANGED <<today, database, tx, req, recs, pc, loc, reply, query, rpc, answer, status>>

\* Variant of ReadCommit: the error of COMMIT is not looked at either.
ReadCommitAnyway(r) == rpc[r] = "commit" /\ ReadNext(r, at[r].db)

ReadCommit(r) == rpc[r] = "commit" /\ ~at[r].aborted /\ ReadNext(r, at[r].db)

\* What was read from the databases before is dropped: the reply is the error.
ReadFails(r) == rpc[r] = "commit" /\ at[r].aborted /\ Leave(r, "done", "ERROR")

-----------------------------------------------------------------------------
(* The readers beside the handlers.                                        *)

Read(r) == StartRead(r) \/ FindZone(r) \/ ReadRows(r) \/ ReadCommit(r) \/ ReadFails(r)

Dies == \E w \in Handler : pc[w] # "lost" /\ pc'[w] = "lost"
Handlers == Next /\ ~Dies /\ UNCHANGED reading

\* The readers die with the process, which may have no other handlers.
CrashReading == InFlight = {} /\ (\E r \in Reader : Reads(r)) /\ Fault /\ Die
ProcessDies ==
  /\ \/ Crash
     \/ CrashReading
     \/ \E w \in Handler : Panic(w)
  /\ rpc' = [r \in Reader |-> IF Reads(r) THEN "lost" ELSE rpc[r]]
  /\ at' = [r \in Reader |-> Nowhere]
  /\ answer' = [r \in Reader |-> NoAnswer]
  /\ UNCHANGED <<query, status>>

\* The history starts with a read and is dropped with its end.
Watch ==
  LET Now(r, d) == Found(query[r], d, TRUE)'
  IN  /\ always' = [r \in Reader |-> [d \in Orm |->
           IF ~Reads(r)' THEN {}
           ELSE IF Reads(r) THEN always[r][d] \cap Now(r, d) ELSE Now(r, d)]]
      /\ ever' = [r \in Reader |-> [d \in Orm |->
           IF ~Reads(r)' THEN {} ELSE ever[r][d] \cup Now(r, d)]]

ReadNextState ==
  /\ \/ Handlers
     \/ ProcessDies
     \/ \E r \in Reader : \/ Read(r) /\ UNCHANGED vars
                          \/ StatementFails(r)
  /\ Watch

ReadSpec == ReadInit /\ [][ReadNextState]_readVars

-----------------------------------------------------------------------------
(* Properties.                                                             *)

\* What a reply shows of a database: names of zones, or items of records.
Shown == DomainName \cup [domain : DomainName, name : Label, type : Type, data : Seq(Field)]

ReadTypeOK ==
  /\ query \in [Reader -> Query]
  /\ rpc \in [Reader -> {"idle", "zone", "rows", "commit", "done", "lost"}]
  /\ at \in [Reader -> [db : Nat, aborted : BOOLEAN, found : BOOLEAN]]
  /\ answer \in [Reader -> [Orm -> SUBSET Shown]]
  /\ status \in [Reader -> {"none", "SUCCESS", "ERROR"}]

\* The zones of the rows are there, and so is the one that a handler edits.
ZonesThere ==
  /\ \A d \in Orm : \A x \in rows[d] : zones[d][x.domain] # "absent"
  /\ \A w \in Handler : Running(w) /\ pc[w] # "begin" /\ Edits(w) =>
       zones[loc[w].db][req[w].domain] # "absent"

\* What r has read of database d is whole and true.
Asked(r, d) == query[r].view \in {"*", DbView[d]}
True(r, d)  == always[r][d] \subseteq answer[r][d] /\ answer[r][d] \subseteq ever[r][d]

\* So is all that a reader has read before the database it is at, and there
\* what it has read without an error; a zone that it has not found was empty.
ReadSoFar(r) ==
  /\ at[r].db \in Orm
  /\ rpc[r] = "zone" => query[r].cmd = "list_records"
  /\ \A d \in Orm : Asked(r, d) =>
       \/ at[r].db < d
       \/ at[r].db = d /\ (rpc[r] # "commit" \/ at[r].aborted)
       \/ True(r, d)
  /\ rpc[r] = "rows" /\ query[r].cmd = "list_records" /\ ~at[r].aborted /\ ~at[r].found =>
       always[r][at[r].db] = {}

\* The inductive invariant of the readers beside the handlers (orm.go:513).
ReadInv ==
  /\ ReadTypeOK /\ ZonesThere
  /\ \A r \in Reader : Reads(r) => ReadSoFar(r)

\* A reply of SUCCESS is whole and true, whatever is written meanwhile: of
\* every database of the view it shows all that the database has held since
\* the request was taken, and nothing it has not held since then (orm.go:513).
\* So it shows what a writer had replied to before, and list_own no row that
\* was another tenant's all the time.
ReadsTrue ==
  [][\A r \in Reader : status[r] = "none" /\ status'[r] = "SUCCESS" =>
       \A d \in Orm : query[r].view \in {"*", DbView[d]} =>
         always[r][d] \subseteq answer[r][d] /\ answer[r][d] \subseteq ever[r][d]]_readVars
=============================================================================
