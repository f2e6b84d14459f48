---------------------------- MODULE SoaKept_proofs ----------------------------
(***************************************************************************)
(* A zone that has an SOA keeps one, however the requests of OrmCommands   *)
(* overlap and whichever of them fail: the proof of SoaSurvives, for every *)
(* value of the constants.                                                 *)
(***************************************************************************)
EXTENDS OneByOne_proofs

\* A handler has one SOA to change at most.
OneSoa(w) == \A x, y \in loc[w].soa : x = y

\* A transaction that edits a zone and has changed a row knows that it has.
Counted(w) ==
  /\ Edits(w) /\ pc[w] \in {"records", "delete"} /\ loc[w].n = 0 /\ loc[w].aff = 0 =>
       tx[w].locked = {}
  /\ pc[w] \in {"begin", "records"} /\ loc[w].ri \notin DOMAIN recs[w] => loc[w].aff = 0

\* No other handler holds an SOA under the id of a row that w brings into its
\* database for a token.
InRows(d, id) == \E r \in rows[d] : r.id = id
Fresh(w) ==
  \A v \in Handler \ {w} : loc[v].db = loc[w].db =>
    \A y \in tx[w].writes : y.owner # NoOwner /\ ~InRows(loc[w].db, y.id) =>
      \A x \in loc[v].soa : x.id # y.id

\* An SOA that was gone when w meant to update it, and is back, is nobody's.
Back(w) ==
  pc[w] = "insert" =>
    \A x \in loc[w].soa : \A r \in rows[loc[w].db] : r.id = x.id => r.owner = NoOwner

\* What an edit commits has an SOA: one that it has written, or one that is
\* nobody's, so that no request deletes it.
IsSoa(w, s) == s.domain = req[w].domain /\ s.type = "SOA"
Kept(w) ==
  pc[w] = "commit" /\ Edits(w) /\ tx[w].locked # {} =>
    \/ \E s \in tx[w].writes : IsSoa(w, s)
    \/ \E s \in rows[loc[w].db] : IsSoa(w, s) /\ s.owner = NoOwner /\ s.id \notin tx[w].locked

KInv ==
  \A w \in Handler :
    Running(w) => OneSoa(w) /\ Counted(w) /\ Fresh(w) /\ Back(w) /\ Kept(w)

-----------------------------------------------------------------------------
(* The kinds of steps.                                                     *)

\* Handler u ends its transaction, and goes on to the next database or ends.
Between(u) ==
  /\ tx'[u] = NoTx /\ loc'[u].soa = {}
  /\ Running(u)' => pc'[u] = "begin" /\ loc'[u].aff = 0

Committed(u) == pc[u] = "commit" /\ Apply(u)

\* An end of a transaction, by an error or by a commit.
LEMMA FailIsBetween == ASSUME TypeOK, NEW u \in Handler, Fail(u) PROVE Between(u)
BY FailMeans DEF Between, Running, NoLoc, LocAt

LEMMA NextDatabaseIsBetween ==
  ASSUME TypeOK, NEW u \in Handler, NEW e, NextDatabase(u, e), tx'[u] = NoTx
  PROVE  Between(u)
<1>1. CASE pc'[u] = "done" /\ loc'[u] = NoLoc
  BY <1>1 DEF Between, Running, NoLoc, LocAt
<1>2. ASSUME NEW d \in Orm, pc'[u] = "begin", loc'[u] = LocAt(d, 1, 0) PROVE Between(u)
  <2>1. loc'[u].soa = {} /\ loc'[u].aff = 0 BY <1>2 DEF LocAt
  <2> QED BY <1>2, <2>1 DEF Between
<1> QED BY <1>1, <1>2, NextDatabaseMeans

\* Every step is one of these, of one handler, or takes all handlers down.
LEMMA StepKinds ==
  ASSUME IInv, [Next]_vars
  PROVE  \/ Die
         \/ UNCHANGED <<rows, tx, req, recs, pc, loc>>
         \/ \E u \in Handler :
              /\ OthersKeep(u) /\ req' = req /\ \A v \in Handler \ {u} : recs'[v] = recs[v]
              /\ \/ Work(u) /\ rows' = rows
                 \/ Between(u) /\ (rows' = rows \/ Committed(u))
<1>1. TypeOK BY DEF IInv
<1>2. ASSUME NEW u \in Handler, Fail(u)
      PROVE  /\ OthersKeep(u) /\ req' = req /\ recs' = recs
             /\ Between(u) /\ rows' = rows
  BY <1>1, <1>2, FailMeans, FailIsBetween
<1>3. ASSUME NEW u \in Handler, Deliver(u)
      PROVE  /\ OthersKeep(u) /\ req' = req /\ \A v \in Handler \ {u} : recs'[v] = recs[v]
             /\ Between(u) /\ rows' = rows
  <2>1. /\ tx' = tx /\ tx'[u] = NoTx /\ rows' = rows /\ req' = req
        /\ \A v \in Handler \ {u} : recs'[v] = recs[v]
    BY <1>1, <1>3 DEF Deliver, database, IInv, Control, Placed, TypeOK, Running
  <2>2. OthersKeep(u) /\ Between(u)
    BY <1>1, <1>3, <2>1, NextDatabaseMeans, NextDatabaseIsBetween DEF Deliver, OthersKeep
  <2> QED BY <2>1, <2>2
<1>4. ASSUME NEW u \in Handler, Commit(u)
      PROVE  /\ OthersKeep(u) /\ req' = req /\ recs' = recs
             /\ Between(u) /\ Committed(u)
  <2>1. loc[u].db \in Orm /\ Apply(u) /\ pc[u] = "commit" /\ NextDatabase(u, loc[u].db)
    BY <1>4 DEF Commit, IInv, Control, Placed, Running
  <2>2. /\ tx'[u] = NoTx /\ req' = req /\ recs' = recs
        /\ \A v \in Handler \ {u} : tx'[v] = tx[v]
    BY <1>1, <2>1, ApplyMeans
  <2> QED BY <1>1, <2>1, <2>2, NextDatabaseMeans, NextDatabaseIsBetween
          DEF OthersKeep, Committed
<1>5. ASSUME NEW u \in Handler, CommitLost(u)
      PROVE  /\ OthersKeep(u) /\ req' = req /\ recs' = recs
             /\ Between(u) /\ Committed(u)
  <2>1. loc[u].db \in Orm /\ Apply(u) /\ pc[u] = "commit"
    BY <1>5 DEF CommitLost, IInv, Control, Placed, Running
  <2>2. /\ tx'[u] = NoTx /\ req' = req /\ recs' = recs
        /\ \A v \in Handler \ {u} : tx'[v] = tx[v]
    BY <1>1, <2>1, ApplyMeans
  <2>3. /\ pc'[u] = "done" /\ loc'[u] = NoLoc
        /\ \A v \in Handler \ {u} : loc'[v] = loc[v] /\ pc'[v] = pc[v]
    BY <1>1, <1>5, GotoMeans DEF CommitLost, Finish
  <2> QED BY <2>1, <2>2, <2>3
          DEF OthersKeep, Committed, Between, Running, NoLoc, LocAt
<1>6. ASSUME NEW u \in Handler, ConnectionLost(u)
      PROVE  /\ OthersKeep(u) /\ req' = req /\ recs' = recs
             /\ Between(u) /\ rows' = rows
  <2>1. /\ pc'[u] = "done" /\ loc'[u] = NoLoc /\ tx'[u] = NoTx
        /\ \A v \in Handler \ {u} : loc'[v] = loc[v] /\ pc'[v] = pc[v] /\ tx'[v] = tx[v]
        /\ UNCHANGED <<rows, req, recs>>
    BY <1>1, <1>6, GotoMeans DEF ConnectionLost, Finish, TypeOK, database
  <2> QED BY <2>1 DEF OthersKeep, Between, Running, NoLoc, LocAt
<1>7. ASSUME NEW u \in Handler, Handle(u) PROVE Work(u) \/ Fail(u) \/ Commit(u) \/ Die
  BY <1>7
  DEF Handle, Work, DomainConflict, CannotBegin, EmptyData, CreateConflict, ReplaceMissing,
      NothingOwned, NoSoa, InsertConflict, DeadlockAbort, Panic
<1>8. ASSUME NEW u \in Handler, Handle(u), Work(u), ~Die
      PROVE  /\ OthersKeep(u) /\ req' = req /\ \A v \in Handler \ {u} : recs'[v] = recs[v]
             /\ rows' = rows
  <2>1. OthersKeep(u) /\ req' = req /\ \A v \in Handler \ {u} : recs'[v] = recs[v]
    BY <1>1, <1>8, PlacedHandle, HandleKeepsRequests DEF Panic
  <2>2. rows' = rows
    BY <1>8
    DEF Work, FindDomain, InsertDomain, BeginRecords, CreateRecord, StartDelete, DeleteRow,
        DeleteNextItem, DeletedAll, ReplaceInsert, SelectOwned, UpdateOwner, EndOwner,
        EndOfRecords, ReadSoa, SaveSoa, SoaVanished, InsertSoa, InsertNothing,
        OnlyLoc, OnlyTx, OnlyNew, database
  <2> QED BY <2>1, <2>2
<1>9. Tick \/ UNCHANGED vars => UNCHANGED <<rows, tx, req, recs, pc, loc>>
  BY DEF Tick, vars, database
<1> QED
  BY <1>2, <1>3, <1>4, <1>5, <1>6, <1>7, <1>8, <1>9
  DEF Next, RejectSerial, Terminated, Crash

-----------------------------------------------------------------------------
(* What a handler's own statements do to its part of the invariant.        *)

\* Where the statements leave the handler.
LEMMA WorkGoes ==
  ASSUME IInv, NEW w \in Handler
  PROVE  /\ FindDomain(w) => pc'[w] \in {"commit", "zone"}
         /\ InsertDomain(w) \/ SaveSoa(w) \/ InsertSoa(w) \/ InsertNothing(w) =>
              pc'[w] = "commit"
         /\ EndOfRecords(w) => pc'[w] \in {"soa", "commit"}
         /\ BeginRecords(w) \/ DeletedAll(w) \/ EndOwner(w) \/ DeleteNextItem(w)
            \/ CreateRecord(w) \/ ReplaceInsert(w) => pc'[w] = "records"
         /\ StartDelete(w) \/ DeleteRow(w) => pc'[w] = "delete"
         /\ SelectOwned(w) \/ UpdateOwner(w) => pc'[w] = "owner"
         /\ ReadSoa(w) => pc'[w] = "save"
         /\ SoaVanished(w) => pc'[w] = "insert"
<1>1. \A p, l : Goto(w, p, l) => pc'[w] = p BY GotoMeans DEF IInv
<1>2. FindDomain(w) => pc'[w] \in {"commit", "zone"} BY <1>1 DEF FindDomain
<1>3. /\ InsertDomain(w) => pc'[w] = "commit"
      /\ SaveSoa(w) => pc'[w] = "commit"
      /\ InsertSoa(w) => pc'[w] = "commit"
      /\ InsertNothing(w) => pc'[w] = "commit"
  BY <1>1 DEF InsertDomain, SaveSoa, InsertSoa, InsertNothing
<1>4. EndOfRecords(w) => pc'[w] \in {"soa", "commit"} BY <1>1 DEF EndOfRecords
<1>5. /\ BeginRecords(w) => pc'[w] = "records"
      /\ DeletedAll(w) => pc'[w] = "records"
      /\ EndOwner(w) => pc'[w] = "records"
      /\ DeleteNextItem(w) => pc'[w] = "records"
      /\ CreateRecord(w) => pc'[w] = "records"
      /\ ReplaceInsert(w) => pc'[w] = "records"
  BY <1>1 DEF BeginRecords, DeletedAll, EndOwner, DeleteNextItem, CreateRecord,
              ReplaceInsert, NextRecord
<1>6. StartDelete(w) => pc'[w] = "delete" BY <1>1 DEF StartDelete
<1>7. DeleteRow(w) => pc'[w] = "delete" BY <1>1 DEF DeleteRow
<1>8. SelectOwned(w) => pc'[w] = "owner" BY <1>1 DEF SelectOwned
<1>9. UpdateOwner(w) => pc'[w] = "owner" BY <1>1 DEF UpdateOwner
<1>10. ReadSoa(w) => pc'[w] = "save" BY <1>1 DEF ReadSoa
<1>11. SoaVanished(w) => pc'[w] = "insert" BY <1>1 DEF SoaVanished
<1> QED BY <1>2, <1>3, <1>4, <1>5, <1>6, <1>7, <1>8, <1>9, <1>10, <1>11

\* Only ReadSoa takes an SOA to change; the others keep or drop it.
LEMMA SoaWork ==
  ASSUME IInv, NEW w \in Handler, Work(w), ~ReadSoa(w)
  PROVE  loc'[w].db = loc[w].db /\ (loc'[w].soa = {} \/ loc'[w].soa = loc[w].soa)
<1>1. /\ TypeOK /\ loc[w] \in Loc
      /\ \A p, l : Goto(w, p, l) => pc'[w] = p /\ loc'[w] = l
      /\ \A p, n : LocAt(loc[w].db, p, n).db = loc[w].db /\ LocAt(loc[w].db, p, n).soa = {}
  BY LocFields, GotoMeans DEF IInv, LocAt
<1>3. CASE \/ FindDomain(w) \/ BeginRecords(w) \/ EndOfRecords(w) \/ InsertDomain(w)
           \/ SaveSoa(w) \/ SoaVanished(w) \/ InsertSoa(w) \/ InsertNothing(w)
  BY <1>1, <1>3 DEF FindDomain, BeginRecords, EndOfRecords, InsertDomain, SaveSoa,
                    SoaVanished, InsertSoa, InsertNothing
<1>4. CASE DeletedAll(w) \/ EndOwner(w) \/ CreateRecord(w) \/ ReplaceInsert(w)
  BY <1>1, <1>4 DEF DeletedAll, EndOwner, CreateRecord, ReplaceInsert, NextRecord
<1>2. CASE SelectOwned(w) \/ StartDelete(w)
  <2>1. PICK S, p : Goto(w, p, [loc[w] EXCEPT !.cand = S])
    BY <1>2 DEF SelectOwned, StartDelete
  <2> DEFINE l == [loc[w] EXCEPT !.cand = S]
  <2>2. l.db = loc[w].db /\ l.soa = loc[w].soa BY <1>1 DEF Loc
  <2>3. Goto(w, p, l) BY <2>1
  <2> HIDE DEF l
  <2> QED BY <1>1, <2>2, <2>3
<1>5. CASE DeleteRow(w) \/ UpdateOwner(w)
  <2>1. PICK S, n, p : Goto(w, p, [loc[w] EXCEPT !.cand = S, !.aff = n])
    BY <1>5 DEF DeleteRow, UpdateOwner
  <2> DEFINE l == [loc[w] EXCEPT !.cand = S, !.aff = n]
  <2>2. l.db = loc[w].db /\ l.soa = loc[w].soa BY <1>1 DEF Loc
  <2>3. Goto(w, p, l) BY <2>1
  <2> HIDE DEF l
  <2> QED BY <1>1, <2>2, <2>3
<1>6. CASE DeleteNextItem(w)
  <2> DEFINE l == [loc[w] EXCEPT !.di = @ + 1]
  <2>1. CASE NextRecord(w, loc[w].aff) BY <1>1, <2>1 DEF NextRecord
  <2>2. l.db = loc[w].db /\ l.soa = loc[w].soa BY <1>1 DEF Loc
  <2>3. Goto(w, "records", l) \/ NextRecord(w, loc[w].aff) BY <1>6 DEF DeleteNextItem
  <2> HIDE DEF l
  <2> QED BY <1>1, <2>1, <2>2, <2>3
<1> QED BY <1>2, <1>3, <1>4, <1>5, <1>6 DEF Work

\* No statement moves its handler to another database.
LEMMA WorkStays ==
  ASSUME IInv, NEW w \in Handler, Work(w) PROVE loc'[w].db = loc[w].db
<1>1. CASE ReadSoa(w)
  <2>1. PICK z : Goto(w, "save", [loc[w] EXCEPT !.soa = {z}]) BY <1>1 DEF ReadSoa
  <2> DEFINE l == [loc[w] EXCEPT !.soa = {z}]
  <2>2. l.db = loc[w].db BY LocFields DEF IInv, Loc
  <2>3. Goto(w, "save", l) BY <2>1
  <2> HIDE DEF l
  <2> QED BY <2>2, <2>3, GotoMeans DEF IInv
<1> QED BY <1>1, SoaWork

\* The UPDATE of the SOA is of one.
LEMMA OneSoaWork == ASSUME IInv, NEW w \in Handler, OneSoa(w), Work(w) PROVE OneSoa(w)'
<1>1. CASE ~ReadSoa(w) BY <1>1, SoaWork DEF OneSoa
<1>2. CASE ReadSoa(w)
  <2>1. PICK z : Goto(w, "save", [loc[w] EXCEPT !.soa = {z}]) BY <1>2 DEF ReadSoa
  <2> DEFINE l == [loc[w] EXCEPT !.soa = {z}]
  <2>2. l.soa = {z} BY LocFields DEF IInv, Loc
  <2>3. Goto(w, "save", l) BY <2>1
  <2> HIDE DEF l
  <2>4. loc'[w].soa = {z} BY <2>2, <2>3, GotoMeans DEF IInv
  <2> QED BY <2>4 DEF OneSoa
<1> QED BY <1>1, <1>2

\* The counts, of what is only read and of what is written.
LEMMA CountedWork ==
  ASSUME IInv, NEW w \in Handler, Counted(w), Work(w), req' = req PROVE Counted(w)'
<1>1. /\ TypeOK /\ loc[w] \in Loc /\ loc[w].n \in Nat /\ loc[w].aff \in Nat
      /\ \A p, l : Goto(w, p, l) => pc'[w] = p /\ loc'[w] = l
      /\ \A p, n : LocAt(loc[w].db, p, n).aff = 0 /\ LocAt(loc[w].db, p, n).n = n
      /\ Edits(w)' = Edits(w)
  BY LocFields, GotoMeans DEF IInv, LocAt, Edits, Cmd
<1>2. CASE /\ pc'[w] \notin {"begin", "records", "delete"}
  BY <1>2 DEF Counted
<1>3. CASE BeginRecords(w)
  <2>1. /\ pc[w] = "begin" /\ pc'[w] = "records" /\ loc'[w] = loc[w]
        /\ UNCHANGED <<tx, recs>>
    BY <1>1, <1>3 DEF BeginRecords, OnlyLoc
  <2>2. tx[w].locked = {} BY <2>1 DEF IInv, Control, Placed, NoTx
  <2> QED BY <1>1, <2>1, <2>2 DEF Counted
<1>4. CASE DeletedAll(w) \/ EndOwner(w)
  <2>1. /\ loc'[w].aff = 0 /\ pc'[w] = "records" /\ tx' = tx
        /\ loc'[w].n = loc[w].n + loc[w].aff
    BY <1>1, <1>4 DEF DeletedAll, EndOwner, NextRecord, OnlyLoc
  <2>2. Edits(w) => pc[w] = "delete"
    BY <1>4 DEF DeletedAll, EndOwner, Edits, IInv, Control, Placed, Running, Places
  <2>3. loc'[w].n = 0 => loc[w].n = 0 /\ loc[w].aff = 0 BY <1>1, <2>1
  <2> QED BY <1>1, <2>1, <2>2, <2>3 DEF Counted
<1>5. CASE StartDelete(w)
  <2> DEFINE l == [loc[w] EXCEPT !.cand = {x \in ViewOf(w) : Matched(w, x)}]
  <2>1. l.n = loc[w].n /\ l.aff = loc[w].aff BY <1>1 DEF Loc
  <2>2. Goto(w, "delete", l) /\ tx' = tx /\ pc[w] = "records"
    BY <1>5 DEF StartDelete, Deletes, AtRecord, OnlyLoc
  <2> HIDE DEF l
  <2>3. pc'[w] = "delete" /\ loc'[w].n = loc[w].n /\ loc'[w].aff = loc[w].aff
    BY <1>1, <2>1, <2>2
  <2> QED BY <1>1, <2>2, <2>3 DEF Counted
<1>6. CASE DeleteRow(w)
  <2> DEFINE now(r) == {x \in ViewOf(w) : x.id = r.id /\ Matched(w, x)}
             more(r) == IF now(r) = {} THEN 0 ELSE 1
             l(r) == [loc[w] EXCEPT !.cand = @ \ {r}, !.aff = @ + more(r)]
  <2>1. PICK r \in loc[w].cand : Write(w, now(r), {}) /\ Goto(w, "delete", l(r))
    BY <1>6 DEF DeleteRow
  <2>2. pc[w] = "delete" BY <1>6 DEF DeleteRow
  <2>3. more(r) \in Nat /\ (more(r) = 0 => now(r) = {}) OBVIOUS
  <2> HIDE DEF now, more
  <2>4. l(r).n = loc[w].n /\ l(r).aff = loc[w].aff + more(r) BY <1>1, <2>3 DEF Loc
  <2> HIDE DEF l
  <2>5. pc'[w] = "delete" /\ loc'[w].n = loc[w].n /\ loc'[w].aff = loc[w].aff + more(r)
    BY <1>1, <2>1, <2>4
  <2>6. loc'[w].aff = 0 => loc[w].aff = 0 /\ now(r) = {} BY <1>1, <2>3, <2>5
  <2>7. now(r) = {} => tx'[w].locked = tx[w].locked
    <3>1. tx'[w].locked = tx[w].locked \cup {x.id : x \in now(r) \cup {}}
      BY <1>1, <2>1, WriteMeans
    <3> QED BY <3>1
  <2> QED BY <1>1, <2>2, <2>5, <2>6, <2>7 DEF Counted
<1>7. CASE DeleteNextItem(w)
  <2> DEFINE l == [loc[w] EXCEPT !.di = @ + 1]
  <2>1. l.n = loc[w].n /\ l.aff = loc[w].aff /\ l.ri = loc[w].ri BY <1>1 DEF Loc
  <2>2. /\ Goto(w, "records", l) \/ NextRecord(w, loc[w].aff)
        /\ pc[w] = "delete" /\ tx' = tx
    BY <1>7 DEF DeleteNextItem
  <2> HIDE DEF l
  <2>3. loc[w].ri \in DOMAIN recs[w] BY <2>2 DEF IInv, Control, Placed
  <2>4. DOMAIN recs'[w] = DOMAIN recs[w]
    BY <1>1, <1>7 DEF DeleteNextItem, StripItem, TypeOK
  <2>5. CASE Goto(w, "records", l)
    BY <1>1, <2>1, <2>2, <2>3, <2>4, <2>5 DEF Counted
  <2>6. CASE NextRecord(w, loc[w].aff)
    <3>1. /\ pc'[w] = "records" /\ loc'[w].aff = 0
          /\ loc'[w].n = loc[w].n + loc[w].aff
      BY <1>1, <2>6 DEF NextRecord
    <3>2. loc'[w].n = 0 => loc[w].n = 0 /\ loc[w].aff = 0 BY <1>1, <3>1
    <3> QED BY <1>1, <2>2, <3>1, <3>2 DEF Counted
  <2> QED BY <2>2, <2>5, <2>6
<1>8. CASE CreateRecord(w) \/ ReplaceInsert(w)
  <2>1. loc[w].ri \in DOMAIN recs[w]
    BY <1>8 DEF CreateRecord, AtRecord, ReplaceInsert, IInv, Control, Placed
  <2>2. Rec(w) \in Record /\ loc[w].db \in Orm
    BY <1>1, <1>8, <2>1, RecTyped
    DEF CreateRecord, AtRecord, ReplaceInsert, IInv, Control, Placed, Running
  <2>3. Len(Rec(w).data) \in Nat /\ Rec(w).data \in Seq(Seq(Field))
    BY <1>1, <2>2, NewRowsTyped DEF Record
  <2>4. PICK n \in Nat : n > 0 /\ NextRecord(w, n)
    <3>1. CASE CreateRecord(w)
      <4>1. Rec(w).data # <<>> BY <3>1 DEF CreateRecord
      <4>2. Len(Rec(w).data) > 0 BY <2>3, <4>1, EmptySeq
      <4> QED BY <2>3, <3>1, <4>2 DEF CreateRecord
    <3>2. CASE ReplaceInsert(w)
      <4>1. loc[w].aff + Len(Rec(w).data) > 0 /\ loc[w].aff + Len(Rec(w).data) \in Nat
        BY <1>1, <2>3, <3>2 DEF ReplaceInsert
      <4> QED BY <3>2, <4>1 DEF ReplaceInsert
    <3> QED BY <1>8, <3>1, <3>2
  <2>5. pc'[w] = "records" /\ loc'[w].aff = 0 /\ loc'[w].n = loc[w].n + n
    BY <1>1, <2>4 DEF NextRecord
  <2>6. loc'[w].n # 0 BY <1>1, <2>4, <2>5
  <2> QED BY <2>5, <2>6 DEF Counted
<1>9. \/ FindDomain(w) \/ EndOfRecords(w) \/ InsertDomain(w) \/ SelectOwned(w)
      \/ UpdateOwner(w) \/ ReadSoa(w) \/ SaveSoa(w)
      \/ SoaVanished(w) \/ InsertSoa(w) \/ InsertNothing(w)
      => pc'[w] \notin {"begin", "records", "delete"}
  BY WorkGoes
<1> QED BY <1>2, <1>3, <1>4, <1>5, <1>6, <1>7, <1>8, <1>9 DEF Work

\* An id that w means to update and does not see is not in the database.
LEMMA BackWork ==
  ASSUME IInv, NEW w \in Handler, OneSoa(w), Work(w), rows' = rows PROVE Back(w)'
<1>1. /\ TypeOK /\ \A p, l : Goto(w, p, l) => pc'[w] = p /\ loc'[w] = l
  BY GotoMeans DEF IInv
<1>2. CASE SoaVanished(w)
  <2>1. PICK x \in loc[w].soa : /\ \A now \in ViewOf(w) : now.id # x.id
                                /\ Goto(w, "insert", loc[w])
    BY <1>2 DEF SoaVanished
  <2>2. pc[w] = "save" /\ loc'[w] = loc[w] BY <1>1, <1>2, <2>1 DEF SoaVanished
  <2>3. loc[w].soa = {x} BY DEF OneSoa
  <2>4. ASSUME NEW r \in rows[loc[w].db], r.id = x.id PROVE FALSE
    <3>1. x.id \in tx[w].locked BY <2>1, <2>4 DEF ViewOf
    <3>2. Written(w, x.id) BY <2>1, <2>2, <3>1 DEF IInv, Control, Placed
    <3> QED BY <2>1, <3>2 DEF Written, ViewOf
  <2> QED BY <2>2, <2>3, <2>4 DEF Back
<1>3. ~SoaVanished(w) => pc'[w] # "insert"
  BY WorkGoes DEF Work
<1> QED BY <1>2, <1>3 DEF Back

\* What a handler writes for a token is new to the database, or stands for a
\* row that the handler sees a token own.
LEMMA NewWrites ==
  ASSUME IInv, NEW u \in Handler, Work(u), NEW d, d = loc[u].db,
         NEW y \in tx'[u].writes, y.owner # NoOwner, ~InRows(d, y.id)
  PROVE  \/ y \in tx[u].writes \/ y.id >= nextId[d]
         \/ \E z \in tx[u].writes : z.id = y.id /\ z.owner # NoOwner
<1>1. TypeOK BY DEF IInv
<1>2. \A z \in ViewOf(u) : z.id = y.id => z \in tx[u].writes BY DEF ViewOf, InRows
<1>3. CASE tx' = tx BY <1>3
<1>4. CASE InsertDomain(u)
  <2>1. tx'[u] = [tx[u] EXCEPT !.made = {req[u].domain}] /\ tx[u] \in Tx
    BY <1>1, <1>4 DEF InsertDomain, TypeOK
  <2> QED BY <2>1 DEF Tx
<1>5. CASE DeleteRow(u)
  <2>1. PICK gone : Write(u, gone, {}) BY <1>5 DEF DeleteRow
  <2>2. tx'[u].writes = (tx[u].writes \ gone) \cup {} BY <1>1, <2>1, WriteMeans
  <2> QED BY <2>2
<1>6. CASE UpdateOwner(u)
  <2> DEFINE now(r) == {x \in ViewOf(u) : x.id = r.id /\ x.owner # NoOwner}
             handed(r) == [r EXCEPT !.owner = req[u].newToken]
             new(r) == IF now(r) = {} THEN {} ELSE {handed(r)}
  <2>1. PICK r \in loc[u].cand : Write(u, now(r), new(r)) BY <1>6 DEF UpdateOwner
  <2>2. r \in Row BY <1>1, LocFields
  <2>3. handed(r).id = r.id BY <2>2 DEF Row
  <2>4. y \in new(r) => \E z \in ViewOf(u) : z.id = y.id /\ z.owner # NoOwner
    <3> SUFFICES ASSUME y \in new(r) PROVE \E z \in now(r) : y.id = r.id OBVIOUS
    <3> HIDE DEF handed
    <3> QED BY <2>3
  <2> HIDE DEF now, new, handed
  <2>5. tx'[u].writes = (tx[u].writes \ now(r)) \cup new(r) BY <1>1, <2>1, WriteMeans
  <2> QED BY <1>2, <2>4, <2>5
<1>7. CASE CreateRecord(u) \/ ReplaceInsert(u)
  <2>1. loc[u].ri \in DOMAIN recs[u] /\ loc[u].db \in Orm /\ Insert(u)
    BY <1>7 DEF CreateRecord, AtRecord, ReplaceInsert, IInv, Control, Placed, Running
  <2>2. Rec(u) \in Record BY <1>1, <2>1, RecTyped
  <2>3. tx'[u].writes = (tx[u].writes \ {}) \cup NewRows(u)
    BY <1>1, <2>1, WriteMeans DEF Insert
  <2>4. y \in NewRows(u) => nextId[d] <= y.id BY <1>1, <2>1, <2>2, NewRowsFresh
  <2>5. y \in NewRows(u) => y.id \in Nat /\ nextId[d] \in Nat
    BY <1>1, <2>1, <2>2, NewRowsTyped DEF Row, TypeOK
  <2> QED BY <2>3, <2>4, <2>5
<1>8. CASE SaveSoa(u)
  <2> DEFINE saved(x, now) == [x EXCEPT !.owner = now.owner]
  <2>1. PICK x \in loc[u].soa, now \in ViewOf(u) :
               now.id = x.id /\ Write(u, {now}, {saved(x, now)})
    BY <1>8 DEF SaveSoa
  <2>2. x \in Row BY <1>1, LocFields
  <2>3. saved(x, now).id = now.id /\ saved(x, now).owner = now.owner BY <2>1, <2>2 DEF Row
  <2> HIDE DEF saved
  <2>4. tx'[u].writes = (tx[u].writes \ {now}) \cup {saved(x, now)} BY <1>1, <2>1, WriteMeans
  <2> QED BY <1>2, <2>3, <2>4
<1>9. CASE InsertSoa(u)
  <2> DEFINE put(x) == [x EXCEPT !.owner = NoOwner]
  <2>1. PICK x \in loc[u].soa : Write(u, {}, {put(x)}) BY <1>9 DEF InsertSoa
  <2>2. x \in Row BY <1>1, LocFields
  <2>3. put(x).owner = NoOwner BY <2>2 DEF Row
  <2> HIDE DEF put
  <2>4. tx'[u].writes = (tx[u].writes \ {}) \cup {put(x)} BY <1>1, <2>1, WriteMeans
  <2> QED BY <2>3, <2>4
<1>10. \/ FindDomain(u) \/ BeginRecords(u) \/ DeletedAll(u) \/ EndOwner(u)
       \/ EndOfRecords(u) \/ DeleteNextItem(u) \/ SelectOwned(u) \/ StartDelete(u)
       \/ ReadSoa(u) \/ SoaVanished(u) \/ InsertNothing(u)
       => tx' = tx
  BY DEF FindDomain, BeginRecords, DeletedAll, EndOwner, EndOfRecords, DeleteNextItem,
         SelectOwned, StartDelete, ReadSoa, SoaVanished, InsertNothing, OnlyLoc
<1> QED BY <1>3, <1>4, <1>5, <1>6, <1>7, <1>8, <1>9, <1>10 DEF Work

\* So no other handler holds an SOA under such an id.
LEMMA FreshWork ==
  ASSUME IInv, NEW u \in Handler, Fresh(u), Work(u), OthersKeep(u), rows' = rows,
         loc[u].db \in Orm, loc'[u].db = loc[u].db
  PROVE  Fresh(u)'
<1> DEFINE d == loc[u].db
<1> SUFFICES ASSUME NEW v \in Handler \ {u}, loc[v].db = d,
                    NEW y \in tx'[u].writes, y.owner # NoOwner, ~InRows(d, y.id),
                    NEW x \in loc[v].soa, x.id = y.id
             PROVE  FALSE
  BY DEF Fresh, InRows, OthersKeep
<1>1. x.id < nextId[d] /\ x.id \in Nat /\ nextId[d] \in Nat
  <2>1. x \in Versions(d) BY VersionsOf DEF Held
  <2>2. x \in Row BY LocFields DEF IInv
  <2> QED BY <2>1, <2>2 DEF IInv, RowIdentity, TypeOK, Row
<1>2. ~(y.id >= nextId[d]) BY <1>1
<1>3. \E z \in tx[u].writes : z.id = y.id /\ z.owner # NoOwner BY <1>2, NewWrites
<1> QED BY <1>3 DEF Fresh

\* Nor does a handler take up an SOA that another one is about to bring in.
LEMMA FreshForOthers ==
  ASSUME IInv, NEW u \in Handler, Work(u), OthersKeep(u), rows' = rows,
         NEW w \in Handler \ {u}, Running(w), Running(u), Fresh(w)
  PROVE  Fresh(w)'
<1> DEFINE d == loc[w].db
<1> SUFFICES ASSUME loc'[u].db = d,
                    NEW y \in tx[w].writes, y.owner # NoOwner, ~InRows(d, y.id),
                    NEW x \in loc'[u].soa, x.id = y.id
             PROVE  FALSE
  BY DEF Fresh, InRows, OthersKeep
<1>1. CASE ~ReadSoa(u)
  BY <1>1, SoaWork DEF Fresh
<1>2. CASE ReadSoa(u)
  <2> DEFINE stamped(z) == [z EXCEPT !.content = <<GenerateNewSerial(z.content[1], today)>>]
             l(z) == [loc[u] EXCEPT !.soa = {stamped(z)}]
  <2>1. PICK z \in Soas(u) : Goto(u, "save", l(z)) BY <1>2 DEF ReadSoa
  <2>2. TypeOK /\ loc[u].db \in Orm BY DEF IInv, Control, Placed
  <2>3. z \in ViewOf(u) /\ z \in Row BY <2>2, ViewTyped DEF Soas
  <2>4. stamped(z).id = z.id BY <2>3 DEF Row
  <2> HIDE DEF stamped
  <2>5. l(z).soa = {stamped(z)} /\ l(z).db = loc[u].db BY <2>2, LocFields DEF Loc
  <2> HIDE DEF l
  <2>6. loc'[u] = l(z) BY <2>1, <2>2, GotoMeans
  <2>7. x.id = z.id /\ loc[u].db = d BY <2>4, <2>5, <2>6
  <2>8. z \in tx[u].writes BY <2>3, <2>7 DEF ViewOf, InRows
  <2>9. z.id \in tx[u].locked /\ y.id \in tx[w].locked /\ ~LockedByOther(w, y.id)
    BY <2>8 DEF IInv, OpenTransactions, Open
  <2> QED BY <2>7, <2>9 DEF LockedByOther
<1> QED BY <1>1, <1>2

\* A copy of an SOA is an SOA of the same zone.
LEMMA CopyIsSoa ==
  ASSUME IInv, NEW w \in Handler, NEW v \in Handler, loc[v].db \in Orm, loc[v].db = loc[w].db,
         NEW a \in rows[loc[w].db] \cup Held(w), NEW b \in rows[loc[v].db] \cup Held(v),
         a.id = b.id, NEW u \in Handler, IsSoa(u, a)
  PROVE  IsSoa(u, b)
<1>1. SameRow(a, b) BY VersionsOf DEF IInv, RowIdentity
<1> QED BY <1>1 DEF SameRow, IsSoa

\* The way to the commit of an edit that has changed something leads by an SOA.
LEMMA KeptWork ==
  ASSUME IInv, NEW w \in Handler, OneSoa(w), Counted(w), Back(w), Work(w),
         rows' = rows, req' = req
  PROVE  Kept(w)'
<1>1. /\ TypeOK /\ loc[w].n \in Nat
      /\ \A p, l : Goto(w, p, l) => pc'[w] = p /\ loc'[w] = l
  BY GotoMeans, LocFields DEF IInv
<1>2. Edits(w)' = Edits(w) /\ \A s : IsSoa(w, s)' = IsSoa(w, s)
  BY DEF Edits, Cmd, IsSoa
<1>3. CASE pc'[w] # "commit" BY <1>3 DEF Kept
<1>4. CASE FindDomain(w) \/ InsertDomain(w)
  <2>1. ~Edits(w)
    BY <1>4 DEF FindDomain, InsertDomain, Edits, IInv, Control, Placed, Running, Places
  <2> QED BY <1>2, <2>1 DEF Kept
<1>5. CASE EndOfRecords(w) /\ pc'[w] = "commit"
  <2>1. pc[w] = "records" /\ loc[w].ri \notin DOMAIN recs[w] /\ tx' = tx
    BY <1>5 DEF EndOfRecords, OnlyLoc
  <2>2. ~(loc[w].n > 0 /\ Cmd(w) # "replace_owner") BY <1>1, <1>5 DEF EndOfRecords
  <2>3. Edits(w) => loc[w].n = 0 BY <1>1, <2>2 DEF Edits
  <2>4. Edits(w) => tx[w].locked = {} BY <2>1, <2>3 DEF Counted
  <2> QED BY <1>2, <2>1, <2>4 DEF Kept
<1>6. CASE SaveSoa(w) \/ InsertSoa(w)
  <2> DEFINE put(x, o) == [x EXCEPT !.owner = o]
  <2>1. \E x \in loc[w].soa : \E o, gone : Write(w, gone, {put(x, o)})
    <3>1. CASE SaveSoa(w)
      <4>1. PICK x \in loc[w].soa, now \in ViewOf(w) : Write(w, {now}, {put(x, now.owner)})
        BY <3>1 DEF SaveSoa
      <4> QED BY <4>1
    <3>2. CASE InsertSoa(w)
      <4>1. PICK x \in loc[w].soa : Write(w, {}, {put(x, NoOwner)}) BY <3>2 DEF InsertSoa
      <4> QED BY <4>1
    <3> QED BY <1>6, <3>1, <3>2
  <2>2. PICK x \in loc[w].soa : \E o, gone : Write(w, gone, {put(x, o)}) BY <2>1
  <2>3. PICK o, gone : Write(w, gone, {put(x, o)}) BY <2>2
  <2>4. x \in Row /\ IsSoa(w, x) BY <1>1, LocFields DEF IInv, Control, Placed, IsSoa
  <2>5. IsSoa(w, put(x, o)) BY <2>4 DEF Row, IsSoa
  <2> HIDE DEF put
  <2>6. tx'[w].writes = (tx[w].writes \ gone) \cup {put(x, o)} BY <1>1, <2>3, WriteMeans
  <2> QED BY <1>2, <2>5, <2>6 DEF Kept
<1>7. CASE InsertNothing(w)
  <2>1. /\ pc[w] = "insert" /\ loc'[w] = loc[w] /\ tx' = tx /\ Running(w)
        /\ loc[w].db \in Orm
    BY <1>1, <1>7 DEF InsertNothing, OnlyLoc, Running, IInv, Control, Placed
  <2>2. PICK x \in loc[w].soa, r \in rows[loc[w].db] : r.id = x.id
    BY <1>7 DEF InsertNothing, SoaIsBack
  <2>3. IsSoa(w, x) BY DEF IInv, Control, Placed, IsSoa
  <2>4. CASE x.id \in tx[w].locked
    <3>1. PICK y \in tx[w].writes : y.id = x.id
      BY <2>1, <2>4 DEF IInv, Control, Placed, Written
    <3>2. IsSoa(w, y) BY <2>1, <2>3, <3>1, CopyIsSoa DEF Held
    <3> QED BY <1>2, <2>1, <3>1, <3>2 DEF Kept
  <2>5. CASE x.id \notin tx[w].locked
    <3>1. IsSoa(w, r) BY <2>1, <2>2, <2>3, CopyIsSoa DEF Held
    <3>2. r.owner = NoOwner BY <2>1, <2>2 DEF Back
    <3> QED BY <1>2, <2>1, <2>2, <2>5, <3>1, <3>2 DEF Kept
  <2> QED BY <2>4, <2>5
<1> QED BY <1>3, <1>4, <1>5, <1>6, <1>7, WorkGoes DEF Work

-----------------------------------------------------------------------------
(* What a commit does to the others' parts.                                *)

\* What a handler has locked, another one's commit leaves there.
LEMMA CommitKeepsLocked ==
  ASSUME IInv, NEW u \in Handler, Running(u), Apply(u), NEW v \in Handler \ {u}, Running(v),
         NEW d, d = loc[v].db, NEW r \in rows[d], r.id \in tx[v].locked
  PROVE  r \in rows'[d]
<1>1. TypeOK /\ loc[u].db \in Orm /\ d \in Orm BY DEF IInv, Control, Placed
<1>2. CASE loc[u].db # d BY <1>1, <1>2, ApplyMeans
<1>3. CASE loc[u].db = d
  <2>1. ~LockedByOther(v, r.id) BY DEF IInv, OpenTransactions, Open
  <2>2. r.id \notin tx[u].locked BY <1>3, <2>1 DEF LockedByOther
  <2> QED BY <1>1, <1>3, <2>2, ApplyMeans DEF ViewOf
<1> QED BY <1>2, <1>3

\* The id that a handler holds comes back as nobody's row.
LEMMA BackAfterCommit ==
  ASSUME IInv, NEW u \in Handler, Running(u), Apply(u), Fresh(u), OthersKeep(u),
         NEW v \in Handler \ {u}, Running(v), Back(v)
  PROVE  Back(v)'
<1> DEFINE d == loc[v].db
<1>1. TypeOK /\ loc[u].db \in Orm /\ loc[v].db \in Orm BY DEF IInv, Control, Placed
<1> SUFFICES ASSUME pc[v] = "insert", NEW x \in loc[v].soa, NEW r \in rows'[d], r.id = x.id
             PROVE  r.owner = NoOwner
  BY DEF Back, OthersKeep
<1>2. CASE r \in rows[d] BY <1>2 DEF Back
<1>3. CASE r \notin rows[d]
  <2>1. loc[u].db = d /\ r \in ViewOf(u) BY <1>1, <1>3, ApplyMeans
  <2>2. r \in tx[u].writes BY <1>3, <2>1 DEF ViewOf
  <2>3. CASE ~InRows(d, r.id) BY <2>1, <2>2, <2>3 DEF Fresh
  <2>4. CASE InRows(d, r.id)
    <3>1. PICK q \in rows[d] : q.id = r.id BY <2>4 DEF InRows
    <3>2. q.owner = NoOwner BY <3>1 DEF Back
    <3>3. RightfulUpdate(u, q, r) BY <1>3, <2>1, <3>1, Replaced
    <3> QED BY <3>2, <3>3 DEF RightfulUpdate
  <2> QED BY <2>3, <2>4
<1> QED BY <1>2, <1>3

\* Nobody deletes the SOA that is nobody's.
LEMMA KeptAfterCommit ==
  ASSUME IInv, NEW u \in Handler, Running(u), Apply(u), OthersKeep(u), req' = req,
         NEW v \in Handler \ {u}, Running(v), Kept(v)
  PROVE  Kept(v)'
<1> DEFINE d == loc[v].db
<1>1. TypeOK /\ loc[u].db \in Orm /\ loc[v].db \in Orm BY DEF IInv, Control, Placed
<1>2. /\ Edits(v)' = Edits(v) /\ \A s : IsSoa(v, s)' = IsSoa(v, s)
      /\ tx'[v] = tx[v] /\ loc'[v] = loc[v] /\ pc'[v] = pc[v]
  BY DEF Edits, Cmd, IsSoa, OthersKeep
<1> SUFFICES ASSUME NEW s \in rows[d], IsSoa(v, s), s.owner = NoOwner, s.id \notin tx[v].locked
             PROVE  \E y \in rows'[d] : /\ IsSoa(v, y) /\ y.owner = NoOwner
                                        /\ y.id \notin tx[v].locked
  BY <1>2 DEF Kept
<1>3. CASE s \in rows'[d] BY <1>3
<1>4. CASE s \notin rows'[d]
  <2>1. loc[u].db = d /\ rows'[d] = ViewOf(u) BY <1>1, <1>4, ApplyMeans
  <2>2. s.id \in tx[u].locked BY <1>4, <2>1 DEF ViewOf
  <2>3. Rightful(u) /\ req[u].token \in Token
    BY <1>1, LocFields DEF IInv, OpenTransactions, Open, RequestType
  <2>4. ~RightfulDelete(u, s)
    BY <2>3, OrmAssumption DEF OrmAssumption, RightfulDelete
  <2>5. PICK y \in tx[u].writes : y.id = s.id /\ RightfulUpdate(u, s, y)
    BY <2>1, <2>2, <2>3, <2>4 DEF Rightful
  <2>6. y \in rows'[d] /\ y.owner = NoOwner
    BY <2>1, <2>5 DEF RightfulUpdate, ViewOf
  <2>7. IsSoa(v, y) BY <1>1, <2>1, <2>5, CopyIsSoa DEF Held
  <2> QED BY <2>5, <2>6, <2>7
<1> QED BY <1>3, <1>4

\* What was in the database under an id that a handler has written stays there.
LEMMA FreshAfterCommit ==
  ASSUME IInv, NEW u \in Handler, Running(u), Apply(u), OthersKeep(u), loc'[u].soa = {},
         NEW v \in Handler \ {u}, Running(v), Fresh(v)
  PROVE  Fresh(v)'
<1> DEFINE d == loc[v].db
<1> SUFFICES ASSUME NEW w \in Handler \ {v}, loc'[w].db = d,
                    NEW y \in tx[v].writes, y.owner # NoOwner,
                    \A r \in rows'[d] : r.id # y.id,
                    NEW x \in loc'[w].soa, x.id = y.id
             PROVE  FALSE
  BY DEF Fresh, InRows, OthersKeep
<1>1. w # u /\ loc[w].db = d /\ x \in loc[w].soa BY DEF OthersKeep
<1>2. y.id \in tx[v].locked BY DEF IInv, OpenTransactions, Open
<1>3. ~InRows(d, y.id) BY <1>2, CommitKeepsLocked DEF InRows
<1> QED BY <1>1, <1>3 DEF Fresh

-----------------------------------------------------------------------------
(* The invariant, and what it is for.                                      *)

\* A statement of one handler keeps everybody's part.
LEMMA WorkKeeps ==
  ASSUME IInv, KInv, NEW u \in Handler, Work(u), OthersKeep(u), rows' = rows, req' = req,
         \A v \in Handler \ {u} : recs'[v] = recs[v]
  PROVE  KInv'
<1>1. Running(u) /\ loc[u].db \in Orm /\ loc'[u].db = loc[u].db
  <2>1. Running(u)
    BY DEF Work, FindDomain, BeginRecords, DeletedAll, EndOwner, EndOfRecords, InsertDomain,
           DeleteNextItem, SelectOwned, AtRecord, StartDelete, Deletes, DeleteRow, UpdateOwner,
           CreateRecord, ReplaceInsert, ReadSoa, SaveSoa, SoaVanished, InsertSoa,
           InsertNothing, Running
  <2> QED BY <2>1, WorkStays DEF IInv, Control, Placed
<1>2. OneSoa(u)' /\ Counted(u)' /\ Fresh(u)' /\ Back(u)' /\ Kept(u)'
  BY <1>1, OneSoaWork, CountedWork, FreshWork, BackWork, KeptWork DEF KInv
<1>3. ASSUME NEW v \in Handler \ {u}, Running(v)'
      PROVE  OneSoa(v)' /\ Counted(v)' /\ Fresh(v)' /\ Back(v)' /\ Kept(v)'
  <2>1. /\ Running(v) /\ tx'[v] = tx[v] /\ loc'[v] = loc[v] /\ pc'[v] = pc[v]
        /\ Edits(v)' = Edits(v) /\ \A s : IsSoa(v, s)' = IsSoa(v, s)
    BY <1>3 DEF OthersKeep, Running, Edits, Cmd, IsSoa
  <2>2. OneSoa(v) /\ Counted(v) /\ Fresh(v) /\ Back(v) /\ Kept(v) BY <2>1 DEF KInv
  <2>3. Fresh(v)' BY <1>1, <2>1, <2>2, FreshForOthers
  <2>4. OneSoa(v)' /\ Counted(v)' BY <2>1, <2>2 DEF OneSoa, Counted
  <2>5. Back(v)' /\ Kept(v)' BY <2>1, <2>2 DEF Back, Kept
  <2> QED BY <2>3, <2>4, <2>5
<1> QED BY <1>2, <1>3 DEF KInv

\* The end of a transaction of one handler keeps everybody's part.
LEMMA BetweenKeeps ==
  ASSUME IInv, KInv, NEW u \in Handler, Between(u), rows' = rows \/ Committed(u),
         OthersKeep(u), req' = req, \A v \in Handler \ {u} : recs'[v] = recs[v]
  PROVE  KInv'
<1>1. ASSUME Running(u)'
      PROVE  OneSoa(u)' /\ Counted(u)' /\ Fresh(u)' /\ Back(u)' /\ Kept(u)'
  <2>1. /\ tx'[u].writes = {} /\ loc'[u].soa = {} /\ pc'[u] = "begin" /\ loc'[u].aff = 0
    BY <1>1 DEF Between, NoTx
  <2> QED BY <2>1 DEF OneSoa, Counted, Fresh, Back, Kept
<1>2. ASSUME NEW v \in Handler \ {u}, Running(v)'
      PROVE  OneSoa(v)' /\ Counted(v)' /\ Fresh(v)' /\ Back(v)' /\ Kept(v)'
  <2>1. /\ Running(v) /\ tx'[v] = tx[v] /\ loc'[v] = loc[v] /\ pc'[v] = pc[v]
        /\ Edits(v)' = Edits(v) /\ \A s : IsSoa(v, s)' = IsSoa(v, s)
    BY <1>2 DEF OthersKeep, Running, Edits, Cmd, IsSoa
  <2>2. OneSoa(v) /\ Counted(v) /\ Fresh(v) /\ Back(v) /\ Kept(v) BY <2>1 DEF KInv
  <2>3. OneSoa(v)' /\ Counted(v)' BY <2>1, <2>2 DEF OneSoa, Counted
  <2>4. loc'[u].soa = {} BY DEF Between
  <2>5. CASE rows' = rows
    <3>1. Fresh(v)' BY <2>1, <2>2, <2>4, <2>5 DEF Fresh, InRows, OthersKeep
    <3>2. Back(v)' /\ Kept(v)' BY <2>1, <2>2, <2>5 DEF Back, Kept
    <3> QED BY <2>3, <3>1, <3>2
  <2>6. CASE Committed(u)
    <3>1. Running(u) /\ Apply(u) /\ Fresh(u) BY <2>6 DEF Committed, Running, KInv
    <3> QED
      BY <2>1, <2>2, <2>3, <2>4, <3>1, BackAfterCommit, KeptAfterCommit, FreshAfterCommit
  <2> QED BY <2>5, <2>6
<1> QED BY <1>1, <1>2 DEF KInv

LEMMA KeptInit == Init => KInv
BY DEF Init, KInv, Running

LEMMA KeptStep == ASSUME IInv, KInv, [Next]_vars PROVE KInv'
<1>1. CASE Die
  <2>1. \A w \in Handler : ~Running(w)' BY <1>1 DEF Die, Running
  <2> QED BY <2>1 DEF KInv
<1>2. CASE UNCHANGED <<rows, tx, req, recs, pc, loc>>
  BY <1>2
  DEF KInv, Running, OneSoa, Counted, Fresh, InRows, Back, Kept, IsSoa, Edits, Cmd
<1> QED BY <1>1, <1>2, StepKinds, WorkKeeps, BetweenKeeps

\* An edit leaves the rows of the other zones alone.
LEMMA EditKeepsOthers ==
  ASSUME IInv, NEW w \in Handler, Running(w), Edits(w), Apply(w),
         NEW d \in Orm, d = loc[w].db, NEW r \in rows[d], r.domain # req[w].domain
  PROVE  r \in rows'[d]
<1>1. /\ \A q \in Tenants!Vanished(d) : q.domain = req[w].domain
      /\ \A c \in Tenants!Changed(d) : c[1].domain = req[w].domain
  BY EditRefines DEF Tenants!Edit
<1>2. PICK y \in rows'[d] : y.id = r.id BY <1>1 DEF Tenants!Vanished
<1>3. <<r, y>> \in Tenants!Changed(d) => FALSE BY <1>1
<1> QED BY <1>2, <1>3 DEF Tenants!Changed

\* No commit leaves a zone that has an SOA without one.
LEMMA CommitKeepsSoa ==
  ASSUME IInv, NEW w \in Handler, pc[w] = "commit", Kept(w), Apply(w),
         NEW d \in Orm, NEW n \in DomainName, NEW r \in ZoneSoas(d, n)
  PROVE  ZoneSoas(d, n)' # {}
<1>1. /\ TypeOK /\ Running(w) /\ loc[w].db \in Orm /\ Open(w) /\ Placed(w)
      /\ Cmd(w) \in Command
  BY LocFields
  DEF IInv, Running, Control, Placed, OpenTransactions, Cmd, RequestType
<1>2. r \in rows[d] /\ r.domain = n /\ r.type = "SOA" BY DEF ZoneSoas
<1>3. CASE r \in rows'[d] BY <1>2, <1>3 DEF ZoneSoas
<1>4. CASE r \notin rows'[d]
  <2>1. d = loc[w].db /\ rows'[d] = ViewOf(w) BY <1>1, <1>2, <1>4, ApplyMeans
  <2>2. tx[w].locked # {} BY <1>2, <1>4, <2>1 DEF ViewOf
  <2>3. CASE Cmd(w) = "replace_owner"
    <3>1. PICK y \in rows'[d] : y.id = r.id
      BY <1>1, <1>2, <2>1, <2>3, HandoverRefines DEF Tenants!Handover, Tenants!Vanished
    <3>2. SameRow(r, y) BY <1>1, <1>2, <1>4, <2>1, <3>1, Replaced
    <3> QED BY <1>2, <3>1, <3>2 DEF SameRow, ZoneSoas
  <2>4. CASE Edits(w)
    <3>1. n = req[w].domain BY <1>1, <1>2, <1>4, <2>1, <2>4, EditKeepsOthers
    <3>2. PICK s \in ViewOf(w) : IsSoa(w, s) BY <2>1, <2>2, <2>4 DEF Kept, ViewOf
    <3> QED BY <2>1, <3>1, <3>2 DEF IsSoa, ZoneSoas
  <2>5. Cmd(w) # "create_domain" BY <1>1, <2>2 DEF Placed
  <2> QED BY <1>1, <2>3, <2>4, <2>5 DEF Edits, Command
<1> QED BY <1>3, <1>4

\* Nor does any other step.
LEMMA SoaStep ==
  ASSUME IInv, KInv, [Next]_vars, NEW d \in Orm, NEW n \in DomainName, ZoneSoas(d, n) # {}
  PROVE  ZoneSoas(d, n)' # {}
<1>1. CASE rows' = rows BY <1>1 DEF ZoneSoas
<1>2. ASSUME NEW w \in Handler, pc[w] = "commit", Apply(w) PROVE ZoneSoas(d, n)' # {}
  <2>1. Kept(w) BY <1>2 DEF KInv, Running
  <2>2. PICK r \in ZoneSoas(d, n) : TRUE OBVIOUS
  <2> QED BY <1>2, <2>1, <2>2, CommitKeepsSoa
<1> QED BY <1>1, <1>2, RowsChangeByCommit

\* ormUpdateSOA (orm.go:475-511) and the Save that inserts what it does not
\* find: however requests overlap, fail or are cut off, no transaction takes
\* the last SOA of a zone with it.
THEOREM SoaSurvival == Spec => SoaSurvives
<1>1. Init => IInv /\ KInv BY InitIInv, KeptInit
<1>2. IInv /\ [Next]_vars => IInv'
  BY TypeStep, IdentityStep, OpenStep, ControlStep DEF IInv
<1>3. IInv /\ KInv /\ [Next]_vars => KInv' BY KeptStep
<1>4. IInv /\ KInv /\ [Next]_vars =>
        [\A d \in Orm, n \in DomainName : ZoneSoas(d, n) # {} => ZoneSoas(d, n)' # {}]_vars
  BY SoaStep
<1> QED BY <1>1, <1>2, <1>3, <1>4, PTL DEF Spec, SoaSurvives

=============================================================================
