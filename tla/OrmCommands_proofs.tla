------------------------- MODULE OrmCommands_proofs -------------------------
(***************************************************************************)
(* Proofs about OrmCommands, for every value of its constants.             *)
(***************************************************************************)
EXTENDS OrmCommands, SequenceTheorems, TLAPS

-----------------------------------------------------------------------------
(* Lemmas about the operators.                                             *)

\* generateNewSerial returns a number whatever the old field held.
LEMMA SerialNat == ASSUME NEW old, NEW day \in Nat
                   PROVE  GenerateNewSerial(old, day) \in Nat
<1>1. DateSerial(day) \in Nat
  BY SerialsPerDayAssumption DEF DateSerial
<1> QED BY <1>1 DEF GenerateNewSerial, Atoi

\* The serial ormUpdateSOA writes is past the old one and of the day.
THEOREM SerialRises ==
  ASSUME NEW old \in Nat, NEW day \in Nat
  PROVE  /\ GenerateNewSerial(old, day) > old
         /\ GenerateNewSerial(old, day) >= DateSerial(day)
<1>1. DateSerial(day) \in Nat
  BY SerialsPerDayAssumption DEF DateSerial
<1> QED BY <1>1 DEF GenerateNewSerial, Atoi

\* The requests of an instance are records of the request type.
LEMMA RequestTyped == ASSUME NEW q \in Request PROVE q \in RequestType
BY OrmAssumption DEF OrmAssumption

\* Stripping the prio off a data string leaves a data string.
LEMMA ContentTyped == ASSUME NEW type, NEW d \in Seq(Field)
                      PROVE  Content(type, d) \in Seq(Field) /\ Prio(type, d) \in Nat
<1>1. d # <<>> => Tail(d) \in Seq(Field)
  BY HeadTailProperties
<1> QED BY <1>1 DEF Content, Prio, Atoi

\* Filling in the default ttl leaves the records well typed.
LEMMA WithTtlTyped == ASSUME NEW q \in RequestType PROVE WithTtl(q) \in Seq(Record)
<1>1. CASE q.cmd = "replace_owner"
  BY <1>1 DEF WithTtl, RequestType
<1>2. CASE q.cmd # "replace_owner"
  <2> DEFINE f == [i \in DOMAIN q.recs |->
                     [q.recs[i] EXCEPT !.ttl = IF @ = 0 THEN DefaultTtl ELSE @]]
  <2>1. q.recs \in Seq(Record) BY DEF RequestType
  <2>2. \A i \in DOMAIN q.recs : q.recs[i] \in Record BY <2>1
  <2>3. \A i \in DOMAIN q.recs : f[i] \in Record
    <3> TAKE i \in DOMAIN q.recs
    <3> DEFINE ttl == IF q.recs[i].ttl = 0 THEN DefaultTtl ELSE q.recs[i].ttl
    <3>1. q.recs[i] \in Record /\ ttl \in Nat BY <2>2 DEF Record, DefaultTtl
    <3>2. [q.recs[i] EXCEPT !.ttl = ttl] \in Record BY <3>1 DEF Record
    <3> QED BY <3>2
  <2>4. DOMAIN q.recs = 1 .. Len(q.recs) /\ Len(q.recs) \in Nat BY <2>1
  <2>5. f \in [1 .. Len(q.recs) -> Record] BY <2>3, <2>4
  <2>6. f \in Seq(Record) BY <2>4, <2>5
  <2> QED BY <1>2, <2>6 DEF WithTtl
<1> QED BY <1>1, <1>2

-----------------------------------------------------------------------------
(* Type correctness.                                                       *)

\* The variables have their types when the process starts.
LEMMA TypeInit == Init => TypeOK
<1> SUFFICES ASSUME Init PROVE TypeOK OBVIOUS
<1>1. PICK s \in InitialStore : zones = s.zones /\ rows = s.rows /\ nextId = s.nextId
  BY DEF Init
<1>2. s \in Store BY StoreAssumption DEF StoreAssumption, IsStore
<1>3. /\ zones \in [Orm -> [DomainName -> ZoneKind]]
      /\ rows \in [Orm -> SUBSET Row] /\ nextId \in [Orm -> Nat]
  BY <1>1, <1>2 DEF Store
<1>4. \A w \in Handler : req[w] \in RequestType BY RequestTyped DEF Init
<1>5. recs \in [Handler -> Seq(Record)] BY <1>4 DEF Init, RequestType
<1>6. NoTx \in Tx /\ NoLoc \in Loc BY DEF NoTx, NoLoc, LocAt, Tx, Loc
<1> QED BY <1>3, <1>5, <1>6, OrmAssumption DEF Init, TypeOK, Pc, OrmAssumption

\* Moving a handler to another statement keeps pc and loc typed.
LEMMA GotoTyped ==
  ASSUME TypeOK, NEW w \in Handler, NEW p \in Pc, NEW l \in Loc, Goto(w, p, l)
  PROVE  pc' \in [Handler -> Pc] /\ loc' \in [Handler -> Loc]
BY DEF TypeOK, Goto

\* A transaction sees rows only.
LEMMA ViewTyped ==
  ASSUME TypeOK, NEW w \in Handler, loc[w].db \in Orm
  PROVE  ViewOf(w) \subseteq Row
BY DEF TypeOK, ViewOf, Tx

\* What Write changes of the transactions: only w's, by the rows named.
LEMMA WriteMeans ==
  ASSUME TypeOK, NEW w \in Handler, NEW gone, NEW new, Write(w, gone, new)
  PROVE  /\ \A v \in Handler \ {w} : tx'[v] = tx[v]
         /\ tx'[w].locked = tx[w].locked \cup {x.id : x \in gone \cup new}
         /\ tx'[w].writes = (tx[w].writes \ gone) \cup new
         /\ tx'[w].made = tx[w].made
         /\ gone \cup new \subseteq Row => tx' \in [Handler -> Tx]
<1> DEFINE ids == tx[w].locked \cup {x.id : x \in gone \cup new}
           put == (tx[w].writes \ gone) \cup new
           t   == [locked |-> ids, writes |-> put, made |-> tx[w].made]
<1>1. tx \in [Handler -> Tx] /\ tx[w] \in Tx BY DEF TypeOK
<1>2. tx' = [tx EXCEPT ![w] = t] BY DEF Write
<1>3. ASSUME gone \cup new \subseteq Row PROVE t \in Tx
  <2>1. ids \in SUBSET Nat BY <1>1, <1>3 DEF Row, Tx
  <2>2. put \in SUBSET Row /\ tx[w].made \in SUBSET DomainName BY <1>1, <1>3 DEF Tx
  <2> HIDE DEF ids, put
  <2> QED BY <2>1, <2>2 DEF Tx
<1>4. t.locked = ids /\ t.writes = put /\ t.made = tx[w].made
  <2> HIDE DEF ids, put
  <2> QED OBVIOUS
<1>5. tx'[w] = t /\ (\A v \in Handler \ {w} : tx'[v] = tx[v])
  <2> HIDE DEF t
  <2> QED BY <1>1, <1>2
<1>6. t \in Tx => tx' \in [Handler -> Tx]
  <2> HIDE DEF t
  <2> QED BY <1>1, <1>2
<1> QED BY <1>3, <1>4, <1>5, <1>6

\* The fields of a handler's local variables have their types.
LEMMA LocFields ==
  ASSUME TypeOK, NEW w \in Handler
  PROVE  /\ loc[w] \in Loc /\ req[w] \in RequestType /\ tx[w] \in Tx
         /\ loc[w].ri \in Nat /\ loc[w].di \in Nat /\ loc[w].n \in Nat /\ loc[w].aff \in Nat
         /\ loc[w].cand \subseteq Row /\ loc[w].soa \subseteq Row
BY RequestTyped DEF TypeOK, Loc

\* The rows that create_record and replace_record insert are rows.
LEMMA NewRowsTyped ==
  ASSUME TypeOK, NEW w \in Handler, loc[w].db \in Orm, Rec(w) \in Record
  PROVE  /\ NewRows(w) \subseteq Row
         /\ DOMAIN Rec(w).data = 1 .. Len(Rec(w).data) /\ Len(Rec(w).data) \in Nat
<1>1. /\ Rec(w).data \in Seq(Seq(Field)) /\ Rec(w).name \in Label
      /\ Rec(w).type \in Type /\ Rec(w).ttl \in Nat
  BY DEF Record
<1>2. /\ DOMAIN Rec(w).data = 1 .. Len(Rec(w).data) /\ Len(Rec(w).data) \in Nat
      /\ \A i \in DOMAIN Rec(w).data : Rec(w).data[i] \in Seq(Field)
  BY <1>1
<1>3. req[w].domain \in DomainName /\ req[w].token \in Token
  BY LocFields DEF RequestType
<1>4. FullName(Rec(w).name) \in Label
  BY <1>1, OrmAssumption DEF FullName, OrmAssumption
<1>5. \A i \in DOMAIN Rec(w).data : NewRow(w, i) \in Row
  <2> TAKE i \in DOMAIN Rec(w).data
  <2>1. nextId[loc[w].db] \in Nat BY DEF TypeOK
  <2>2. nextId[loc[w].db] + i - 1 \in Nat BY <1>2, <2>1
  <2> QED BY <1>1, <1>2, <1>3, <1>4, <2>2, ContentTyped DEF NewRow, Row
<1> QED BY <1>2, <1>5 DEF NewRows

\* The record a handler is at is a record.
LEMMA RecTyped ==
  ASSUME TypeOK, NEW w \in Handler, loc[w].ri \in DOMAIN recs[w]
  PROVE  Rec(w) \in Record
BY DEF TypeOK, Rec

\* The values the statements give to the local variables are typed.
LEMMA LocTyped ==
  ASSUME TypeOK, NEW w \in Handler
  PROVE  /\ \A d \in Orm : LocAt(d, 1, 0) \in Loc
         /\ NoLoc \in Loc /\ NoTx \in Tx
         /\ \A S \in SUBSET Row : [loc[w] EXCEPT !.cand = S] \in Loc
         /\ \A S \in SUBSET Row : [loc[w] EXCEPT !.soa = S] \in Loc
         /\ \A S \in SUBSET Row, n \in Nat : [loc[w] EXCEPT !.cand = S, !.aff = n] \in Loc
         /\ [loc[w] EXCEPT !.di = @ + 1] \in Loc
         /\ \A n \in Nat : LocAt(loc[w].db, loc[w].ri + 1, loc[w].n + n) \in Loc
<1>1. loc[w] \in Loc BY DEF TypeOK
<1>2. NoLoc \in Loc /\ NoTx \in Tx BY DEF Loc, NoLoc, LocAt, NoTx, Tx
<1>3. \A d \in Orm : LocAt(d, 1, 0) \in Loc BY DEF Loc, Orm, LocAt
<1>4. \A S \in SUBSET Row : /\ [loc[w] EXCEPT !.cand = S] \in Loc
                            /\ [loc[w] EXCEPT !.soa = S] \in Loc
  BY <1>1 DEF Loc
<1>5. \A S \in SUBSET Row, n \in Nat : [loc[w] EXCEPT !.cand = S, !.aff = n] \in Loc
  BY <1>1 DEF Loc
<1>6. [loc[w] EXCEPT !.di = @ + 1] \in Loc
  BY <1>1 DEF Loc
<1>7. \A n \in Nat : LocAt(loc[w].db, loc[w].ri + 1, loc[w].n + n) \in Loc
  BY <1>1 DEF Loc, LocAt
<1> QED BY <1>2, <1>3, <1>4, <1>5, <1>6, <1>7

\* An error and its rollback keep the types.
LEMMA FailTyped == ASSUME TypeOK, NEW w \in Handler, Fail(w) PROVE TypeOK'
<1>1. NoLoc \in Loc /\ NoTx \in Tx BY LocTyped
<1>2. "done" \in Pc BY DEF Pc
<1> QED BY <1>1, <1>2, GotoTyped DEF TypeOK, Fail, Finish, database

\* A statement that only reads keeps the types.
LEMMA OnlyLocTyped ==
  ASSUME TypeOK, NEW w \in Handler, NEW p \in Pc, NEW l \in Loc, Goto(w, p, l), OnlyLoc
  PROVE  TypeOK'
BY GotoTyped DEF TypeOK, OnlyLoc, database

\* A statement that writes into its transaction keeps the types.
LEMMA OnlyTxTyped ==
  ASSUME TypeOK, NEW w \in Handler, NEW p \in Pc, NEW l \in Loc, Goto(w, p, l), OnlyTx,
         tx' \in [Handler -> Tx]
  PROVE  TypeOK'
BY GotoTyped DEF TypeOK, OnlyTx, database

\* The loop of ormApplyCommand keeps the types.
LEMMA NextDatabaseTyped ==
  ASSUME TypeOK, NEW w \in Handler, NEW d, NextDatabase(w, d)
  PROVE  /\ pc' \in [Handler -> Pc] /\ loc' \in [Handler -> Loc]
         /\ reply' \in [Handler -> {"none", "SUCCESS", "ERROR"}]
<1>1. "done" \in Pc /\ "begin" \in Pc BY DEF Pc
<1>2. CASE Finish(w, "SUCCESS")
  BY <1>1, <1>2, GotoTyped, LocTyped DEF Finish, TypeOK
<1>3. ASSUME NEW e \in Orm, Goto(w, "begin", LocAt(e, 1, 0)), UNCHANGED reply
      PROVE  pc' \in [Handler -> Pc] /\ loc' \in [Handler -> Loc]
  BY <1>1, <1>3, GotoTyped, LocTyped
<1> QED BY <1>2, <1>3 DEF NextDatabase, TypeOK

\* Making a transaction's writes visible keeps the types.
LEMMA ApplyTyped ==
  ASSUME TypeOK, NEW w \in Handler, loc[w].db \in Orm, Apply(w)
  PROVE  /\ rows' \in [Orm -> SUBSET Row] /\ tx' \in [Handler -> Tx]
         /\ zones' \in [Orm -> [DomainName -> ZoneKind]]
<1>1. rows' \in [Orm -> SUBSET Row]
  BY ViewTyped DEF TypeOK, Apply
<1>2. tx' \in [Handler -> Tx]
  BY LocTyped DEF TypeOK, Apply
<1>3. zones' \in [Orm -> [DomainName -> ZoneKind]]
  <2> DEFINE z == [n \in DomainName |->
                     IF n \in tx[w].made THEN "NATIVE" ELSE zones[loc[w].db][n]]
  <2>1. z \in [DomainName -> ZoneKind] BY DEF TypeOK, ZoneKind
  <2>2. zones' = [zones EXCEPT ![loc[w].db] = z] BY DEF Apply, TypeOK
  <2> HIDE DEF z
  <2> QED BY <2>1, <2>2 DEF TypeOK
<1> QED BY <1>1, <1>2, <1>3

\* An INSERT keeps the types.
LEMMA InsertTyped ==
  ASSUME TypeOK, NEW w \in Handler, loc[w].db \in Orm, Rec(w) \in Record, Insert(w)
  PROVE  tx' \in [Handler -> Tx] /\ nextId' \in [Orm -> Nat]
<1>1. NewRows(w) \subseteq Row /\ Len(Rec(w).data) \in Nat BY NewRowsTyped
<1>2. tx' \in [Handler -> Tx] BY <1>1, WriteMeans DEF Insert
<1>3. nextId' \in [Orm -> Nat] BY <1>1 DEF Insert, TypeOK
<1> QED BY <1>2, <1>3

\* The death of the process keeps the types.
LEMMA DieTyped == ASSUME TypeOK, Die, faults' \in Nat PROVE TypeOK'
<1>1. NoTx \in Tx /\ NoLoc \in Loc BY DEF NoTx, NoLoc, LocAt, Tx, Loc
<1> QED BY <1>1 DEF TypeOK, Die, database, Pc

\* The steps of handler w; IInv supplies where w is when it takes them.
LEMMA TypeHandle == ASSUME IInv, NEW w \in Handler, Handle(w) PROVE TypeOK'
<1> USE DEF IInv
<1>1. /\ loc[w] \in Loc /\ loc[w].cand \subseteq Row /\ loc[w].soa \subseteq Row
      /\ loc[w].aff \in Nat /\ loc[w].n \in Nat /\ req[w] \in RequestType
      /\ tx[w] \in Tx /\ req[w].domain \in DomainName
  BY LocFields DEF RequestType
<1>2. Running(w) => loc[w].db \in Orm BY DEF Control, Placed
<1>3. {"begin", "zone", "records", "delete", "owner", "soa", "save", "insert",
       "commit", "done"} \subseteq Pc
  BY DEF Pc
<1>4. FindDomain(w) => TypeOK'
  BY <1>1, <1>3, OnlyLocTyped DEF FindDomain
<1>5. InsertDomain(w) => TypeOK'
  <2> SUFFICES ASSUME InsertDomain(w) PROVE TypeOK' OBVIOUS
  <2>1. [tx[w] EXCEPT !.made = {req[w].domain}] \in Tx BY <1>1 DEF Tx
  <2>2. tx' \in [Handler -> Tx] BY <2>1 DEF InsertDomain, TypeOK
  <2> QED BY <1>1, <1>3, <2>2, OnlyTxTyped DEF InsertDomain
<1>6. BeginRecords(w) => TypeOK'
  BY <1>1, <1>3, OnlyLocTyped DEF BeginRecords
<1>7. CreateRecord(w) => TypeOK'
  <2> SUFFICES ASSUME CreateRecord(w) PROVE TypeOK' OBVIOUS
  <2>1. Rec(w) \in Record /\ loc[w].db \in Orm
    BY <1>2, RecTyped DEF CreateRecord, AtRecord, Running
  <2>2. Len(Rec(w).data) \in Nat BY <2>1, NewRowsTyped
  <2>3. LocAt(loc[w].db, loc[w].ri + 1, loc[w].n + Len(Rec(w).data)) \in Loc
    BY <2>2, LocTyped
  <2>4. tx' \in [Handler -> Tx] /\ nextId' \in [Orm -> Nat]
    BY <2>1, InsertTyped DEF CreateRecord
  <2> QED BY <1>3, <2>3, <2>4, GotoTyped DEF CreateRecord, NextRecord, OnlyNew, TypeOK
<1>8. StartDelete(w) => TypeOK'
  <2> SUFFICES ASSUME StartDelete(w) PROVE TypeOK' OBVIOUS
  <2>1. loc[w].db \in Orm BY <1>2 DEF StartDelete, Deletes, AtRecord, Running
  <2>2. {x \in ViewOf(w) : Matched(w, x)} \in SUBSET Row BY <2>1, ViewTyped
  <2>3. [loc[w] EXCEPT !.cand = {x \in ViewOf(w) : Matched(w, x)}] \in Loc
    BY <2>2, LocTyped
  <2> QED BY <1>3, <2>3, OnlyLocTyped DEF StartDelete
<1>9. DeleteRow(w) => TypeOK'
  <2> SUFFICES ASSUME DeleteRow(w) PROVE TypeOK' OBVIOUS
  <2>1. loc[w].db \in Orm BY <1>2 DEF DeleteRow, Running
  <2> DEFINE now(r) == {x \in ViewOf(w) : x.id = r.id /\ Matched(w, x)}
             aff(r) == loc[w].aff + (IF now(r) = {} THEN 0 ELSE 1)
             l(r)   == [loc[w] EXCEPT !.cand = @ \ {r}, !.aff = aff(r)]
  <2>2. PICK r \in loc[w].cand : Write(w, now(r), {}) /\ Goto(w, "delete", l(r))
    BY DEF DeleteRow
  <2>3. now(r) \subseteq Row BY <2>1, ViewTyped
  <2>4. aff(r) \in Nat BY <1>1
  <2>5. tx' \in [Handler -> Tx]
    <3> HIDE DEF now
    <3> QED BY <2>2, <2>3, WriteMeans
  <2>6. l(r) \in Loc
    <3> HIDE DEF aff
    <3>1. loc[w].cand \ {r} \in SUBSET Row BY <1>1
    <3> QED BY <3>1, <2>4, LocTyped
  <2> HIDE DEF l
  <2> QED BY <1>3, <2>2, <2>5, <2>6, OnlyTxTyped DEF DeleteRow
<1>10. DeletedAll(w) => TypeOK'
  <2>1. LocAt(loc[w].db, loc[w].ri + 1, loc[w].n + loc[w].aff) \in Loc
    BY <1>1, LocTyped
  <2> QED BY <1>3, <2>1, OnlyLocTyped DEF DeletedAll, NextRecord
<1>11. DeleteNextItem(w) => TypeOK'
  <2> SUFFICES ASSUME DeleteNextItem(w) PROVE TypeOK' OBVIOUS
  <2>1. loc[w].ri \in DOMAIN recs[w] /\ recs[w] \in Seq(Record)
    BY DEF DeleteNextItem, Control, Placed, TypeOK
  <2>2. Rec(w) \in Record /\ Rec(w).data # <<>> BY <2>1, RecTyped DEF DeleteNextItem, ByItem
  <2>3. Rec(w).data \in Seq(Seq(Field)) BY <2>2 DEF Record
  <2>4. loc[w].di \in DOMAIN Rec(w).data
    BY <2>1, <2>2, <2>3, EmptySeq DEF DeleteNextItem, Control, Placed
  <2> DEFINE item == Content(Rec(w).type, Rec(w).data[loc[w].di])
             data == [Rec(w).data EXCEPT ![loc[w].di] = item]
             r    == [Rec(w) EXCEPT !.data = data]
  <2>5. item \in Seq(Field) BY <2>3, <2>4, ContentTyped
  <2>6. data \in Seq(Seq(Field))
    <3> HIDE DEF item
    <3> QED BY <2>3, <2>4, <2>5
  <2>7. r \in Record
    <3> HIDE DEF data
    <3> QED BY <2>2, <2>6 DEF Record
  <2>8. recs' = [recs EXCEPT ![w] = [recs[w] EXCEPT ![loc[w].ri] = r]]
    BY DEF DeleteNextItem, StripItem, Rec
  <2>9. recs' \in [Handler -> Seq(Record)]
    <3> HIDE DEF r
    <3>1. [recs[w] EXCEPT ![loc[w].ri] = r] \in Seq(Record) BY <2>1, <2>7
    <3> QED BY <2>8, <3>1 DEF TypeOK
  <2>10. [loc[w] EXCEPT !.di = @ + 1] \in Loc
    BY LocTyped
  <2>11. LocAt(loc[w].db, loc[w].ri + 1, loc[w].n + loc[w].aff) \in Loc
    BY <1>1, LocTyped
  <2> QED BY <1>3, <2>9, <2>10, <2>11, GotoTyped
          DEF DeleteNextItem, NextRecord, TypeOK, database
<1>12. ReplaceInsert(w) => TypeOK'
  <2> SUFFICES ASSUME ReplaceInsert(w) PROVE TypeOK' OBVIOUS
  <2>1. Rec(w) \in Record /\ loc[w].db \in Orm
    BY <1>2, RecTyped DEF ReplaceInsert, Control, Placed, Running
  <2>2. loc[w].aff + Len(Rec(w).data) \in Nat BY <1>1, <2>1, NewRowsTyped
  <2>3. LocAt(loc[w].db, loc[w].ri + 1, loc[w].n + (loc[w].aff + Len(Rec(w).data))) \in Loc
    BY <2>2, LocTyped
  <2>4. tx' \in [Handler -> Tx] /\ nextId' \in [Orm -> Nat]
    BY <2>1, InsertTyped DEF ReplaceInsert
  <2> QED BY <1>3, <2>3, <2>4, GotoTyped DEF ReplaceInsert, NextRecord, OnlyNew, TypeOK
<1>13. SelectOwned(w) => TypeOK'
  <2> SUFFICES ASSUME SelectOwned(w) PROVE TypeOK' OBVIOUS
  <2>1. loc[w].db \in Orm BY <1>2 DEF SelectOwned, AtRecord, Running
  <2>2. {x \in ViewOf(w) : Owned(w, x)} \in SUBSET Row BY <2>1, ViewTyped
  <2>3. [loc[w] EXCEPT !.cand = {x \in ViewOf(w) : Owned(w, x)}] \in Loc
    BY <2>2, LocTyped
  <2> QED BY <1>3, <2>3, OnlyLocTyped DEF SelectOwned
<1>14. UpdateOwner(w) => TypeOK'
  <2> SUFFICES ASSUME UpdateOwner(w) PROVE TypeOK' OBVIOUS
  <2>1. loc[w].db \in Orm /\ Cmd(w) = "replace_owner"
    BY <1>2 DEF UpdateOwner, Running, Control, Placed, Places
  <2>2. req[w].newToken \in Token BY <2>1 DEF UpdateOwner, Control, Placed
  <2> DEFINE now(r) == {x \in ViewOf(w) : x.id = r.id /\ x.owner # NoOwner}
             new(r) == IF now(r) = {} THEN {} ELSE {[r EXCEPT !.owner = req[w].newToken]}
             aff(r) == loc[w].aff + (IF now(r) = {} THEN 0 ELSE 1)
             l(r)   == [loc[w] EXCEPT !.cand = @ \ {r}, !.aff = aff(r)]
  <2>3. PICK r \in loc[w].cand : Write(w, now(r), new(r)) /\ Goto(w, "owner", l(r))
    BY DEF UpdateOwner
  <2>4. [r EXCEPT !.owner = req[w].newToken] \in Row BY <1>1, <2>2 DEF Row
  <2>5. now(r) \cup new(r) \subseteq Row BY <2>1, <2>4, ViewTyped
  <2>6. aff(r) \in Nat BY <1>1
  <2>7. tx' \in [Handler -> Tx]
    <3> HIDE DEF now, new
    <3> QED BY <2>3, <2>5, WriteMeans
  <2>8. l(r) \in Loc
    <3> HIDE DEF aff
    <3>1. loc[w].cand \ {r} \in SUBSET Row BY <1>1
    <3> QED BY <3>1, <2>6, LocTyped
  <2> HIDE DEF l
  <2> QED BY <1>3, <2>3, <2>7, <2>8, OnlyTxTyped DEF UpdateOwner
<1>15. EndOwner(w) => TypeOK'
  <2>1. LocAt(loc[w].db, loc[w].ri + 1, loc[w].n + loc[w].aff) \in Loc
    BY <1>1, LocTyped
  <2> QED BY <1>3, <2>1, OnlyLocTyped DEF EndOwner, NextRecord
<1>16. EndOfRecords(w) => TypeOK'
  BY <1>1, <1>3, OnlyLocTyped DEF EndOfRecords
<1>17. ReadSoa(w) => TypeOK'
  <2> SUFFICES ASSUME ReadSoa(w) PROVE TypeOK' OBVIOUS
  <2>1. loc[w].db \in Orm BY <1>2 DEF ReadSoa, Running
  <2> DEFINE stamped(x) == [x EXCEPT !.content = <<GenerateNewSerial(x.content[1], today)>>]
  <2>2. PICK x \in Soas(w) : Goto(w, "save", [loc[w] EXCEPT !.soa = {stamped(x)}])
    BY DEF ReadSoa
  <2>3. x \in Row BY <2>1, ViewTyped DEF Soas
  <2>4. GenerateNewSerial(x.content[1], today) \in Field
    BY SerialNat DEF TypeOK, Field
  <2>5. <<GenerateNewSerial(x.content[1], today)>> \in Seq(Field)
    BY <2>4
  <2>6. stamped(x) \in Row BY <2>3, <2>5 DEF Row
  <2> HIDE DEF stamped
  <2>7. [loc[w] EXCEPT !.soa = {stamped(x)}] \in Loc BY <2>6, LocTyped
  <2> QED BY <1>3, <2>2, <2>7, OnlyLocTyped DEF ReadSoa
<1>18. SaveSoa(w) => TypeOK'
  <2> SUFFICES ASSUME SaveSoa(w) PROVE TypeOK' OBVIOUS
  <2>1. loc[w].db \in Orm BY <1>2 DEF SaveSoa, Running
  <2>2. PICK x \in loc[w].soa, now \in ViewOf(w) :
               Write(w, {now}, {[x EXCEPT !.owner = now.owner]}) /\ Goto(w, "commit", loc[w])
    BY DEF SaveSoa
  <2>3. now \in Row /\ x \in Row BY <1>1, <2>1, ViewTyped
  <2>4. [x EXCEPT !.owner = now.owner] \in Row BY <2>3 DEF Row
  <2>5. tx' \in [Handler -> Tx] BY <2>2, <2>3, <2>4, WriteMeans
  <2> QED BY <1>1, <1>3, <2>2, <2>5, OnlyTxTyped DEF SaveSoa
<1>19. SoaVanished(w) => TypeOK'
  BY <1>1, <1>3, OnlyLocTyped DEF SoaVanished
<1>20. InsertSoa(w) => TypeOK'
  <2> SUFFICES ASSUME InsertSoa(w) PROVE TypeOK' OBVIOUS
  <2>1. PICK x \in loc[w].soa :
               Write(w, {}, {[x EXCEPT !.owner = NoOwner]}) /\ Goto(w, "commit", loc[w])
    BY DEF InsertSoa
  <2>2. [x EXCEPT !.owner = NoOwner] \in Row BY <1>1 DEF Row
  <2>3. tx' \in [Handler -> Tx] BY <2>1, <2>2, WriteMeans
  <2> QED BY <1>1, <1>3, <2>1, <2>3, OnlyTxTyped DEF InsertSoa
<1>21. InsertNothing(w) => TypeOK'
  BY <1>1, <1>3, OnlyLocTyped DEF InsertNothing
<1>22. Commit(w) => TypeOK'
  <2> SUFFICES ASSUME Commit(w) PROVE TypeOK' OBVIOUS
  <2>1. loc[w].db \in Orm BY <1>2 DEF Commit, Running
  <2> QED BY <2>1, ApplyTyped, NextDatabaseTyped DEF Commit, Apply, TypeOK
<1>23. Panic(w) => TypeOK'
  BY DieTyped DEF Panic, TypeOK
<1>24. Fail(w) => TypeOK'
  BY FailTyped
<1> QED
  BY <1>4, <1>5, <1>6, <1>7, <1>8, <1>9, <1>10, <1>11, <1>12, <1>13, <1>14, <1>15, <1>16,
     <1>17, <1>18, <1>19, <1>20, <1>21, <1>22, <1>23, <1>24
  DEF Handle, DomainConflict, CannotBegin, EmptyData, CreateConflict, ReplaceMissing,
      NothingOwned, NoSoa, InsertConflict, DeadlockAbort

\* No step whatever breaks the types.
LEMMA TypeStep == IInv /\ [Next]_vars => TypeOK'
<1> SUFFICES ASSUME IInv, [Next]_vars PROVE TypeOK' OBVIOUS
<1>1. ASSUME NEW w \in Handler, Deliver(w) PROVE TypeOK'
  <2>1. req[w] \in RequestType BY LocFields DEF IInv
  <2>2. recs' \in [Handler -> Seq(Record)]
    BY <1>1, <2>1, WithTtlTyped DEF IInv, TypeOK, Deliver
  <2> QED BY <1>1, <2>2, NextDatabaseTyped DEF IInv, TypeOK, Deliver, database
<1>2. ASSUME NEW w \in Handler, RejectSerial(w) PROVE TypeOK'
  BY <1>2, FailTyped DEF IInv, RejectSerial
<1>3. ASSUME NEW w \in Handler, Handle(w) PROVE TypeOK'
  BY <1>3, TypeHandle
<1>4. ASSUME NEW w \in Handler, ConnectionLost(w) PROVE TypeOK'
  <2>1. faults' \in Nat BY <1>4 DEF ConnectionLost, Fault, IInv, TypeOK
  <2>2. NoLoc \in Loc /\ NoTx \in Tx /\ "done" \in Pc BY LocTyped DEF IInv, Pc
  <2> QED BY <1>4, <2>1, <2>2, GotoTyped DEF ConnectionLost, Finish, IInv, TypeOK, database
<1>5. ASSUME NEW w \in Handler, CommitLost(w) PROVE TypeOK'
  <2>1. faults' \in Nat BY <1>5 DEF CommitLost, Fault, IInv, TypeOK
  <2>2. NoLoc \in Loc /\ "done" \in Pc BY LocTyped DEF IInv, Pc
  <2>3. loc[w].db \in Orm BY <1>5 DEF IInv, Control, Placed, CommitLost, Running
  <2> QED BY <1>5, <2>1, <2>2, <2>3, GotoTyped, ApplyTyped
          DEF CommitLost, Apply, Finish, IInv, TypeOK
<1>6. CASE Crash
  <2>1. faults' \in Nat BY <1>6 DEF Crash, Fault, IInv, TypeOK
  <2> QED BY <1>6, <2>1, DieTyped DEF Crash, IInv
<1>7. CASE Tick
  BY <1>7 DEF Tick, IInv, TypeOK, database
<1>8. CASE UNCHANGED vars
  BY <1>8 DEF vars, database, IInv, TypeOK
<1> QED BY <1>1, <1>2, <1>3, <1>4, <1>5, <1>6, <1>7, <1>8 DEF Next, Terminated

-----------------------------------------------------------------------------
(* RowIdentity: every copy of a row stems from one insert.                 *)

\* A copy of a row of d is committed or held by a handler there.
LEMMA VersionsOf ==
  ASSUME NEW d, NEW a
  PROVE  a \in Versions(d) <=>
           a \in rows[d] \/ \E w \in Handler : loc[w].db = d /\ a \in Held(w)
BY DEF Versions

\* Being copies of one row is an equivalence.
LEMMA SameRowEquivalence ==
  /\ \A a : SameRow(a, a)
  /\ \A a, b : SameRow(a, b) => SameRow(b, a)
  /\ \A a, b, c : SameRow(a, b) /\ SameRow(b, c) => SameRow(a, c)
BY DEF SameRow

\* A copy of a row that some handler, or the database, already has.
IsCopy(a, d) == \E b \in Versions(d) : a.id = b.id /\ SameRow(a, b)

\* A step that only copies rows keeps RowIdentity.
LEMMA CopiesKeepIdentity ==
  ASSUME RowIdentity, nextId' = nextId,
         \A d \in Orm : \A a \in Versions(d)' : IsCopy(a, d),
         \A d \in Orm : \A a, b \in rows'[d] : a.id = b.id => a = b
  PROVE  RowIdentity'
<1> SUFFICES ASSUME NEW d \in Orm
             PROVE  /\ \A a \in Versions(d)' : a.id < nextId[d]
                    /\ \A a, b \in Versions(d)' : a.id = b.id => SameRow(a, b)
  BY DEF RowIdentity
<1>1. \A a \in Versions(d)' : a.id < nextId[d]
  BY DEF IsCopy, RowIdentity
<1>2. ASSUME NEW a \in Versions(d)', NEW b \in Versions(d)', a.id = b.id
      PROVE  SameRow(a, b)
  <2>1. PICK x \in Versions(d) : a.id = x.id /\ SameRow(a, x) BY DEF IsCopy
  <2>2. PICK y \in Versions(d) : b.id = y.id /\ SameRow(b, y) BY DEF IsCopy
  <2>3. SameRow(x, y) BY <1>2, <2>1, <2>2 DEF RowIdentity
  <2> QED BY <2>1, <2>2, <2>3, SameRowEquivalence
<1> QED BY <1>1, <1>2

\* What every step of one handler leaves alone.
OthersKeep(w) ==
  \A v \in Handler \ {w} : tx'[v] = tx[v] /\ loc'[v] = loc[v] /\ pc'[v] = pc[v]

\* So does one handler's step that only copies rows.
LEMMA OneHandlerKeepsIdentity ==
  ASSUME RowIdentity, NEW w \in Handler, OthersKeep(w), rows' = rows, nextId' = nextId,
         \A a \in Held(w)' : loc'[w].db = loc[w].db /\ IsCopy(a, loc[w].db)
  PROVE  RowIdentity'
<1>1. ASSUME NEW d \in Orm, NEW a \in Versions(d)' PROVE IsCopy(a, d)
  <2>1. a \in rows'[d] \/ \E v \in Handler : loc'[v].db = d /\ a \in Held(v)'
    BY <1>1 DEF Versions
  <2>2. CASE a \in rows'[d]
    BY <2>2, VersionsOf, SameRowEquivalence DEF IsCopy
  <2>3. ASSUME NEW v \in Handler \ {w}, loc'[v].db = d, a \in Held(v)' PROVE IsCopy(a, d)
    <3>1. loc[v].db = d /\ a \in Held(v) BY <2>3 DEF OthersKeep, Held
    <3> QED BY <3>1, VersionsOf, SameRowEquivalence DEF IsCopy
  <2> QED BY <2>1, <2>2, <2>3
<1> QED BY <1>1, CopiesKeepIdentity DEF RowIdentity

\* What is committed or held is a copy of itself.
LEMMA VersionIsCopy ==
  ASSUME NEW w \in Handler, NEW a \in rows[loc[w].db] \cup Held(w)
  PROVE  IsCopy(a, loc[w].db)
BY VersionsOf, SameRowEquivalence DEF IsCopy

\* What Goto does to pc and loc.
LEMMA GotoMeans ==
  ASSUME TypeOK, NEW w \in Handler, NEW p, NEW l, Goto(w, p, l)
  PROVE  /\ pc'[w] = p /\ loc'[w] = l
         /\ \A v \in Handler \ {w} : loc'[v] = loc[v] /\ pc'[v] = pc[v]
BY DEF TypeOK, Goto

\* What a rollback leaves.
LEMMA FailMeans ==
  ASSUME TypeOK, NEW w \in Handler, Fail(w)
  PROVE  /\ pc'[w] = "done" /\ loc'[w] = NoLoc /\ tx'[w] = NoTx
         /\ OthersKeep(w) /\ rows' = rows /\ zones' = zones /\ nextId' = nextId
         /\ recs' = recs /\ req' = req
BY GotoMeans DEF TypeOK, Fail, Finish, OthersKeep, database

\* The loop of ormApplyCommand ends or begins a database.
LEMMA NextDatabaseMeans ==
  ASSUME TypeOK, NEW w \in Handler, NEW e, NextDatabase(w, e)
  PROVE  /\ \A v \in Handler \ {w} : loc'[v] = loc[v] /\ pc'[v] = pc[v]
         /\ \/ pc'[w] = "done" /\ loc'[w] = NoLoc
            \/ \E d \in Orm : pc'[w] = "begin" /\ loc'[w] = LocAt(d, 1, 0)
BY GotoMeans DEF NextDatabase, Finish

\* What a commit makes of rows, zones and transactions.
LEMMA ApplyMeans ==
  ASSUME TypeOK, NEW w \in Handler, loc[w].db \in Orm, Apply(w)
  PROVE  /\ rows'[loc[w].db] = ViewOf(w)
         /\ \A d \in Orm \ {loc[w].db} : rows'[d] = rows[d] /\ zones'[d] = zones[d]
         /\ \A n \in DomainName : zones'[loc[w].db][n] =
              IF n \in tx[w].made THEN "NATIVE" ELSE zones[loc[w].db][n]
         /\ tx'[w] = NoTx /\ (\A v \in Handler \ {w} : tx'[v] = tx[v])
         /\ nextId' = nextId /\ recs' = recs /\ req' = req
BY DEF TypeOK, Apply

\* A handler between two transactions holds no copy of a row.
LEMMA NothingHeld ==
  ASSUME NEW w \in Handler, NEW d, NEW n, NEW k,
         tx'[w] = NoTx, loc'[w] = LocAt(d, n, k)
  PROVE  Held(w)' = {}
BY DEF Held, NoTx, LocAt

\* A transaction sees one version of a row.
LEMMA ViewUnique ==
  ASSUME IInv, NEW w \in Handler, Running(w),
         NEW a \in ViewOf(w), NEW b \in ViewOf(w), a.id = b.id
  PROVE  a = b
<1>1. loc[w].db \in Orm BY DEF IInv, Control, Placed
<1>2. \A y \in tx[w].writes : y.id \in tx[w].locked
  BY DEF IInv, OpenTransactions, Open
<1>3. \A y, z \in tx[w].writes : y.id = z.id => y = z
  BY DEF IInv, OpenTransactions, Open
<1>4. \A y, z \in rows[loc[w].db] : y.id = z.id => y = z BY <1>1 DEF IInv, RowIdentity
<1> QED BY <1>2, <1>3, <1>4 DEF ViewOf

\* A rollback keeps RowIdentity.
LEMMA FailKeepsIdentity == ASSUME IInv, NEW w \in Handler, Fail(w) PROVE RowIdentity'
<1>1. Held(w)' = {} BY FailMeans, NothingHeld DEF IInv, NoLoc
<1> QED BY <1>1, FailMeans, OneHandlerKeepsIdentity DEF IInv

\* A commit keeps RowIdentity.
LEMMA ApplyKeepsIdentity ==
  ASSUME IInv, NEW w \in Handler, Running(w), Apply(w), OthersKeep(w), Held(w)' = {}
  PROVE  RowIdentity'
<1>1. loc[w].db \in Orm BY DEF IInv, Control, Placed
<1>2. ASSUME NEW d \in Orm, NEW a \in Versions(d)' PROVE IsCopy(a, d)
  <2>1. a \in rows'[d] \/ \E v \in Handler : loc'[v].db = d /\ a \in Held(v)'
    BY <1>2 DEF Versions
  <2>2. CASE a \in rows'[d]
    <3>1. a \in rows[d] \/ (d = loc[w].db /\ a \in ViewOf(w))
      BY <1>1, <2>2, ApplyMeans DEF IInv
    <3>2. CASE d = loc[w].db /\ a \in ViewOf(w)
      <4>1. a \in rows[loc[w].db] \cup Held(w) BY <3>2 DEF ViewOf, Held
      <4> QED BY <3>2, <4>1, VersionIsCopy
    <3>3. CASE a \in rows[d]
      <4>1. a \in Versions(d) BY <3>3, VersionsOf
      <4> QED BY <4>1, SameRowEquivalence DEF IsCopy
    <3> QED BY <3>1, <3>2, <3>3
  <2>3. ASSUME NEW v \in Handler \ {w}, loc'[v].db = d, a \in Held(v)' PROVE IsCopy(a, d)
    <3>1. loc[v].db = d /\ a \in Held(v) BY <2>3 DEF OthersKeep, Held
    <3> QED BY <3>1, VersionsOf, SameRowEquivalence DEF IsCopy
  <2> QED BY <2>1, <2>2, <2>3
<1>3. \A d \in Orm : \A a, b \in rows'[d] : a.id = b.id => a = b
  BY <1>1, ApplyMeans, ViewUnique DEF IInv, RowIdentity
<1> QED BY <1>2, <1>3, CopiesKeepIdentity DEF IInv, Apply

\* The death of the process keeps RowIdentity.
LEMMA DieKeepsIdentity == ASSUME IInv, Die PROVE RowIdentity'
<1>1. \A v \in Handler : Held(v)' = {}
  BY DEF Die, Held, NoTx, NoLoc, LocAt
<1>2. rows' = rows /\ nextId' = nextId BY DEF Die, database
<1>3. ASSUME NEW d \in Orm, NEW a \in Versions(d)' PROVE IsCopy(a, d)
  <2>1. a \in rows[d] BY <1>1, <1>2, <1>3 DEF Versions
  <2> QED BY <2>1, VersionsOf, SameRowEquivalence DEF IsCopy
<1> QED BY <1>2, <1>3, CopiesKeepIdentity DEF IInv, RowIdentity

\* The rows of one insert are new and differ from one another.
LEMMA NewRowsFresh ==
  ASSUME TypeOK, NEW w \in Handler, loc[w].db \in Orm, Rec(w) \in Record,
         NEW a \in NewRows(w)
  PROVE  /\ nextId[loc[w].db] <= a.id
         /\ a.id < nextId[loc[w].db] + Len(Rec(w).data)
         /\ \A b \in NewRows(w) : a.id = b.id => a = b
         /\ a.domain = req[w].domain /\ a.owner = req[w].token
<1>1. nextId[loc[w].db] \in Nat BY DEF TypeOK
<1>2. DOMAIN Rec(w).data = 1 .. Len(Rec(w).data) /\ Len(Rec(w).data) \in Nat
  BY NewRowsTyped
<1>3. PICK i \in 1 .. Len(Rec(w).data) : a = NewRow(w, i) BY <1>2 DEF NewRows
<1>4. a.id = nextId[loc[w].db] + i - 1 /\ a.domain = req[w].domain /\ a.owner = req[w].token
  BY <1>3 DEF NewRow
<1>5. ASSUME NEW b \in NewRows(w), a.id = b.id PROVE a = b
  <2>1. PICK j \in 1 .. Len(Rec(w).data) : b = NewRow(w, j) BY <1>2 DEF NewRows
  <2>2. b.id = nextId[loc[w].db] + j - 1 BY <2>1 DEF NewRow
  <2>3. i = j BY <1>1, <1>2, <1>4, <1>5, <2>2
  <2> QED BY <1>3, <2>1, <2>3
<1> QED BY <1>1, <1>2, <1>4, <1>5

\* An INSERT keeps RowIdentity: its ids are drawn for the first time.
LEMMA InsertKeepsIdentity ==
  ASSUME IInv, NEW w \in Handler, loc[w].db \in Orm, Rec(w) \in Record,
         Insert(w), OthersKeep(w), rows' = rows, loc'[w].db = loc[w].db,
         loc'[w].cand = {}, loc'[w].soa = {}
  PROVE  RowIdentity'
<1> DEFINE d == loc[w].db
<1>1. TypeOK BY DEF IInv
<1>2. Len(Rec(w).data) \in Nat /\ nextId \in [Orm -> Nat] BY <1>1, NewRowsTyped DEF TypeOK
<1>3. /\ nextId'[d] = nextId[d] + Len(Rec(w).data)
      /\ \A e \in Orm \ {d} : nextId'[e] = nextId[e]
  BY <1>2 DEF Insert
<1>4. Held(w)' \subseteq Held(w) \cup NewRows(w)
  <2>1. tx'[w].writes = (tx[w].writes \ {}) \cup NewRows(w)
    BY <1>1, WriteMeans DEF Insert
  <2> QED BY <2>1 DEF Held
<1>5. ASSUME NEW e \in Orm, NEW a \in Versions(e)'
      PROVE  a \in Versions(e) \/ (e = d /\ a \in NewRows(w))
  <2>1. a \in rows[e] \/ \E v \in Handler : loc'[v].db = e /\ a \in Held(v)'
    BY <1>5 DEF Versions
  <2>2. ASSUME NEW v \in Handler \ {w}, loc'[v].db = e, a \in Held(v)'
        PROVE  a \in Versions(e)
    <3>1. loc[v].db = e /\ a \in Held(v) BY <2>2 DEF OthersKeep, Held
    <3> QED BY <3>1, VersionsOf
  <2>3. CASE a \in rows[e] BY <2>3, VersionsOf
  <2>4. CASE a \in Held(w)' /\ loc'[w].db = e BY <1>4, <2>4, VersionsOf
  <2> QED BY <2>1, <2>2, <2>3, <2>4
<1>6. ASSUME NEW e \in Orm PROVE \A a \in Versions(e) : a.id < nextId[e]
  BY DEF IInv, RowIdentity
<1>7. ASSUME NEW a \in NewRows(w)
      PROVE  /\ a.id \in Nat /\ nextId[d] <= a.id /\ a.id < nextId'[d]
             /\ \A b \in NewRows(w) : a.id = b.id => a = b
  BY <1>1, <1>3, NewRowsFresh, NewRowsTyped DEF Row
<1>8. ASSUME NEW e \in Orm, NEW a \in Versions(e) PROVE a.id \in Nat
  <2>1. a \in Row
    <3>1. \A v \in Handler : Held(v) \subseteq Row
      BY <1>1, LocFields DEF Held, Tx
    <3> QED BY <1>1, <1>8, <3>1, VersionsOf DEF TypeOK
  <2> QED BY <2>1 DEF Row
<1>9. ASSUME NEW e \in Orm, NEW a \in Versions(e)' PROVE a.id < nextId'[e]
  BY <1>2, <1>3, <1>5, <1>6, <1>7, <1>8, <1>9
<1>10. ASSUME NEW e \in Orm, NEW a \in Versions(e)', NEW b \in Versions(e)', a.id = b.id
       PROVE  SameRow(a, b)
  <2>1. CASE a \in Versions(e) /\ b \in Versions(e)
    BY <1>10, <2>1 DEF IInv, RowIdentity
  <2>2. CASE a \in NewRows(w) /\ b \in NewRows(w)
    BY <1>7, <1>10, <2>2, SameRowEquivalence
  <2>3. ASSUME e = d, NEW x \in Versions(d), NEW y \in NewRows(w) PROVE x.id # y.id
    BY <1>2, <1>6, <1>7, <1>8, <2>3
  <2> QED BY <1>5, <1>10, <2>1, <2>2, <2>3
<1> QED BY <1>9, <1>10 DEF IInv, RowIdentity

\* The steps of handler w.
LEMMA IdentityHandle == ASSUME IInv, NEW w \in Handler, Handle(w) PROVE RowIdentity'
<1>1. TypeOK /\ RowIdentity /\ loc[w] \in Loc BY LocFields DEF IInv
<1>2. Running(w) => loc[w].db \in Orm BY DEF IInv, Control, Placed
<1> DEFINE own == rows[loc[w].db] \cup Held(w)
<1>3. ViewOf(w) \subseteq own BY DEF ViewOf, Held
\* A step that changes w's transaction and place, and holds copies only.
<1>4. ASSUME NEW p, NEW l, Goto(w, p, l), l.db = loc[w].db,
             \A v \in Handler \ {w} : tx'[v] = tx[v], rows' = rows, nextId' = nextId,
             \A a \in tx'[w].writes \cup l.cand \cup l.soa : IsCopy(a, loc[w].db)
      PROVE  RowIdentity'
  <2>1. loc'[w] = l /\ OthersKeep(w) BY <1>1, <1>4, GotoMeans DEF OthersKeep
  <2>2. \A a \in Held(w)' : IsCopy(a, loc[w].db) BY <1>4, <2>1 DEF Held
  <2> HIDE DEF own
  <2> QED BY <1>1, <1>4, <2>1, <2>2, OneHandlerKeepsIdentity
<1>5. \A a \in own : IsCopy(a, loc[w].db) BY VersionIsCopy
<1> HIDE DEF own
\* A step that only changes its place.
<1>6. ASSUME NEW p, NEW l, Goto(w, p, l), l.db = loc[w].db, tx' = tx, rows' = rows,
             nextId' = nextId, l.cand \cup l.soa \subseteq own
      PROVE  RowIdentity'
  <2>1. tx[w].writes \subseteq own BY DEF own, Held
  <2> QED BY <1>4, <1>5, <1>6, <2>1
<1>7. ASSUME NEW p, NEW n, Goto(w, p, LocAt(loc[w].db, loc[w].ri + 1, n)), tx' = tx,
             rows' = rows, nextId' = nextId
      PROVE  RowIdentity'
  <2>1. /\ LocAt(loc[w].db, loc[w].ri + 1, n).db = loc[w].db
        /\ LocAt(loc[w].db, loc[w].ri + 1, n).cand = {}
        /\ LocAt(loc[w].db, loc[w].ri + 1, n).soa = {}
    BY DEF LocAt
  <2> HIDE DEF LocAt
  <2> QED BY <1>6, <1>7, <2>1
<1>8. loc[w].cand \cup loc[w].soa \subseteq own BY DEF own, Held
<1>9. FindDomain(w) \/ BeginRecords(w) \/ EndOfRecords(w) \/ SoaVanished(w)
        \/ InsertNothing(w) => RowIdentity'
  BY <1>6, <1>8 DEF FindDomain, BeginRecords, EndOfRecords, SoaVanished, InsertNothing,
                    OnlyLoc, database
<1>10. DeletedAll(w) \/ EndOwner(w) => RowIdentity'
  BY <1>7 DEF DeletedAll, EndOwner, NextRecord, OnlyLoc, database
<1>11. DeleteNextItem(w) => RowIdentity'
  <2>1. /\ [loc[w] EXCEPT !.di = @ + 1].db = loc[w].db
        /\ [loc[w] EXCEPT !.di = @ + 1].cand = loc[w].cand
        /\ [loc[w] EXCEPT !.di = @ + 1].soa = loc[w].soa
    BY <1>1 DEF Loc
  <2> QED BY <1>6, <1>7, <1>8, <2>1 DEF DeleteNextItem, NextRecord, database
<1>12. ASSUME NEW S \in SUBSET own, NEW p, Goto(w, p, [loc[w] EXCEPT !.cand = S]), OnlyLoc
       PROVE  RowIdentity'
  <2>1. /\ [loc[w] EXCEPT !.cand = S].db = loc[w].db
        /\ [loc[w] EXCEPT !.cand = S].cand = S
        /\ [loc[w] EXCEPT !.cand = S].soa = loc[w].soa
    BY <1>1 DEF Loc
  <2> QED BY <1>6, <1>8, <1>12, <2>1 DEF OnlyLoc, database
<1>13. StartDelete(w) \/ SelectOwned(w) => RowIdentity'
  BY <1>3, <1>12 DEF StartDelete, SelectOwned
<1>14. ReadSoa(w) => RowIdentity'
  <2> SUFFICES ASSUME ReadSoa(w) PROVE RowIdentity' OBVIOUS
  <2> DEFINE stamped(x) == [x EXCEPT !.content = <<GenerateNewSerial(x.content[1], today)>>]
             l(x) == [loc[w] EXCEPT !.soa = {stamped(x)}]
  <2>1. PICK x \in Soas(w) : Goto(w, "save", l(x)) BY DEF ReadSoa
  <2>2. x \in own /\ x.type = "SOA" /\ x \in Row
    BY <1>1, <1>2, <1>3, ViewTyped DEF Soas, ReadSoa, Running
  <2>3. stamped(x).id = x.id /\ SameRow(stamped(x), x) BY <2>2 DEF SameRow, Row
  <2>4. IsCopy(stamped(x), loc[w].db)
    <3>1. PICK y \in Versions(loc[w].db) : x.id = y.id /\ SameRow(x, y)
      BY <1>5, <2>2 DEF IsCopy
    <3> HIDE DEF stamped
    <3> QED BY <2>3, <3>1, SameRowEquivalence DEF IsCopy
  <2>5. l(x).db = loc[w].db /\ l(x).cand = loc[w].cand /\ l(x).soa = {stamped(x)}
    <3> HIDE DEF stamped
    <3> QED BY <1>1 DEF Loc
  <2>6. tx[w].writes \cup loc[w].cand \subseteq own BY DEF own, Held
  <2> HIDE DEF stamped, l
  <2> QED BY <1>4, <1>5, <2>1, <2>4, <2>5, <2>6 DEF ReadSoa, OnlyLoc, database
\* A write of copies.
<1>15. ASSUME NEW gone, NEW new, Write(w, gone, new), NEW p, NEW l, Goto(w, p, l), OnlyTx,
              l.db = loc[w].db, l.cand \subseteq loc[w].cand, l.soa \subseteq loc[w].soa,
              \A a \in new : IsCopy(a, loc[w].db)
       PROVE  RowIdentity'
  <2>1. tx'[w].writes = (tx[w].writes \ gone) \cup new
    BY <1>1, <1>15, WriteMeans
  <2>2. \A v \in Handler \ {w} : tx'[v] = tx[v] BY <1>1, <1>15, WriteMeans
  <2>3. tx[w].writes \cup loc[w].cand \cup loc[w].soa \subseteq own BY DEF own, Held
  <2>4. \A a \in tx'[w].writes \cup l.cand \cup l.soa : IsCopy(a, loc[w].db)
    BY <1>5, <1>15, <2>1, <2>3
  <2> QED BY <1>4, <1>15, <2>2, <2>4 DEF OnlyTx, database
<1>16. ASSUME NEW x \in own, x \in Row, NEW o PROVE IsCopy([x EXCEPT !.owner = o], loc[w].db)
  <2> DEFINE y == [x EXCEPT !.owner = o]
  <2>1. y.id = x.id /\ SameRow(y, x) BY <1>16 DEF SameRow, Row
  <2>2. PICK b \in Versions(loc[w].db) : x.id = b.id /\ SameRow(x, b)
    BY <1>5, <1>16 DEF IsCopy
  <2> HIDE DEF y
  <2>3. IsCopy(y, loc[w].db) BY <2>1, <2>2, SameRowEquivalence DEF IsCopy
  <2> QED BY <2>3 DEF y
<1>17. ASSUME NEW r, NEW n
       PROVE  /\ [loc[w] EXCEPT !.cand = @ \ {r}, !.aff = n].db = loc[w].db
              /\ [loc[w] EXCEPT !.cand = @ \ {r}, !.aff = n].cand \subseteq loc[w].cand
              /\ [loc[w] EXCEPT !.cand = @ \ {r}, !.aff = n].soa = loc[w].soa
  BY <1>1 DEF Loc
<1>18. DeleteRow(w) => RowIdentity'
  <2> SUFFICES ASSUME DeleteRow(w) PROVE RowIdentity' OBVIOUS
  <2> DEFINE now(r) == {x \in ViewOf(w) : x.id = r.id /\ Matched(w, x)}
             aff(r) == loc[w].aff + (IF now(r) = {} THEN 0 ELSE 1)
             l(r)   == [loc[w] EXCEPT !.cand = @ \ {r}, !.aff = aff(r)]
  <2>1. PICK r \in loc[w].cand : Write(w, now(r), {}) /\ Goto(w, "delete", l(r))
    BY DEF DeleteRow
  <2>2. OnlyTx BY DEF DeleteRow
  <2> HIDE DEF now, aff
  <2>3. l(r).db = loc[w].db /\ l(r).cand \subseteq loc[w].cand /\ l(r).soa = loc[w].soa
    BY <1>17
  <2> HIDE DEF l
  <2> QED BY <1>15, <2>1, <2>2, <2>3
<1>19. UpdateOwner(w) => RowIdentity'
  <2> SUFFICES ASSUME UpdateOwner(w) PROVE RowIdentity' OBVIOUS
  <2> DEFINE now(r) == {x \in ViewOf(w) : x.id = r.id /\ x.owner # NoOwner}
             moved(r) == [r EXCEPT !.owner = req[w].newToken]
             new(r) == IF now(r) = {} THEN {} ELSE {moved(r)}
             aff(r) == loc[w].aff + (IF now(r) = {} THEN 0 ELSE 1)
             l(r)   == [loc[w] EXCEPT !.cand = @ \ {r}, !.aff = aff(r)]
  <2>1. PICK r \in loc[w].cand : Write(w, now(r), new(r)) /\ Goto(w, "owner", l(r))
    BY DEF UpdateOwner
  <2>2. OnlyTx BY DEF UpdateOwner
  <2>3. IsCopy(moved(r), loc[w].db) BY <1>1, <1>8, <1>16, LocFields
  <2> HIDE DEF now, aff, moved
  <2>4. l(r).db = loc[w].db /\ l(r).cand \subseteq loc[w].cand /\ l(r).soa = loc[w].soa
    BY <1>17
  <2>5. \A a \in new(r) : IsCopy(a, loc[w].db) BY <2>3
  <2> HIDE DEF l, new
  <2> QED BY <1>15, <2>1, <2>2, <2>4, <2>5
<1>20. SaveSoa(w) => RowIdentity'
  <2> SUFFICES ASSUME SaveSoa(w) PROVE RowIdentity' OBVIOUS
  <2>1. PICK x \in loc[w].soa, y \in ViewOf(w) :
          Write(w, {y}, {[x EXCEPT !.owner = y.owner]}) /\ Goto(w, "commit", loc[w])
    BY DEF SaveSoa
  <2>2. IsCopy([x EXCEPT !.owner = y.owner], loc[w].db) BY <1>1, <1>8, <1>16, LocFields
  <2> QED BY <1>15, <2>1, <2>2 DEF SaveSoa
<1>21. InsertSoa(w) => RowIdentity'
  <2> SUFFICES ASSUME InsertSoa(w) PROVE RowIdentity' OBVIOUS
  <2>1. PICK x \in loc[w].soa :
          Write(w, {}, {[x EXCEPT !.owner = NoOwner]}) /\ Goto(w, "commit", loc[w])
    BY DEF InsertSoa
  <2>2. IsCopy([x EXCEPT !.owner = NoOwner], loc[w].db) BY <1>1, <1>8, <1>16, LocFields
  <2> QED BY <1>15, <2>1, <2>2 DEF InsertSoa
<1>22. InsertDomain(w) => RowIdentity'
  <2> SUFFICES ASSUME InsertDomain(w) PROVE RowIdentity' OBVIOUS
  <2>1. /\ tx'[w].writes = tx[w].writes
        /\ \A v \in Handler \ {w} : tx'[v] = tx[v]
    BY <1>1 DEF InsertDomain, TypeOK, Tx
  <2>2. tx[w].writes \subseteq own BY DEF own, Held
  <2> QED BY <1>4, <1>5, <1>8, <2>1, <2>2 DEF InsertDomain, OnlyTx, database
<1>23. ASSUME loc[w].db \in Orm, Rec(w) \in Record, Insert(w), NEW n, NextRecord(w, n), OnlyNew
       PROVE  RowIdentity'
  <2>1. /\ loc'[w].db = loc[w].db /\ loc'[w].cand = {} /\ loc'[w].soa = {}
        /\ \A v \in Handler \ {w} : loc'[v] = loc[v] /\ pc'[v] = pc[v]
    BY <1>1, <1>23, GotoMeans DEF NextRecord, LocAt
  <2>2. \A v \in Handler \ {w} : tx'[v] = tx[v] BY <1>1, <1>23, WriteMeans DEF Insert
  <2> QED BY <1>23, <2>1, <2>2, InsertKeepsIdentity DEF OthersKeep, OnlyNew
<1>24. CreateRecord(w) \/ ReplaceInsert(w) => RowIdentity'
  BY <1>1, <1>2, <1>23, RecTyped
     DEF CreateRecord, ReplaceInsert, AtRecord, Running, IInv, Control, Placed
<1>25. Commit(w) => RowIdentity'
  <2> SUFFICES ASSUME Commit(w) PROVE RowIdentity' OBVIOUS
  <2>1. Running(w) /\ loc[w].db \in Orm BY <1>2 DEF Commit, Running
  <2>2. tx'[w] = NoTx /\ OthersKeep(w)
    BY <1>1, <2>1, ApplyMeans, NextDatabaseMeans DEF Commit, OthersKeep
  <2>3. Held(w)' = {}
    BY <1>1, <2>2, NextDatabaseMeans, NothingHeld DEF Commit, NoLoc
  <2> QED BY <2>1, <2>2, <2>3, ApplyKeepsIdentity DEF Commit
<1>26. Panic(w) => RowIdentity' BY DieKeepsIdentity DEF Panic
<1>27. Fail(w) => RowIdentity' BY FailKeepsIdentity
<1> QED
  BY <1>9, <1>10, <1>11, <1>13, <1>14, <1>18, <1>19, <1>20, <1>21, <1>22, <1>24, <1>25,
     <1>26, <1>27
  DEF Handle, DomainConflict, CannotBegin, EmptyData, CreateConflict, ReplaceMissing,
      NothingOwned, NoSoa, InsertConflict, DeadlockAbort

\* No step breaks RowIdentity.
LEMMA IdentityStep == IInv /\ [Next]_vars => RowIdentity'
<1> SUFFICES ASSUME IInv, [Next]_vars PROVE RowIdentity' OBVIOUS
<1>1. TypeOK /\ RowIdentity BY DEF IInv
<1>2. ASSUME NEW w \in Handler, Deliver(w) PROVE RowIdentity'
  <2>1. tx[w] = NoTx BY <1>2 DEF IInv, Control, Placed, Running, Deliver
  <2>2. Held(w)' = {} BY <1>1, <1>2, <2>1, NextDatabaseMeans, NothingHeld DEF Deliver, NoLoc
  <2>3. OthersKeep(w) BY <1>1, <1>2, NextDatabaseMeans DEF Deliver, OthersKeep
  <2> QED BY <1>1, <1>2, <2>2, <2>3, OneHandlerKeepsIdentity DEF Deliver, database
<1>3. ASSUME NEW w \in Handler, RejectSerial(w) PROVE RowIdentity'
  BY <1>3, FailKeepsIdentity DEF RejectSerial
<1>4. ASSUME NEW w \in Handler, Handle(w) PROVE RowIdentity'
  BY <1>4, IdentityHandle
<1>5. ASSUME NEW w \in Handler, ConnectionLost(w) PROVE RowIdentity'
  <2>1. tx'[w] = NoTx /\ loc'[w] = NoLoc /\ OthersKeep(w)
    BY <1>1, <1>5, GotoMeans DEF ConnectionLost, Finish, OthersKeep, TypeOK
  <2>2. Held(w)' = {} BY <2>1, NothingHeld DEF NoLoc
  <2> QED BY <1>1, <1>5, <2>1, <2>2, OneHandlerKeepsIdentity DEF ConnectionLost, database
<1>6. ASSUME NEW w \in Handler, CommitLost(w) PROVE RowIdentity'
  <2>1. Running(w) BY <1>6 DEF CommitLost, Running
  <2>2. loc[w].db \in Orm BY <2>1 DEF IInv, Control, Placed
  <2>3. tx'[w] = NoTx /\ loc'[w] = NoLoc /\ OthersKeep(w)
    BY <1>1, <1>6, <2>2, ApplyMeans, GotoMeans DEF CommitLost, Finish, OthersKeep
  <2>4. Held(w)' = {} BY <2>3, NothingHeld DEF NoLoc
  <2> QED BY <1>6, <2>1, <2>3, <2>4, ApplyKeepsIdentity DEF CommitLost
<1>7. CASE Crash BY <1>7, DieKeepsIdentity DEF Crash
<1>8. CASE Tick \/ UNCHANGED vars
  <2>1. UNCHANGED <<tx, loc, rows, nextId>> BY <1>8 DEF Tick, vars, database
  <2>2. \A d \in Orm : Versions(d)' = Versions(d) BY <2>1 DEF Versions, Held
  <2> QED BY <1>1, <2>1, <2>2 DEF RowIdentity
<1> QED BY <1>2, <1>3, <1>4, <1>5, <1>6, <1>7, <1>8 DEF Next, Terminated

-----------------------------------------------------------------------------
(* OpenTransactions: what a transaction holds is its own and rightful.     *)

\* The other handlers' transactions stand while w changes only its own.
LEMMA OthersStayOpen ==
  ASSUME IInv, NEW w \in Handler, OthersKeep(w), req' = req, rows' = rows, zones' = zones,
         \A d \in Orm : \A n \in Nat : n < nextId[d] => n < nextId'[d],
         \A id \in tx'[w].locked : /\ loc'[w].db = loc[w].db
                                   /\ id \in tx[w].locked \/ ~LockedByOther(w, id),
         \A n \in tx'[w].made : /\ loc'[w].db = loc[w].db
                                /\ n \in tx[w].made \/ (n = req[w].domain /\ ~ZonePending(w)),
         NEW v \in Handler \ {w}, Running(v)'
  PROVE  Open(v)'
<1>1. Running(v) /\ tx'[v] = tx[v] /\ loc'[v] = loc[v] /\ pc'[v] = pc[v]
  BY DEF Running, OthersKeep
<1>2. Open(v) /\ loc[v].db \in Orm BY <1>1 DEF IInv, OpenTransactions, Control, Placed
<1>3. tx[v].locked \subseteq Nat BY DEF IInv, TypeOK, Tx
<1>4. ASSUME NEW id \in tx[v].locked PROVE id < nextId'[loc[v].db] /\ ~LockedByOther(v, id)'
  <2>1. id < nextId'[loc[v].db] BY <1>2, <1>3, <1>4 DEF Open
  <2>2. ASSUME NEW u \in Handler \ {v}, loc'[u].db = loc'[v].db, id \in tx'[u].locked
        PROVE  FALSE
    <3>1. CASE u # w
      BY <1>1, <1>2, <1>4, <2>2, <3>1 DEF Open, LockedByOther, OthersKeep
    <3>2. CASE u = w
      <4>1. loc[w].db = loc[v].db BY <1>1, <2>2, <3>2
      <4>2. id \notin tx[w].locked BY <1>2, <1>4, <4>1 DEF Open, LockedByOther
      <4>3. LockedByOther(w, id) BY <1>4, <4>1 DEF LockedByOther
      <4> QED BY <2>2, <3>2, <4>2, <4>3
    <3> QED BY <3>1, <3>2
  <2> QED BY <2>1, <2>2 DEF LockedByOther
<1>5. Rightful(v)'
  <2>1. Rightful(v) BY <1>2 DEF Open
  <2> QED BY <1>1, <2>1 DEF Rightful, Rewritten, RightfulDelete, RightfulInsert,
                            RightfulUpdate, Written, Edits, Cmd
<1>6. ASSUME NEW n \in tx[v].made PROVE zones'[loc[v].db][n] = "absent" /\ ~ZonePending(v)'
  <2>1. zones'[loc[v].db][n] = "absent" /\ ~ZonePending(v) BY <1>2, <1>6 DEF Open
  <2>2. n = req[v].domain BY <1>6 DEF IInv, Control, Placed
  <2>3. ASSUME NEW u \in Handler \ {v}, loc'[u].db = loc'[v].db, n \in tx'[u].made
        PROVE  FALSE
    <3>1. CASE u # w
      BY <1>1, <2>1, <2>2, <2>3, <3>1 DEF ZonePending, OthersKeep
    <3>2. CASE u = w
      <4>1. loc[w].db = loc[v].db BY <1>1, <2>3, <3>2
      <4>2. n \notin tx[w].made BY <2>1, <2>2, <4>1 DEF ZonePending
      <4>3. ZonePending(w) \/ n # req[w].domain BY <1>6, <4>1 DEF ZonePending
      <4> QED BY <2>3, <3>2, <4>2, <4>3
    <3> QED BY <3>1, <3>2
  <2> QED BY <2>1, <2>2, <2>3 DEF ZonePending
<1> QED BY <1>1, <1>2, <1>4, <1>5, <1>6 DEF Open

\* An empty transaction is open whatever the others do.
LEMMA EmptyIsOpen == ASSUME NEW w \in Handler, tx'[w] = NoTx PROVE Open(w)'
BY DEF Open, NoTx, Rightful, Rewritten

\* A step of w that only changes w's own transaction keeps all of them open
\* if it keeps w's.
LEMMA OneHandlerStaysOpen ==
  ASSUME IInv, NEW w \in Handler, OthersKeep(w), req' = req, rows' = rows, zones' = zones,
         \A d \in Orm : \A n \in Nat : n < nextId[d] => n < nextId'[d],
         \A id \in tx'[w].locked : /\ loc'[w].db = loc[w].db
                                   /\ id \in tx[w].locked \/ ~LockedByOther(w, id),
         \A n \in tx'[w].made : /\ loc'[w].db = loc[w].db
                                /\ n \in tx[w].made \/ (n = req[w].domain /\ ~ZonePending(w)),
         Running(w)' => Open(w)'
  PROVE  OpenTransactions'
BY OthersStayOpen DEF OpenTransactions

\* A step that gives up w's transaction, or has none.
LEMMA ClosingStaysOpen ==
  ASSUME IInv, NEW w \in Handler, OthersKeep(w), req' = req, rows' = rows, zones' = zones,
         nextId' = nextId, tx'[w] = NoTx
  PROVE  OpenTransactions'
<1>1. tx'[w].locked = {} /\ tx'[w].made = {} BY DEF NoTx
<1> QED BY <1>1, EmptyIsOpen, OneHandlerStaysOpen

\* Until its commit an edit has rewritten nothing.
LEMMA NothingRewritten ==
  ASSUME NEW w, Rightful(w), Edits(w), pc[w] # "commit" PROVE Rewritten(w) = {}
BY DEF Rightful

\* A step that only changes w's place.
LEMMA MovingStaysOpen ==
  ASSUME IInv, NEW w \in Handler, Running(w), OthersKeep(w), req' = req, rows' = rows,
         zones' = zones, nextId' = nextId, tx'[w] = tx[w], loc'[w].db = loc[w].db,
         pc[w] # "commit"
  PROVE  OpenTransactions'
<1>1. Open(w) BY DEF IInv, OpenTransactions
<1>2. Rightful(w)'
  <2>1. Rightful(w) BY <1>1 DEF Open
  <2>2. Edits(w) => Rewritten(w) = {} BY <2>1, NothingRewritten
  <2>3. Rewritten(w)' = Rewritten(w) BY DEF Rewritten
  <2> QED BY <2>1, <2>2, <2>3 DEF Rightful, RightfulDelete, RightfulInsert,
                                  RightfulUpdate, Written, Edits, Cmd
<1>3. \A id \in tx[w].locked : LockedByOther(w, id)' => LockedByOther(w, id)
  BY DEF LockedByOther, OthersKeep
<1>4. ZonePending(w)' => ZonePending(w) BY DEF ZonePending, OthersKeep
<1>5. Open(w)' BY <1>1, <1>2, <1>3, <1>4 DEF Open
<1> QED BY <1>5, OneHandlerStaysOpen

\* A statement that takes or makes versions keeps w's transaction open if the
\* rows are there for the taking, no id is written twice, and the change is
\* rightful.
LEMMA WritingStaysOpen ==
  ASSUME IInv, NEW w \in Handler, Running(w), OthersKeep(w), req' = req, rows' = rows,
         zones' = zones, loc'[w].db = loc[w].db,
         \A d \in Orm : nextId'[d] \in Nat /\ nextId[d] <= nextId'[d],
         NEW gone, NEW new, Write(w, gone, new),
         \A x \in gone \cup new : x.id < nextId'[loc[w].db] /\ ~LockedByOther(w, x.id),
         \A y, z \in new : y.id = z.id => y = z,
         \A y \in new, z \in tx[w].writes \ gone : y.id # z.id,
         Rightful(w)'
  PROVE  OpenTransactions'
<1>1. Open(w) /\ loc[w].db \in Orm BY DEF IInv, OpenTransactions, Control, Placed
<1>2. /\ tx'[w].locked = tx[w].locked \cup {x.id : x \in gone \cup new}
      /\ tx'[w].writes = (tx[w].writes \ gone) \cup new
      /\ tx'[w].made = tx[w].made
  BY WriteMeans DEF IInv
<1>3. \A d \in Orm : \A n \in Nat : n < nextId[d] => n < nextId'[d]
  BY DEF IInv, TypeOK
<1>4. tx[w].locked \subseteq Nat BY DEF IInv, TypeOK, Tx
<1>5. ASSUME NEW id \in tx'[w].locked
      PROVE  id < nextId'[loc[w].db] /\ ~LockedByOther(w, id)
  <2>1. CASE id \in tx[w].locked BY <1>1, <1>3, <1>4, <2>1 DEF Open
  <2>2. CASE id \in {x.id : x \in gone \cup new} BY <2>2
  <2> QED BY <1>2, <1>5, <2>1, <2>2
<1>6. \A id \in tx'[w].locked : ~LockedByOther(w, id)'
  BY <1>5 DEF LockedByOther, OthersKeep
<1>7. ZonePending(w)' => ZonePending(w) BY DEF ZonePending, OthersKeep
<1>8. \A y \in tx'[w].writes : y.id \in tx'[w].locked BY <1>1, <1>2 DEF Open
<1>9. \A y, z \in tx'[w].writes : y.id = z.id => y = z BY <1>1, <1>2 DEF Open
<1>10. \A n \in tx'[w].made : zones'[loc'[w].db][n] = "absent" /\ ~ZonePending(w)'
  BY <1>1, <1>2, <1>7 DEF Open
<1>11. Open(w)' BY <1>5, <1>6, <1>8, <1>9, <1>10 DEF Open
<1>12. \A id \in tx'[w].locked : id \in tx[w].locked \/ ~LockedByOther(w, id)
  BY <1>5
<1> QED BY <1>2, <1>3, <1>11, <1>12, OneHandlerStaysOpen

\* The three ways a row of the transaction's view relates to what it wrote.
LEMMA ViewMeans ==
  ASSUME IInv, NEW w \in Handler, Running(w), NEW now \in ViewOf(w)
  PROVE  /\ now.id < nextId[loc[w].db]
         /\ \/ now \in rows[loc[w].db] /\ now.id \notin tx[w].locked
            \/ now \in tx[w].writes /\ now.id \in tx[w].locked
         /\ \A x \in rows[loc[w].db] : x.id = now.id /\ x.id \notin tx[w].locked => x = now
<1>1. loc[w].db \in Orm BY DEF IInv, Control, Placed
<1>2. now \in Versions(loc[w].db) BY VersionsOf DEF ViewOf, Held
<1>3. \A y \in tx[w].writes : y.id \in tx[w].locked
  BY DEF IInv, OpenTransactions, Open
<1>4. \A a, b \in rows[loc[w].db] : a.id = b.id => a = b BY <1>1 DEF IInv, RowIdentity
<1> QED BY <1>1, <1>2, <1>3, <1>4 DEF ViewOf, IInv, RowIdentity

\* Which commands a handler at these statements can have.
LEMMA PlaceTells ==
  ASSUME IInv, NEW w \in Handler
  PROVE  /\ pc[w] = "delete" => Cmd(w) \in {"delete_record", "replace_record"}
         /\ pc[w] \in {"soa", "save", "insert"} => Edits(w)
<1>1. Cmd(w) \in Command BY LocFields DEF IInv, Cmd, RequestType
<1>2. Running(w) => pc[w] \in Places(Cmd(w)) BY DEF IInv, Control, Placed
<1> QED BY <1>1, <1>2 DEF Command, Places, Running, Edits

\* DELETE takes rows of the request's token only.
LEMMA DeleteRowStaysOpen == ASSUME IInv, NEW w \in Handler, DeleteRow(w) PROVE OpenTransactions'
<1> DEFINE now(r) == {x \in ViewOf(w) : x.id = r.id /\ Matched(w, x)}
           aff(r) == loc[w].aff + (IF now(r) = {} THEN 0 ELSE 1)
           l(r)   == [loc[w] EXCEPT !.cand = @ \ {r}, !.aff = aff(r)]
<1>1. PICK r \in loc[w].cand : /\ ~LockedByOther(w, r.id)
                               /\ Write(w, now(r), {}) /\ Goto(w, "delete", l(r))
  BY DEF DeleteRow
<1>2. /\ TypeOK /\ loc[w] \in Loc /\ Running(w) /\ pc[w] = "delete"
      /\ Cmd(w) \in {"delete_record", "replace_record"} /\ Edits(w)
  BY LocFields, PlaceTells DEF IInv, DeleteRow, Running, Edits
<1>3. Open(w) /\ Rightful(w) BY <1>2 DEF IInv, OpenTransactions, Open
<1>4. Rewritten(w) = {} BY <1>2, <1>3, NothingRewritten
<1>5. \A x \in now(r) : x \in ViewOf(w) /\ x.id = r.id /\ Owned(w, x)
  BY DEF Matched, OwnedItem
<1> HIDE DEF aff
<1>6. l(r).db = loc[w].db BY <1>2 DEF Loc
<1> HIDE DEF now, l
<1>7. /\ pc'[w] = "delete" /\ loc'[w].db = loc[w].db /\ OthersKeep(w)
      /\ tx'[w].locked = tx[w].locked \cup {x.id : x \in now(r)}
      /\ tx'[w].writes = tx[w].writes \ now(r)
  BY <1>1, <1>2, <1>6, GotoMeans, WriteMeans DEF OthersKeep
<1>8. UNCHANGED <<rows, zones, nextId, req>> BY DEF DeleteRow, OnlyTx, database
<1>9. Rightful(w)'
  <2>1. Rewritten(w)' = {} BY <1>4, <1>7, <1>8 DEF Rewritten
  <2>2. ASSUME NEW x \in rows[loc[w].db], x.id \in tx'[w].locked
        PROVE  RightfulDelete(w, x)' /\ ~Written(w, x.id)'
    <3>1. CASE x.id \in tx[w].locked
      <4>1. RightfulDelete(w, x) /\ ~Written(w, x.id)
        BY <1>3, <1>4, <3>1 DEF Rightful, Rewritten
      <4> QED BY <1>7, <1>8, <4>1 DEF RightfulDelete, Written, Cmd
    <3>2. CASE x.id \notin tx[w].locked
      <4>1. PICK z \in now(r) : z.id = x.id BY <1>7, <2>2, <3>2
      <4>2. z = x BY <1>2, <1>5, <3>2, <4>1, ViewMeans
      <4>3. RightfulDelete(w, x) BY <1>2, <1>5, <4>2 DEF RightfulDelete, Owned
      <4>4. ~Written(w, x.id) BY <1>3, <3>2 DEF Open, Written
      <4> QED BY <1>7, <1>8, <4>3, <4>4 DEF RightfulDelete, Written, Cmd
    <3> QED BY <3>1, <3>2
  <2>3. ASSUME NEW y \in tx'[w].writes PROVE RightfulInsert(w, y)'
    <3>1. y \in tx[w].writes /\ y \notin Rewritten(w) BY <1>4, <1>7, <2>3
    <3> QED BY <1>3, <1>8, <3>1 DEF Rightful, RightfulInsert, Edits, Cmd
  <2> QED BY <1>7, <1>8, <2>1, <2>2, <2>3 DEF Rightful
<1>10. \A x \in now(r) : x.id < nextId[loc[w].db] /\ ~LockedByOther(w, x.id)
  BY <1>1, <1>2, <1>5, ViewMeans
<1>11. \A d \in Orm : nextId'[d] \in Nat /\ nextId[d] <= nextId'[d]
  BY <1>2, <1>8 DEF TypeOK
<1> QED BY <1>1, <1>2, <1>7, <1>8, <1>9, <1>10, <1>11, WritingStaysOpen

\* UPDATE by id rewrites rows that have an owner, and gives them the new one.
LEMMA UpdateOwnerStaysOpen ==
  ASSUME IInv, NEW w \in Handler, UpdateOwner(w) PROVE OpenTransactions'
<1> DEFINE now(r) == {x \in ViewOf(w) : x.id = r.id /\ x.owner # NoOwner}
           moved(r) == [r EXCEPT !.owner = req[w].newToken]
           new(r) == IF now(r) = {} THEN {} ELSE {moved(r)}
           aff(r) == loc[w].aff + (IF now(r) = {} THEN 0 ELSE 1)
           l(r)   == [loc[w] EXCEPT !.cand = @ \ {r}, !.aff = aff(r)]
<1>1. PICK r \in loc[w].cand : /\ ~LockedByOther(w, r.id)
                               /\ Write(w, now(r), new(r)) /\ Goto(w, "owner", l(r))
  BY DEF UpdateOwner
<1>2. /\ TypeOK /\ loc[w] \in Loc /\ Running(w) /\ pc[w] = "owner"
      /\ Cmd(w) = "replace_owner" /\ ~Edits(w)
  BY LocFields DEF IInv, UpdateOwner, Running, Control, Placed, Places, Edits
<1>3. Open(w) /\ Rightful(w) BY <1>2 DEF IInv, OpenTransactions, Open
<1>4. tx[w].writes \subseteq Rewritten(w) BY <1>2, <1>3 DEF Rightful, RightfulInsert
<1>5. ASSUME NEW x \in rows[loc[w].db], x.id \in tx[w].locked
      PROVE  \E y \in tx[w].writes : y.id = x.id /\ RightfulUpdate(w, x, y)
  BY <1>2, <1>3, <1>5 DEF Rightful, RightfulDelete
<1>6. \A x, y : RightfulUpdate(w, x, y) <=> x.owner # NoOwner /\ y.owner = req[w].newToken
  BY <1>2 DEF RightfulUpdate
<1>7. r \in Row /\ moved(r).id = r.id /\ moved(r).owner = req[w].newToken
  BY <1>2, LocFields DEF Row
<1>8. \A x \in now(r) : x \in ViewOf(w) /\ x.id = r.id /\ x.owner # NoOwner
  OBVIOUS
<1>9. now(r) = {} => new(r) = {} OBVIOUS
<1>10. now(r) # {} => new(r) = {moved(r)} OBVIOUS
<1> HIDE DEF aff
<1>11. l(r).db = loc[w].db BY <1>2 DEF Loc
<1> HIDE DEF l
<1>12. /\ \A x, z \in now(r) : x = z
       /\ \A x \in ViewOf(w) : x.id = r.id /\ x.owner # NoOwner => x \in now(r)
  BY <1>2, ViewUnique
<1> HIDE DEF now, new, moved
<1>13. /\ pc'[w] = "owner" /\ loc'[w].db = loc[w].db /\ OthersKeep(w)
       /\ tx'[w].locked = tx[w].locked \cup {x.id : x \in now(r) \cup new(r)}
       /\ tx'[w].writes = (tx[w].writes \ now(r)) \cup new(r)
  BY <1>1, <1>2, <1>11, GotoMeans, WriteMeans DEF OthersKeep
<1>14. UNCHANGED <<rows, zones, nextId, req>> BY DEF UpdateOwner, OnlyTx, database
\* The row behind the version that is replaced.
<1>15. ASSUME now(r) # {} PROVE \E x \in rows[loc[w].db] : x.id = r.id
  <2>1. PICK z \in now(r) : TRUE BY <1>15
  <2>2. z \in rows[loc[w].db] \/ z \in tx[w].writes BY <1>2, <1>8, ViewMeans
  <2> QED BY <1>4, <1>8, <2>2 DEF Rewritten
<1>16. tx'[w].writes \subseteq Rewritten(w)'
  <2> SUFFICES ASSUME NEW y \in tx'[w].writes
               PROVE  \E x \in rows[loc[w].db] : x.id = y.id
    BY <1>13, <1>14 DEF Rewritten
  <2>1. CASE y \in tx[w].writes BY <1>4, <2>1 DEF Rewritten
  <2>2. CASE y \in new(r) BY <1>7, <1>9, <1>10, <1>15, <2>2
  <2> QED BY <1>13, <2>1, <2>2
<1>17. ASSUME NEW x \in rows[loc[w].db], x.id \in tx'[w].locked
       PROVE  \E y \in tx'[w].writes : y.id = x.id /\ RightfulUpdate(w, x, y)
  <2>1. CASE x.id # r.id
    <3>1. x.id \in tx[w].locked BY <1>7, <1>8, <1>9, <1>10, <1>13, <1>17, <2>1
    <3>2. PICK y \in tx[w].writes : y.id = x.id /\ RightfulUpdate(w, x, y) BY <1>5, <3>1
    <3>3. y \notin now(r) BY <1>8, <2>1, <3>2
    <3> QED BY <1>13, <3>2, <3>3
  <2>2. CASE x.id = r.id /\ now(r) # {}
    <3>1. moved(r) \in tx'[w].writes BY <1>10, <1>13, <2>2
    <3>2. x.owner # NoOwner
      <4>1. CASE x.id \in tx[w].locked BY <1>5, <1>6, <4>1
      <4>2. CASE x.id \notin tx[w].locked
        <5>1. PICK z \in now(r) : TRUE BY <2>2
        <5>2. x = z BY <1>2, <1>8, <2>2, <4>2, ViewMeans
        <5> QED BY <1>8, <5>2
      <4> QED BY <4>1, <4>2
    <3> QED BY <1>6, <1>7, <2>2, <3>1, <3>2
  <2>3. CASE x.id = r.id /\ now(r) = {}
    <3>1. x.id \in tx[w].locked BY <1>9, <1>13, <1>17, <2>3
    <3> QED BY <1>5, <1>9, <1>13, <2>3, <3>1
  <2> QED BY <2>1, <2>2, <2>3
<1>18. Rightful(w)'
  BY <1>2, <1>13, <1>14, <1>16, <1>17 DEF Rightful, RightfulUpdate, Edits, Cmd
<1>19. \A x \in now(r) \cup new(r) : x.id = r.id BY <1>7, <1>8, <1>9, <1>10
<1>20. now(r) \cup new(r) # {} => r.id < nextId[loc[w].db]
  <2>1. ASSUME NEW z \in now(r) PROVE r.id < nextId[loc[w].db]
    BY <1>2, <1>8, ViewMeans
  <2> QED BY <1>9, <2>1
<1>21. \A y \in new(r), z \in tx[w].writes \ now(r) : y.id # z.id
  <2> SUFFICES ASSUME NEW y \in new(r), NEW z \in tx[w].writes \ now(r), y.id = z.id
               PROVE  FALSE
    OBVIOUS
  <2>1. z.id = r.id /\ z \in ViewOf(w) BY <1>19 DEF ViewOf
  <2>2. PICK x \in now(r) : TRUE BY <1>9
  <2>3. x = z BY <1>2, <1>8, <2>1, <2>2, ViewUnique
  <2> QED BY <2>3
<1>22. \A d \in Orm : nextId'[d] \in Nat /\ nextId[d] <= nextId'[d]
  BY <1>2, <1>14 DEF TypeOK
<1>23. \A y, z \in new(r) : y.id = z.id => y = z BY <1>9, <1>10
<1> QED BY <1>1, <1>2, <1>13, <1>14, <1>18, <1>19, <1>20, <1>21, <1>22, <1>23,
           WritingStaysOpen

\* The SOA that a handler holds is a version of an SOA of its zone.
LEMMA SaveSoaStaysOpen == ASSUME IInv, NEW w \in Handler, SaveSoa(w) PROVE OpenTransactions'
<1> DEFINE put(x, now) == [x EXCEPT !.owner = now.owner]
<1>1. PICK x \in loc[w].soa, now \in ViewOf(w) :
             /\ now.id = x.id /\ ~LockedByOther(w, x.id)
             /\ Write(w, {now}, {put(x, now)}) /\ Goto(w, "commit", loc[w])
  BY DEF SaveSoa
<1>2. /\ TypeOK /\ Running(w) /\ pc[w] = "save" /\ Edits(w) /\ loc[w].db \in Orm
      /\ x.type = "SOA" /\ x.domain = req[w].domain
      /\ x.id \in tx[w].locked => Written(w, x.id)
  BY PlaceTells DEF IInv, SaveSoa, Running, Control, Placed
<1>3. Open(w) /\ Rightful(w) BY <1>2 DEF IInv, OpenTransactions, Open
<1>4. Rewritten(w) = {} BY <1>2, <1>3, NothingRewritten
<1> DEFINE m == put(x, now)
<1>5. /\ m.id = x.id /\ m.type = "SOA" /\ m.domain = req[w].domain /\ m.owner = now.owner
  BY <1>2, LocFields DEF Row
<1> HIDE DEF put
<1> HIDE DEF m
<1>6. Write(w, {now}, {m}) BY <1>1 DEF m
<1>7. /\ pc'[w] = "commit" /\ loc'[w].db = loc[w].db /\ OthersKeep(w)
      /\ tx'[w].locked = tx[w].locked \cup {y.id : y \in {now} \cup {m}}
      /\ tx'[w].writes = (tx[w].writes \ {now}) \cup {m}
  BY <1>1, <1>2, <1>6, GotoMeans, WriteMeans DEF OthersKeep
<1>8. UNCHANGED <<rows, zones, nextId, req>> BY DEF SaveSoa, OnlyTx, database
<1>9. tx'[w].locked = tx[w].locked \cup {x.id} BY <1>1, <1>5, <1>7
<1>10. now.id < nextId[loc[w].db] BY <1>2, ViewMeans
<1>11. Rewritten(w)' \subseteq {m} BY <1>4, <1>7, <1>8 DEF Rewritten
<1>12. ASSUME NEW a \in rows[loc[w].db], a.id \in tx'[w].locked
       PROVE  \/ RightfulDelete(w, a) /\ \A y \in tx'[w].writes : y.id # a.id
              \/ \E y \in tx'[w].writes : y.id = a.id /\ RightfulUpdate(w, a, y)
  <2>1. CASE a.id \in tx[w].locked
    <3>1. RightfulDelete(w, a) /\ ~Written(w, a.id)
      BY <1>3, <1>4, <2>1 DEF Rightful, Rewritten
    <3>2. a.id # x.id BY <1>2, <2>1, <3>1
    <3> QED BY <1>5, <1>7, <3>1, <3>2 DEF Written
  <2>2. CASE a.id \notin tx[w].locked
    <3>1. a.id = x.id BY <1>9, <1>12, <2>2
    <3>2. a = now BY <1>1, <1>2, <2>2, <3>1, ViewMeans
    <3>3. a \in Versions(loc[w].db) /\ x \in Versions(loc[w].db)
      BY <1>12, VersionsOf DEF Held
    <3>4. SameRow(a, x) BY <1>2, <3>1, <3>3 DEF IInv, RowIdentity
    <3>5. RightfulUpdate(w, a, m) BY <1>2, <1>5, <3>2, <3>4 DEF RightfulUpdate, SameRow
    <3>6. m \in tx'[w].writes /\ m.id = a.id BY <1>5, <1>7, <3>1
    <3> QED BY <3>5, <3>6
  <2> QED BY <2>1, <2>2
<1>13. ASSUME NEW y \in tx'[w].writes, y \notin Rewritten(w)' PROVE RightfulInsert(w, y)
  <2>1. CASE y \in tx[w].writes BY <1>3, <1>4, <2>1 DEF Rightful
  <2>2. CASE y = m
    <3>1. now \notin rows[loc[w].db]
      BY <1>1, <1>5, <1>7, <1>8, <1>13, <2>2 DEF Rewritten
    <3>2. now \in tx[w].writes BY <1>2, <3>1, ViewMeans
    <3>3. RightfulInsert(w, now) BY <1>3, <1>4, <3>2 DEF Rightful
    <3> QED BY <1>5, <2>2, <3>3 DEF RightfulInsert
  <2> QED BY <1>7, <2>1, <2>2
<1>14. Rightful(w)'
  <2>1. \A a, y : /\ RightfulDelete(w, a)' <=> RightfulDelete(w, a)
                  /\ RightfulUpdate(w, a, y)' <=> RightfulUpdate(w, a, y)
                  /\ RightfulInsert(w, y)' <=> RightfulInsert(w, y)
    BY <1>8 DEF RightfulDelete, RightfulUpdate, RightfulInsert, Edits, Cmd
  <2> QED BY <1>7, <1>8, <1>11, <1>12, <1>13, <2>1 DEF Rightful, Written
<1>15. \A y \in {m}, z \in tx[w].writes \ {now} : y.id # z.id
  <2>1. \A z \in tx[w].writes : z \in ViewOf(w) BY DEF ViewOf
  <2> QED BY <1>1, <1>2, <1>5, <2>1, ViewUnique
<1>16. \A y \in {now} \cup {m} : y.id < nextId[loc[w].db] /\ ~LockedByOther(w, y.id)
  BY <1>1, <1>5, <1>10
<1>17. \A d \in Orm : nextId'[d] \in Nat /\ nextId[d] <= nextId'[d]
  BY <1>2, <1>8 DEF TypeOK
<1>18. \A y, z \in {m} : y.id = z.id => y = z OBVIOUS
<1> QED BY <1>2, <1>6, <1>7, <1>8, <1>14, <1>15, <1>16, <1>17, <1>18, WritingStaysOpen

\* The SOA that gorm inserts is not there, and nobody's.
LEMMA InsertSoaStaysOpen == ASSUME IInv, NEW w \in Handler, InsertSoa(w) PROVE OpenTransactions'
<1> DEFINE put(x) == [x EXCEPT !.owner = NoOwner]
<1>1. PICK x \in loc[w].soa :
             /\ \A now \in ViewOf(w) : now.id # x.id
             /\ ~LockedByOther(w, x.id)
             /\ Write(w, {}, {put(x)}) /\ Goto(w, "commit", loc[w])
  BY DEF InsertSoa
<1>2. /\ TypeOK /\ Running(w) /\ pc[w] = "insert" /\ Edits(w) /\ loc[w].db \in Orm
      /\ x.type = "SOA" /\ x.domain = req[w].domain
      /\ x.id \in tx[w].locked => Written(w, x.id)
  BY PlaceTells DEF IInv, InsertSoa, Running, Control, Placed
<1>3. Open(w) /\ Rightful(w) BY <1>2 DEF IInv, OpenTransactions, Open
<1>4. Rewritten(w) = {} BY <1>2, <1>3, NothingRewritten
<1> DEFINE m == put(x)
<1>5. /\ m.id = x.id /\ m.type = "SOA" /\ m.domain = req[w].domain /\ m.owner = NoOwner
  BY <1>2, LocFields DEF Row
<1> HIDE DEF put
<1> HIDE DEF m
<1>6. Write(w, {}, {m}) BY <1>1 DEF m
<1>7. /\ pc'[w] = "commit" /\ loc'[w].db = loc[w].db /\ OthersKeep(w)
      /\ tx'[w].locked = tx[w].locked \cup {y.id : y \in {} \cup {m}}
      /\ tx'[w].writes = (tx[w].writes \ {}) \cup {m}
  BY <1>1, <1>2, <1>6, GotoMeans, WriteMeans DEF OthersKeep
<1>8. UNCHANGED <<rows, zones, nextId, req>> BY DEF InsertSoa, OnlyTx, database
<1>9. x.id \notin tx[w].locked
  <2>1. \A y \in tx[w].writes : y.id # x.id BY <1>1 DEF ViewOf
  <2> QED BY <1>2, <2>1 DEF Written
<1>10. \A a \in rows[loc[w].db] : a.id # x.id BY <1>1, <1>9 DEF ViewOf
<1>11. x.id < nextId[loc[w].db]
  <2>1. x \in Versions(loc[w].db) BY VersionsOf DEF Held
  <2> QED BY <1>2, <2>1 DEF IInv, RowIdentity
<1>12. Rewritten(w)' = {} BY <1>4, <1>5, <1>7, <1>8, <1>10 DEF Rewritten
<1>13. ASSUME NEW a \in rows[loc[w].db], a.id \in tx'[w].locked
       PROVE  RightfulDelete(w, a) /\ \A y \in tx'[w].writes : y.id # a.id
  <2>1. a.id \in tx[w].locked BY <1>5, <1>7, <1>10, <1>13
  <2>2. RightfulDelete(w, a) /\ ~Written(w, a.id)
    BY <1>3, <1>4, <2>1 DEF Rightful, Rewritten
  <2> QED BY <1>5, <1>7, <1>10, <2>2 DEF Written
<1>14. ASSUME NEW y \in tx'[w].writes PROVE RightfulInsert(w, y)
  BY <1>2, <1>3, <1>4, <1>5, <1>7 DEF Rightful, RightfulInsert
<1>15. Rightful(w)'
  <2>1. \A a, y : /\ RightfulDelete(w, a)' <=> RightfulDelete(w, a)
                  /\ RightfulInsert(w, y)' <=> RightfulInsert(w, y)
    BY <1>8 DEF RightfulDelete, RightfulInsert, Edits, Cmd
  <2> QED BY <1>7, <1>8, <1>12, <1>13, <1>14, <2>1 DEF Rightful, Written
<1>16. \A y \in {m}, z \in tx[w].writes \ {} : y.id # z.id
  BY <1>1, <1>5 DEF ViewOf
<1>17. \A y \in {} \cup {m} : y.id < nextId[loc[w].db] /\ ~LockedByOther(w, y.id)
  BY <1>1, <1>5, <1>11
<1>18. \A d \in Orm : nextId'[d] \in Nat /\ nextId[d] <= nextId'[d]
  BY <1>2, <1>8 DEF TypeOK
<1>19. \A y, z \in {m} : y.id = z.id => y = z OBVIOUS
<1> QED BY <1>2, <1>6, <1>7, <1>8, <1>15, <1>16, <1>17, <1>18, <1>19, WritingStaysOpen

\* The rows that create and replace insert are the token's, under ids nobody has.
LEMMA InsertStaysOpen ==
  ASSUME IInv, NEW w \in Handler, Running(w), Edits(w), pc[w] # "commit",
         Rec(w) \in Record, Insert(w), NEW n, NextRecord(w, n), OnlyNew
  PROVE  OpenTransactions'
<1> DEFINE d == loc[w].db
<1>1. /\ TypeOK /\ d \in Orm /\ Open(w) /\ Rightful(w)
  BY DEF IInv, Control, Placed, OpenTransactions, Open
<1>2. Rewritten(w) = {} BY <1>1, NothingRewritten
<1>3. /\ \A e \in Orm : nextId'[e] \in Nat /\ nextId[e] \in Nat /\ nextId[e] <= nextId'[e]
      /\ nextId'[d] = nextId[d] + Len(Rec(w).data)
  <2>1. Len(Rec(w).data) \in Nat BY <1>1, NewRowsTyped
  <2> QED BY <1>1, <2>1 DEF TypeOK, Insert
<1>4. ASSUME NEW y \in NewRows(w)
      PROVE  /\ y.id \in Nat /\ nextId[d] <= y.id /\ y.id < nextId'[d]
             /\ \A z \in NewRows(w) : y.id = z.id => y = z
             /\ RightfulInsert(w, y)
  BY <1>1, <1>3, NewRowsFresh, NewRowsTyped DEF Row, RightfulInsert
<1>5. ASSUME NEW v \in Handler, loc[v].db = d, NEW id \in tx[v].locked
      PROVE  id \in Nat /\ id < nextId[d]
  <2>1. Running(v) BY <1>5 DEF IInv, Control, Placed, NoTx
  <2>2. Open(v) BY <2>1 DEF IInv, OpenTransactions
  <2>3. id \in Nat BY <1>1, <1>5 DEF TypeOK, Tx
  <2> QED BY <1>5, <2>2, <2>3 DEF Open
<1>6. ASSUME NEW a \in rows[d] PROVE a.id \in Nat /\ a.id < nextId[d]
  <2>1. a \in Versions(d) /\ a \in Row BY <1>1, <1>6, VersionsOf DEF TypeOK
  <2> QED BY <1>1, <2>1 DEF IInv, RowIdentity, Row
<1>7. ASSUME NEW y \in NewRows(w) PROVE ~LockedByOther(w, y.id)
  BY <1>1, <1>3, <1>4, <1>5 DEF LockedByOther
<1>8. /\ pc'[w] = "records" /\ loc'[w].db = loc[w].db /\ OthersKeep(w)
      /\ tx'[w].locked = tx[w].locked \cup {y.id : y \in {} \cup NewRows(w)}
      /\ tx'[w].writes = (tx[w].writes \ {}) \cup NewRows(w)
  BY <1>1, GotoMeans, WriteMeans DEF OthersKeep, Insert, NextRecord, LocAt
<1>9. UNCHANGED <<rows, zones, req>> BY DEF OnlyNew
<1>10. ASSUME NEW y \in NewRows(w), NEW a \in rows[d] PROVE y.id # a.id
  BY <1>1, <1>3, <1>4, <1>6
<1>11. Rewritten(w)' = {} BY <1>2, <1>8, <1>9, <1>10 DEF Rewritten
<1>12. ASSUME NEW a \in rows[d], a.id \in tx'[w].locked
       PROVE  RightfulDelete(w, a) /\ \A y \in tx'[w].writes : y.id # a.id
  <2>1. a.id \in tx[w].locked BY <1>8, <1>10, <1>12
  <2>2. RightfulDelete(w, a) /\ ~Written(w, a.id)
    BY <1>1, <1>2, <2>1 DEF Rightful, Rewritten
  <2> QED BY <1>8, <1>10, <2>2 DEF Written
<1>13. ASSUME NEW y \in tx'[w].writes PROVE RightfulInsert(w, y)
  BY <1>1, <1>2, <1>4, <1>8 DEF Rightful
<1>14. Rightful(w)'
  <2>1. \A a, y : /\ RightfulDelete(w, a)' <=> RightfulDelete(w, a)
                  /\ RightfulInsert(w, y)' <=> RightfulInsert(w, y)
    BY <1>9 DEF RightfulDelete, RightfulInsert, Edits, Cmd
  <2> QED BY <1>8, <1>9, <1>11, <1>12, <1>13, <2>1 DEF Rightful, Written
<1>15. \A y \in NewRows(w), z \in tx[w].writes \ {} : y.id # z.id
  <2>1. \A z \in tx[w].writes : z.id \in tx[w].locked BY <1>1 DEF Open
  <2> QED BY <1>1, <1>3, <1>4, <1>5, <2>1
<1>16. Write(w, {}, NewRows(w)) BY DEF Insert
<1> HIDE DEF d
<1> QED BY <1>3, <1>4, <1>7, <1>8, <1>9, <1>14, <1>15, <1>16, WritingStaysOpen DEF d

\* create_domain holds nothing but the name it has found to be free.
LEMMA InsertDomainStaysOpen ==
  ASSUME IInv, NEW w \in Handler, InsertDomain(w) PROVE OpenTransactions'
<1>1. TypeOK /\ tx[w] = NoTx /\ pc[w] = "zone" BY DEF IInv, Control, Placed, InsertDomain
<1>2. tx'[w] = [tx[w] EXCEPT !.made = {req[w].domain}] /\ \A v \in Handler \ {w} : tx'[v] = tx[v]
  BY <1>1 DEF TypeOK, InsertDomain
<1>3. tx'[w].locked = {} /\ tx'[w].writes = {} /\ tx'[w].made = {req[w].domain}
  BY <1>1, <1>2 DEF NoTx
<1>4. OthersKeep(w) /\ loc'[w].db = loc[w].db
  BY <1>1, <1>2, GotoMeans DEF OthersKeep, InsertDomain
<1>5. UNCHANGED <<rows, zones, nextId, req>> BY DEF InsertDomain, OnlyTx, database
<1>6. ~ZonePending(w) /\ zones[loc[w].db][req[w].domain] = "absent" BY DEF InsertDomain
<1>7. ~ZonePending(w)' BY <1>4, <1>5, <1>6 DEF ZonePending, OthersKeep
<1>8. Open(w)' BY <1>3, <1>4, <1>5, <1>6, <1>7 DEF Open, Rightful, Rewritten
<1>9. ~ZonePending(w) BY DEF InsertDomain
<1> QED BY <1>3, <1>4, <1>5, <1>8, <1>9, OneHandlerStaysOpen

\* A commit changes no row that another transaction holds, and makes no zone
\* that another one makes.
LEMMA ApplyStaysOpen ==
  ASSUME IInv, NEW w \in Handler, Running(w), Apply(w), OthersKeep(w)
  PROVE  OpenTransactions'
<1>1. TypeOK /\ loc[w].db \in Orm BY DEF IInv, Control, Placed
<1>2. /\ rows'[loc[w].db] = ViewOf(w) /\ tx'[w] = NoTx /\ nextId' = nextId /\ req' = req
      /\ \A d \in Orm \ {loc[w].db} : rows'[d] = rows[d] /\ zones'[d] = zones[d]
      /\ \A n \in DomainName : zones'[loc[w].db][n] =
              IF n \in tx[w].made THEN "NATIVE" ELSE zones[loc[w].db][n]
  BY <1>1, ApplyMeans
<1>3. ASSUME NEW v \in Handler \ {w}, Running(v)' PROVE Open(v)'
  <2>1. Running(v) /\ tx'[v] = tx[v] /\ loc'[v] = loc[v] /\ pc'[v] = pc[v]
    BY <1>3 DEF Running, OthersKeep
  <2>2. Open(v) /\ Rightful(v) /\ loc[v].db \in Orm
    BY <2>1 DEF IInv, OpenTransactions, Open, Control, Placed
  <2>3. \A id \in tx[v].locked : ~LockedByOther(v, id)'
    BY <1>2, <2>1, <2>2 DEF Open, LockedByOther, OthersKeep, NoTx
  <2>4. ASSUME NEW x, x.id \in tx[v].locked
        PROVE  x \in rows'[loc[v].db] <=> x \in rows[loc[v].db]
    <3>1. CASE loc[v].db # loc[w].db BY <1>2, <2>2, <3>1
    <3>2. CASE loc[v].db = loc[w].db
      <4>1. x.id \notin tx[w].locked BY <2>2, <2>4, <3>2 DEF Open, LockedByOther
      <4>2. x \notin tx[w].writes BY <4>1 DEF IInv, OpenTransactions, Open
      <4> QED BY <1>2, <3>2, <4>1, <4>2 DEF ViewOf
    <3> QED BY <3>1, <3>2
  <2>5. Rewritten(v)' = Rewritten(v)
    <3>1. \A y \in tx[v].writes : y.id \in tx[v].locked BY <2>2 DEF Open
    <3> QED BY <2>1, <2>4, <3>1 DEF Rewritten
  <2>6. Rightful(v)'
    <3>1. \A a, y : /\ RightfulDelete(v, a)' <=> RightfulDelete(v, a)
                    /\ RightfulInsert(v, y)' <=> RightfulInsert(v, y)
                    /\ RightfulUpdate(v, a, y)' <=> RightfulUpdate(v, a, y)
      BY <1>2 DEF RightfulDelete, RightfulInsert, RightfulUpdate, Edits, Cmd
    <3>2. Edits(v)' <=> Edits(v) BY <1>2 DEF Edits, Cmd
    <3> QED BY <2>1, <2>2, <2>4, <2>5, <3>1, <3>2 DEF Rightful, Written
  <2>7. ASSUME NEW n \in tx[v].made
        PROVE  zones'[loc[v].db][n] = "absent" /\ ~ZonePending(v)'
    <3>1. /\ zones[loc[v].db][n] = "absent" /\ ~ZonePending(v) /\ n = req[v].domain
          /\ n \in DomainName
      BY <2>2, <2>7, <1>1 DEF Open, IInv, Control, Placed, TypeOK, Tx
    <3>2. loc[v].db = loc[w].db => n \notin tx[w].made BY <3>1 DEF ZonePending
    <3>3. ~ZonePending(v)'
      BY <1>2, <2>1, <3>1 DEF ZonePending, OthersKeep, NoTx
    <3> QED BY <1>2, <2>2, <3>1, <3>2, <3>3
  <2> QED BY <1>2, <2>1, <2>2, <2>3, <2>6, <2>7 DEF Open
<1>4. Open(w)' BY <1>2, EmptyIsOpen
<1> QED BY <1>3, <1>4 DEF OpenTransactions

\* One step of handler w, whatever it is.
LEMMA OpenHandle == ASSUME IInv, NEW w \in Handler, Handle(w) PROVE OpenTransactions'
<1>1. /\ TypeOK /\ loc[w] \in Loc
      /\ \A p, l : Goto(w, p, l) => /\ loc'[w] = l
                                    /\ \A v \in Handler \ {w} : loc'[v] = loc[v] /\ pc'[v] = pc[v]
  BY LocFields, GotoMeans DEF IInv
\* The steps that change nothing but w's place, its record and the reply.
<1>2. ASSUME Running(w), pc[w] # "commit", NEW p, NEW l, Goto(w, p, l), l.db = loc[w].db,
             UNCHANGED <<tx, req, rows, zones, nextId>>
      PROVE  OpenTransactions'
  BY <1>1, <1>2, MovingStaysOpen DEF OthersKeep
<1>3. FindDomain(w) \/ BeginRecords(w) \/ EndOfRecords(w) \/ SoaVanished(w)
        \/ InsertNothing(w) => OpenTransactions'
  BY <1>2 DEF FindDomain, BeginRecords, EndOfRecords, SoaVanished, InsertNothing,
              OnlyLoc, database, Running
<1>4. \A n : LocAt(loc[w].db, loc[w].ri + 1, n).db = loc[w].db BY DEF LocAt
<1>5. DeletedAll(w) \/ EndOwner(w) => OpenTransactions'
  <2> HIDE DEF LocAt
  <2> QED BY <1>2, <1>4 DEF DeletedAll, EndOwner, NextRecord, OnlyLoc, database, Running
<1>6. [loc[w] EXCEPT !.di = @ + 1].db = loc[w].db BY <1>1 DEF Loc
<1>7. DeleteNextItem(w) => OpenTransactions'
  <2> HIDE DEF LocAt
  <2> QED BY <1>2, <1>4, <1>6 DEF DeleteNextItem, NextRecord, database, Running
<1>8. \A S : [loc[w] EXCEPT !.cand = S].db = loc[w].db
  BY <1>1 DEF Loc
<1>9. StartDelete(w) \/ SelectOwned(w) => OpenTransactions'
  BY <1>2, <1>8 DEF StartDelete, Deletes, SelectOwned, AtRecord, OnlyLoc, database, Running
<1>10. \A S : [loc[w] EXCEPT !.soa = S].db = loc[w].db
  BY <1>1 DEF Loc
<1>11. ReadSoa(w) => OpenTransactions'
  BY <1>2, <1>10 DEF ReadSoa, OnlyLoc, database, Running
<1>12. CreateRecord(w) => OpenTransactions'
  BY <1>1, RecTyped, InsertStaysOpen DEF CreateRecord, AtRecord, Running, Edits
<1>13. ReplaceInsert(w) => OpenTransactions'
  BY <1>1, RecTyped, InsertStaysOpen DEF ReplaceInsert, Running, Edits, IInv, Control, Placed
<1>14. Commit(w) => OpenTransactions'
  <2> SUFFICES ASSUME Commit(w) PROVE OpenTransactions' OBVIOUS
  <2>1. Running(w) /\ loc[w].db \in Orm
    BY DEF Commit, Running, IInv, Control, Placed
  <2>2. OthersKeep(w)
    BY <1>1, <2>1, ApplyMeans, NextDatabaseMeans DEF Commit, OthersKeep
  <2> QED BY <2>1, <2>2, ApplyStaysOpen DEF Commit
<1>15. Die => OpenTransactions' BY EmptyIsOpen DEF Die, OpenTransactions
<1>16. Fail(w) => OpenTransactions' BY <1>1, FailMeans, ClosingStaysOpen
<1> QED
  BY <1>3, <1>5, <1>7, <1>9, <1>11, <1>12, <1>13, <1>14, <1>15, <1>16,
     DeleteRowStaysOpen, UpdateOwnerStaysOpen, SaveSoaStaysOpen, InsertSoaStaysOpen,
     InsertDomainStaysOpen
  DEF Handle, DomainConflict, CannotBegin, EmptyData, CreateConflict, ReplaceMissing,
      NothingOwned, NoSoa, InsertConflict, DeadlockAbort, Panic

\* Every step.
LEMMA OpenStep == IInv /\ [Next]_vars => OpenTransactions'
<1> SUFFICES ASSUME IInv, [Next]_vars PROVE OpenTransactions' OBVIOUS
<1>1. TypeOK BY DEF IInv
<1>2. ASSUME NEW w \in Handler, Deliver(w) PROVE OpenTransactions'
  <2>1. tx[w] = NoTx BY <1>2 DEF IInv, Control, Placed, Running, Deliver
  <2>2. OthersKeep(w) BY <1>1, <1>2, NextDatabaseMeans DEF Deliver, OthersKeep
  <2> QED BY <1>2, <2>1, <2>2, ClosingStaysOpen DEF Deliver, database
<1>3. ASSUME NEW w \in Handler, RejectSerial(w) PROVE OpenTransactions'
  BY <1>1, <1>3, FailMeans, ClosingStaysOpen DEF RejectSerial
<1>4. ASSUME NEW w \in Handler, Handle(w) PROVE OpenTransactions'
  BY <1>4, OpenHandle
<1>5. ASSUME NEW w \in Handler, ConnectionLost(w) PROVE OpenTransactions'
  <2>1. tx'[w] = NoTx /\ OthersKeep(w)
    BY <1>1, <1>5, GotoMeans DEF ConnectionLost, Finish, OthersKeep, TypeOK
  <2> QED BY <1>5, <2>1, ClosingStaysOpen DEF ConnectionLost, database
<1>6. ASSUME NEW w \in Handler, CommitLost(w) PROVE OpenTransactions'
  <2>1. Running(w) BY <1>6 DEF CommitLost, Running
  <2>2. loc[w].db \in Orm BY <2>1 DEF IInv, Control, Placed
  <2>3. OthersKeep(w)
    BY <1>1, <1>6, <2>2, ApplyMeans, GotoMeans DEF CommitLost, Finish, OthersKeep
  <2> QED BY <1>6, <2>1, <2>3, ApplyStaysOpen DEF CommitLost
<1>7. CASE Crash BY <1>7, EmptyIsOpen DEF Crash, Die, OpenTransactions
<1>8. CASE Tick \/ UNCHANGED vars
  BY <1>8 DEF Tick, vars, database, IInv, OpenTransactions, Running, Open, Rightful, Rewritten,
              RightfulDelete, RightfulInsert, RightfulUpdate, Written, LockedByOther,
              ZonePending, Edits, Cmd
<1> QED BY <1>2, <1>3, <1>4, <1>5, <1>6, <1>7, <1>8 DEF Next, Terminated

-----------------------------------------------------------------------------
(* Control: where a handler is, and what it has done by then.              *)

\* A step of w moves nobody else.
LEMMA OthersStayPlaced ==
  ASSUME Control, NEW w \in Handler, OthersKeep(w), req' = req,
         \A v \in Handler \ {w} : recs'[v] = recs[v], Placed(w)'
  PROVE  Control'
<1>1. ASSUME NEW v \in Handler \ {w} PROVE Placed(v)'
  <2>1. /\ Placed(v) /\ tx'[v] = tx[v] /\ loc'[v] = loc[v] /\ pc'[v] = pc[v]
        /\ recs'[v] = recs[v]
    BY DEF Control, OthersKeep
  <2> QED BY <2>1 DEF Placed, Running, Cmd, Rec, Written
<1> QED BY <1>1 DEF Control

\* A handler that has ended, and one that goes on to the next database.
LEMMA EndedIsPlaced ==
  ASSUME NEW w \in Handler, pc'[w] \in {"done", "lost", "idle"}, tx'[w] = NoTx, loc'[w] = NoLoc
  PROVE  Placed(w)'
BY DEF Placed, Running, NoTx, NoLoc, LocAt

\* A handler that begins a database is where Placed wants it.
LEMMA BeginningIsPlaced ==
  ASSUME NEW w \in Handler, NEW d \in Orm, pc'[w] = "begin", tx'[w] = NoTx,
         loc'[w] = LocAt(d, 1, 0)
  PROVE  Placed(w)'
<1>1. loc'[w].db = d /\ loc'[w].di = 1 /\ loc'[w].soa = {} BY DEF LocAt
<1> QED BY <1>1 DEF Placed, Running, NoTx, Places

\* So is one that goes on to the next database, or ends.
LEMMA NextDatabaseIsPlaced ==
  ASSUME TypeOK, NEW w \in Handler, NEW e, NextDatabase(w, e), tx'[w] = NoTx
  PROVE  Placed(w)'
BY NextDatabaseMeans, EndedIsPlaced, BeginningIsPlaced

\* Going on to the next record.
LEMMA NextRecordIsPlaced ==
  ASSUME IInv, NEW w \in Handler, Running(w), NEW n, NextRecord(w, n), req' = req,
         "records" \in Places(Cmd(w)), tx'[w].made = tx[w].made, pc[w] # "commit",
         Cmd(w) = "replace_owner" => req[w].newToken \in Token
  PROVE  Placed(w)'
<1>1. /\ pc'[w] = "records" /\ loc'[w].db = loc[w].db /\ loc'[w].di = 1 /\ loc'[w].soa = {}
  BY GotoMeans DEF NextRecord, LocAt, IInv
<1>2. Placed(w) BY DEF IInv, Control
<1>3. Cmd(w) # "create_domain" /\ Cmd(w)' = Cmd(w) BY DEF Places, Cmd
<1> QED BY <1>1, <1>2, <1>3 DEF Placed, Running

\* One step of handler w.
LEMMA PlacedHandle ==
  ASSUME IInv, NEW w \in Handler, Handle(w), ~Panic(w) PROVE Placed(w)' /\ OthersKeep(w)
<1>1. /\ TypeOK /\ loc[w] \in Loc /\ Placed(w)
      /\ \A p, l : Goto(w, p, l) => /\ pc'[w] = p /\ loc'[w] = l
                                    /\ \A v \in Handler \ {w} : loc'[v] = loc[v] /\ pc'[v] = pc[v]
      /\ \A gone, new : Write(w, gone, new) =>
           \A v \in Handler \ {w} : tx'[v] = tx[v]
  BY LocFields, GotoMeans, WriteMeans DEF IInv, Control
<1>2. FindDomain(w) => Placed(w)' /\ OthersKeep(w)
  BY <1>1 DEF FindDomain, OnlyLoc, Placed, Running, Places, Cmd, Written, OthersKeep, NoTx
<1>3. InsertDomain(w) => Placed(w)' /\ OthersKeep(w)
  <2> SUFFICES ASSUME InsertDomain(w) PROVE Placed(w)' /\ OthersKeep(w) OBVIOUS
  <2>1. tx[w] = NoTx /\ pc[w] = "zone" /\ Running(w) /\ Cmd(w) = "create_domain"
    BY <1>1 DEF InsertDomain, Placed, Running, Places
  <2>2. /\ tx'[w] = [tx[w] EXCEPT !.made = {req[w].domain}]
        /\ \A v \in Handler \ {w} : tx'[v] = tx[v]
    BY <1>1 DEF TypeOK, InsertDomain
  <2>3. tx'[w].locked = {} /\ tx'[w].writes = {} /\ tx'[w].made = {req[w].domain}
    BY <2>1, <2>2 DEF NoTx
  <2>4. pc'[w] = "commit" /\ loc'[w] = loc[w] /\ req' = req /\ OthersKeep(w)
    BY <1>1, <2>2 DEF InsertDomain, OthersKeep, OnlyTx
  <2> QED BY <1>1, <2>1, <2>3, <2>4 DEF Placed, Running, Cmd, Places
<1>4. BeginRecords(w) => Placed(w)' /\ OthersKeep(w)
  <2> SUFFICES ASSUME BeginRecords(w) PROVE Placed(w)' /\ OthersKeep(w) OBVIOUS
  <2>1. Cmd(w) \in Command BY <1>1, LocFields DEF RequestType, Cmd
  <2>2. /\ pc[w] = "begin" /\ pc'[w] = "records" /\ loc'[w] = loc[w] /\ tx' = tx
        /\ req' = req /\ recs' = recs /\ Cmd(w) # "create_domain" /\ OthersKeep(w)
        /\ Cmd(w) = "replace_owner" => req[w].newToken \in Token
    BY <1>1 DEF BeginRecords, MayBegin, OnlyLoc, OthersKeep
  <2> QED BY <1>1, <2>1, <2>2 DEF Placed, Running, Places, Cmd, Rec, Written, NoTx, Command
<1>5. CreateRecord(w) => Placed(w)' /\ OthersKeep(w)
  <2> SUFFICES ASSUME CreateRecord(w) PROVE Placed(w)' /\ OthersKeep(w) OBVIOUS
  <2>1. tx'[w].made = tx[w].made BY <1>1, WriteMeans DEF CreateRecord, Insert
  <2>2. Placed(w)'
    BY <2>1, NextRecordIsPlaced DEF CreateRecord, AtRecord, Running, Places, OnlyNew
  <2> QED BY <1>1, <2>2 DEF CreateRecord, Insert, NextRecord, OthersKeep
<1>6. StartDelete(w) => Placed(w)' /\ OthersKeep(w)
  <2> SUFFICES ASSUME StartDelete(w) PROVE Placed(w)' /\ OthersKeep(w) OBVIOUS
  <2> DEFINE l == [loc[w] EXCEPT !.cand = {x \in ViewOf(w) : Matched(w, x)}]
  <2>1. l.db = loc[w].db /\ l.ri = loc[w].ri /\ l.di = loc[w].di /\ l.soa = loc[w].soa
    BY <1>1 DEF Loc
  <2>2. Goto(w, "delete", l) BY DEF StartDelete
  <2> HIDE DEF l
  <2>3. pc'[w] = "delete" /\ loc'[w] = l /\ OthersKeep(w)
    BY <1>1, <2>2 DEF OthersKeep, StartDelete, OnlyLoc
  <2>4. /\ pc[w] = "records" /\ loc[w].ri \in DOMAIN recs[w]
        /\ Cmd(w) \in {"delete_record", "replace_record"} /\ UNCHANGED <<tx, req, recs>>
    BY DEF StartDelete, Deletes, AtRecord, OnlyLoc
  <2> QED BY <1>1, <2>1, <2>3, <2>4 DEF Placed, Running, Places, Cmd, Rec, Written
<1>7. ASSUME DeleteRow(w) \/ UpdateOwner(w) PROVE Placed(w)' /\ OthersKeep(w)
  <2> DEFINE at(r, n) == Goto(w, pc[w], [loc[w] EXCEPT !.cand = @ \ {r}, !.aff = n])
  <2>1. PICK r, n, gone, new : at(r, n) /\ Write(w, gone, new)
    <3>1. DeleteRow(w) => \E r, n, gone, new : at(r, n) /\ Write(w, gone, new)
      BY DEF DeleteRow
    <3>2. ASSUME UpdateOwner(w) PROVE \E r, n, gone, new : at(r, n) /\ Write(w, gone, new)
      <4> DEFINE now(r) == {x \in ViewOf(w) : x.id = r.id /\ x.owner # NoOwner}
                 new(r) == IF now(r) = {} THEN {} ELSE {[r EXCEPT !.owner = req[w].newToken]}
                 aff(r) == loc[w].aff + (IF now(r) = {} THEN 0 ELSE 1)
      <4>1. PICK r \in loc[w].cand : Write(w, now(r), new(r)) /\ at(r, aff(r))
        BY <3>2 DEF UpdateOwner
      <4> HIDE DEF now, new, aff, at
      <4> QED BY <4>1
    <3> HIDE DEF at
    <3> QED BY <1>7, <3>1, <3>2
  <2> DEFINE l == [loc[w] EXCEPT !.cand = @ \ {r}, !.aff = n]
  <2>2. l.db = loc[w].db /\ l.ri = loc[w].ri /\ l.di = loc[w].di /\ l.soa = loc[w].soa
    BY <1>1 DEF Loc
  <2> HIDE DEF l
  <2>3. pc'[w] = pc[w] /\ loc'[w] = l /\ OthersKeep(w) BY <1>1, <2>1 DEF OthersKeep, l
  <2>4. pc[w] \in {"delete", "owner"} /\ UNCHANGED <<req, recs>>
    BY <1>7 DEF DeleteRow, UpdateOwner, OnlyTx
  <2>5. Cmd(w) # "create_domain" BY <1>1, <2>4 DEF Placed, Running, Places
  <2>6. tx'[w].made = tx[w].made BY <1>1, <2>1, WriteMeans
  <2> QED BY <1>1, <2>2, <2>3, <2>4, <2>5, <2>6 DEF Placed, Running, Places, Cmd, Rec
<1>8. DeleteNextItem(w) => Placed(w)' /\ OthersKeep(w)
  <2> SUFFICES ASSUME DeleteNextItem(w) PROVE Placed(w)' /\ OthersKeep(w) OBVIOUS
  <2>1. /\ pc[w] = "delete" /\ Cmd(w) = "delete_record" /\ Running(w)
        /\ UNCHANGED <<tx, req>> /\ OthersKeep(w)
    BY <1>1 DEF DeleteNextItem, ByItem, Running, OthersKeep, NextRecord
  <2>2. CASE loc[w].di < Len(Rec(w).data)
    <3> DEFINE l == [loc[w] EXCEPT !.di = @ + 1]
    <3>1. l.db = loc[w].db /\ l.ri = loc[w].ri /\ l.di = loc[w].di + 1 /\ l.soa = loc[w].soa
      BY <1>1 DEF Loc
    <3>2. Goto(w, "records", l) BY <2>2 DEF DeleteNextItem
    <3> HIDE DEF l
    <3>3. pc'[w] = "records" /\ loc'[w] = l BY <1>1, <3>2
    <3>4. loc[w].ri \in DOMAIN recs[w] /\ Rec(w) \in Record
      BY <1>1, <2>1, RecTyped DEF Placed
    <3>5. recs[w] \in Seq(Record) BY <1>1 DEF TypeOK
    <3>6. loc[w].di + 1 \in DOMAIN Rec(w).data
      BY <1>1, <2>2, <3>4 DEF Record, Loc
    <3>7. DOMAIN Rec(w)'.data = DOMAIN Rec(w).data
      <4> DEFINE item == Content(Rec(w).type, Rec(w).data[loc[w].di])
                 data == [Rec(w).data EXCEPT ![loc[w].di] = item]
                 r    == [Rec(w) EXCEPT !.data = data]
      <4>1. recs' = [recs EXCEPT ![w] = [recs[w] EXCEPT ![loc[w].ri] = r]]
        BY DEF DeleteNextItem, StripItem, Rec
      <4>2. r.data = data
        <5> HIDE DEF data
        <5> QED BY <3>4 DEF Record
      <4>3. DOMAIN data = DOMAIN Rec(w).data
        <5> HIDE DEF item
        <5> QED OBVIOUS
      <4> HIDE DEF r
      <4>4. recs'[w][loc[w].ri] = r BY <1>1, <3>4, <4>1 DEF TypeOK
      <4>5. Rec(w)' = r BY <3>1, <3>3, <4>4 DEF Rec
      <4> QED BY <4>2, <4>3, <4>5
    <3> QED BY <1>1, <2>1, <3>1, <3>3, <3>6, <3>7 DEF Placed, Running, Places, Cmd
  <2>3. CASE ~(loc[w].di < Len(Rec(w).data))
    <3>1. NextRecord(w, loc[w].aff) BY <2>3 DEF DeleteNextItem
    <3> QED BY <1>1, <2>1, <3>1, NextRecordIsPlaced DEF Places
  <2> QED BY <2>2, <2>3
<1>9. DeletedAll(w) => Placed(w)' /\ OthersKeep(w)
  <2> SUFFICES ASSUME DeletedAll(w) PROVE Placed(w)' /\ OthersKeep(w) OBVIOUS
  <2>1. Placed(w)' BY <1>1, NextRecordIsPlaced DEF DeletedAll, OnlyLoc, Places, Running
  <2> QED BY <1>1, <2>1 DEF DeletedAll, NextRecord, OnlyLoc, OthersKeep
<1>10. ReplaceInsert(w) => Placed(w)' /\ OthersKeep(w)
  <2> SUFFICES ASSUME ReplaceInsert(w) PROVE Placed(w)' /\ OthersKeep(w) OBVIOUS
  <2>1. tx'[w].made = tx[w].made BY <1>1, WriteMeans DEF ReplaceInsert, Insert
  <2>2. Placed(w)'
    BY <2>1, NextRecordIsPlaced DEF ReplaceInsert, Running, Places, OnlyNew
  <2> QED BY <1>1, <2>2 DEF ReplaceInsert, Insert, NextRecord, OthersKeep
<1>11. SelectOwned(w) => Placed(w)' /\ OthersKeep(w)
  <2> SUFFICES ASSUME SelectOwned(w) PROVE Placed(w)' /\ OthersKeep(w) OBVIOUS
  <2> DEFINE l == [loc[w] EXCEPT !.cand = {x \in ViewOf(w) : Owned(w, x)}]
  <2>1. l.db = loc[w].db /\ l.soa = loc[w].soa BY <1>1 DEF Loc
  <2>2. Goto(w, "owner", l) BY DEF SelectOwned
  <2> HIDE DEF l
  <2>3. pc'[w] = "owner" /\ loc'[w] = l /\ OthersKeep(w)
    BY <1>1, <2>2 DEF OthersKeep, SelectOwned, OnlyLoc
  <2>4. pc[w] = "records" /\ Cmd(w) = "replace_owner" /\ UNCHANGED <<tx, req, recs>>
    BY DEF SelectOwned, AtRecord, OnlyLoc
  <2> QED BY <1>1, <2>1, <2>3, <2>4 DEF Placed, Running, Places, Cmd, Rec, Written
<1>12. EndOwner(w) => Placed(w)' /\ OthersKeep(w)
  <2> SUFFICES ASSUME EndOwner(w) PROVE Placed(w)' /\ OthersKeep(w) OBVIOUS
  <2>1. Cmd(w) = "replace_owner" /\ req[w].newToken \in Token
    BY <1>1, LocFields DEF EndOwner, Placed, Running, Places
  <2>2. Placed(w)'
    BY <1>1, <2>1, NextRecordIsPlaced DEF EndOwner, OnlyLoc, Places, Running
  <2> QED BY <1>1, <2>2 DEF EndOwner, NextRecord, OnlyLoc, OthersKeep
<1>13. EndOfRecords(w) => Placed(w)' /\ OthersKeep(w)
  <2> SUFFICES ASSUME EndOfRecords(w) PROVE Placed(w)' /\ OthersKeep(w) OBVIOUS
  <2>1. /\ pc[w] = "records" /\ pc'[w] \in {"soa", "commit"} /\ loc'[w] = loc[w]
        /\ UNCHANGED <<tx, req, recs>> /\ OthersKeep(w)
        /\ pc'[w] = "soa" => Cmd(w) # "replace_owner"
    BY <1>1 DEF EndOfRecords, OnlyLoc, OthersKeep
  <2> QED BY <1>1, <2>1 DEF Placed, Running, Places, Cmd
<1>14. ReadSoa(w) => Placed(w)' /\ OthersKeep(w)
  <2> SUFFICES ASSUME ReadSoa(w) PROVE Placed(w)' /\ OthersKeep(w) OBVIOUS
  <2> DEFINE stamped(x) == [x EXCEPT !.content = <<GenerateNewSerial(x.content[1], today)>>]
             l(x) == [loc[w] EXCEPT !.soa = {stamped(x)}]
  <2>1. PICK x \in Soas(w) : Goto(w, "save", l(x)) BY DEF ReadSoa
  <2>2. /\ pc[w] = "soa" /\ UNCHANGED <<tx, req, recs>> /\ loc[w].db \in Orm
    BY <1>1 DEF ReadSoa, OnlyLoc, Placed, Running
  <2>3. x \in Row /\ x \in ViewOf(w) /\ x.type = "SOA" /\ x.domain = req[w].domain
    BY <1>1, <2>2, ViewTyped DEF Soas
  <2>4. stamped(x).id = x.id /\ stamped(x).type = "SOA" /\ stamped(x).domain = req[w].domain
    BY <2>3 DEF Row
  <2>5. x.id \in tx[w].locked => Written(w, x.id) BY <2>3 DEF ViewOf, Written
  <2> HIDE DEF stamped
  <2>6. l(x).db = loc[w].db /\ l(x).soa = {stamped(x)} BY <1>1 DEF Loc
  <2> HIDE DEF l
  <2>7. pc'[w] = "save" /\ loc'[w] = l(x) /\ OthersKeep(w)
    BY <1>1, <2>1, <2>2 DEF OthersKeep
  <2> QED BY <1>1, <2>2, <2>4, <2>5, <2>6, <2>7 DEF Placed, Running, Places, Cmd, Written
<1>15. ASSUME SaveSoa(w) \/ InsertSoa(w) PROVE Placed(w)' /\ OthersKeep(w)
  <2>1. PICK gone, new : Write(w, gone, new) BY <1>15 DEF SaveSoa, InsertSoa
  <2>2. /\ pc'[w] = "commit" /\ loc'[w] = loc[w] /\ OthersKeep(w)
    BY <1>1, <1>15, <2>1 DEF SaveSoa, InsertSoa, OthersKeep
  <2>3. pc[w] \in {"save", "insert"} /\ UNCHANGED <<req, recs>>
    BY <1>15 DEF SaveSoa, InsertSoa, OnlyTx
  <2>4. Cmd(w) # "create_domain" BY <1>1, <2>3 DEF Placed, Running, Places
  <2>5. Cmd(w) # "replace_owner" BY <1>1, <2>3 DEF Placed, Running, Places
  <2>6. tx'[w].made = tx[w].made BY <1>1, <2>1, WriteMeans
  <2> QED BY <1>1, <2>2, <2>3, <2>4, <2>5, <2>6 DEF Placed, Running, Places, Cmd
<1>16. ASSUME SoaVanished(w) \/ InsertNothing(w) PROVE Placed(w)' /\ OthersKeep(w)
  <2>1. /\ \/ pc[w] = "save" /\ pc'[w] = "insert"
           \/ pc[w] = "insert" /\ pc'[w] = "commit"
        /\ loc'[w] = loc[w] /\ UNCHANGED <<tx, req, recs>> /\ OthersKeep(w)
    BY <1>1, <1>16 DEF SoaVanished, InsertNothing, OnlyLoc, OthersKeep
  <2> QED BY <1>1, <2>1 DEF Placed, Running, Places, Cmd, Written
<1>17. Commit(w) => Placed(w)' /\ OthersKeep(w)
  <2> SUFFICES ASSUME Commit(w) PROVE Placed(w)' /\ OthersKeep(w) OBVIOUS
  <2>1. loc[w].db \in Orm BY <1>1 DEF Commit, Placed, Running
  <2>2. tx'[w] = NoTx /\ OthersKeep(w)
    BY <1>1, <2>1, ApplyMeans, NextDatabaseMeans DEF Commit, OthersKeep
  <2> QED BY <1>1, <2>2, NextDatabaseIsPlaced DEF Commit
<1>18. Fail(w) => Placed(w)' /\ OthersKeep(w) BY <1>1, FailMeans, EndedIsPlaced
<1> QED
  BY <1>2, <1>3, <1>4, <1>5, <1>6, <1>7, <1>8, <1>9, <1>10, <1>11, <1>12, <1>13, <1>14,
     <1>15, <1>16, <1>17, <1>18
  DEF Handle, DomainConflict, CannotBegin, EmptyData, CreateConflict, ReplaceMissing,
      NothingOwned, NoSoa, InsertConflict, DeadlockAbort

\* What no step of w but those it takes itself changes.
LEMMA HandleKeepsRequests ==
  ASSUME TypeOK, NEW w \in Handler, Handle(w)
  PROVE  req' = req /\ \A v \in Handler \ {w} : recs'[v] = recs[v]
<1>1. DeleteNextItem(w) => req' = req /\ \A v \in Handler \ {w} : recs'[v] = recs[v]
  BY DEF DeleteNextItem, StripItem, TypeOK
<1> QED
  BY <1>1
  DEF Handle, FindDomain, InsertDomain, DomainConflict, BeginRecords, CannotBegin, EmptyData,
      CreateRecord, CreateConflict, StartDelete, DeleteRow, DeletedAll, ReplaceInsert,
      ReplaceMissing, SelectOwned, NothingOwned, UpdateOwner, EndOwner, EndOfRecords, ReadSoa,
      NoSoa, SaveSoa, SoaVanished, InsertSoa, InsertNothing, InsertConflict, Commit, Apply,
      DeadlockAbort, Panic, Die, Fail, OnlyLoc, OnlyTx, OnlyNew

\* Every step.
LEMMA ControlStep == IInv /\ [Next]_vars => Control'
<1> SUFFICES ASSUME IInv, [Next]_vars PROVE Control' OBVIOUS
<1>1. TypeOK /\ Control BY DEF IInv
<1>2. Die => Control' BY <1>1, EndedIsPlaced DEF Die, Control, Placed, Running
<1>3. ASSUME NEW w \in Handler, Deliver(w) PROVE Control'
  <2>1. tx[w] = NoTx /\ tx' = tx /\ req' = req
    BY <1>1, <1>3 DEF Control, Placed, Running, Deliver
  <2>2. OthersKeep(w) BY <1>1, <1>3, <2>1, NextDatabaseMeans DEF Deliver, OthersKeep
  <2>3. Placed(w)' BY <1>1, <1>3, <2>1, NextDatabaseIsPlaced DEF Deliver
  <2>4. \A v \in Handler \ {w} : recs'[v] = recs[v] BY <1>1, <1>3 DEF Deliver, TypeOK
  <2> QED BY <1>1, <2>1, <2>2, <2>3, <2>4, OthersStayPlaced
<1>4. ASSUME NEW w \in Handler, RejectSerial(w) PROVE Control'
  BY <1>1, <1>4, FailMeans, EndedIsPlaced, OthersStayPlaced DEF RejectSerial
<1>5. ASSUME NEW w \in Handler, Handle(w) PROVE Control'
  <2>1. CASE Panic(w) BY <1>2, <2>1 DEF Panic
  <2>2. CASE ~Panic(w)
    BY <1>1, <1>5, <2>2, PlacedHandle, HandleKeepsRequests, OthersStayPlaced
  <2> QED BY <2>1, <2>2
<1>6. ASSUME NEW w \in Handler, ConnectionLost(w) PROVE Control'
  <2>1. tx'[w] = NoTx /\ loc'[w] = NoLoc /\ pc'[w] = "done" /\ OthersKeep(w)
    BY <1>1, <1>6, GotoMeans DEF ConnectionLost, Finish, OthersKeep, TypeOK
  <2> QED BY <1>1, <1>6, <2>1, EndedIsPlaced, OthersStayPlaced DEF ConnectionLost
<1>7. ASSUME NEW w \in Handler, CommitLost(w) PROVE Control'
  <2>1. loc[w].db \in Orm BY <1>1, <1>7 DEF CommitLost, Running, Control, Placed
  <2>2. tx'[w] = NoTx /\ loc'[w] = NoLoc /\ pc'[w] = "done" /\ OthersKeep(w)
    BY <1>1, <1>7, <2>1, ApplyMeans, GotoMeans DEF CommitLost, Finish, OthersKeep
  <2> QED BY <1>1, <1>7, <2>2, EndedIsPlaced, OthersStayPlaced DEF CommitLost, Apply
<1>8. CASE Crash BY <1>2, <1>8 DEF Crash
<1>9. CASE Tick \/ UNCHANGED vars
  <2>1. UNCHANGED <<tx, req, recs, pc, loc>> BY <1>9 DEF Tick, vars
  <2> QED BY <1>1, <2>1 DEF Control, Placed, Running, Cmd, Rec, Written
<1> QED BY <1>3, <1>4, <1>5, <1>6, <1>7, <1>8, <1>9 DEF Next, Terminated

-----------------------------------------------------------------------------
(* The inductive invariant.                                                *)

\* The inductive invariant holds when the process starts.
LEMMA InitIInv == Init => IInv
<1> SUFFICES ASSUME Init PROVE IInv OBVIOUS
<1>1. TypeOK BY TypeInit
<1>2. \A w \in Handler : tx[w] = NoTx /\ loc[w] = NoLoc /\ pc[w] = "idle" BY DEF Init
<1>3. RowIdentity
  <2> SUFFICES ASSUME NEW d \in Orm
               PROVE  /\ \A a \in rows[d] : a.id < nextId[d]
                      /\ \A a, b \in rows[d] : a.id = b.id => a = b
                      /\ Versions(d) = rows[d]
    BY SameRowEquivalence DEF RowIdentity
  <2>1. PICK s \in InitialStore : rows = s.rows /\ nextId = s.nextId BY DEF Init
  <2>2. IsStore(s) BY StoreAssumption DEF StoreAssumption
  <2>3. \A w \in Handler : Held(w) = {} BY <1>2 DEF Held, NoTx, NoLoc, LocAt
  <2>4. Versions(d) = rows[d] BY <2>3 DEF Versions
  <2> QED BY <2>1, <2>2, <2>4 DEF IsStore
<1>4. OpenTransactions BY <1>2 DEF OpenTransactions, Running
<1>5. Control BY <1>2 DEF Control, Placed, Running, NoTx, NoLoc, LocAt
<1> QED BY <1>1, <1>3, <1>4, <1>5 DEF IInv

\* Every reachable state is of its type, the copies of a row agree, open
\* transactions hold what their token is entitled to, and handlers are where
\* their request can have taken them: the invariant that the others rest on.
THEOREM Invariance == Spec => []IInv
<1>1. IInv /\ [Next]_vars => IInv'
  BY TypeStep, IdentityStep, OpenStep, ControlStep DEF IInv
<1> QED BY <1>1, InitIInv, PTL DEF Spec

\* The states of the program are of their types.
THEOREM TypeCorrect == Spec => []TypeOK
<1>1. IInv => TypeOK BY DEF IInv
<1> QED BY <1>1, Invariance, PTL

\* An id is drawn once, and two copies of a row differ in the owner and in the
\* content of an SOA at most.
THEOREM Identity == Spec => []RowIdentity
<1>1. IInv => RowIdentity BY DEF IInv
<1> QED BY <1>1, Invariance, PTL

\* No transaction holds a row that its request's token may not change.
THEOREM OpenTransactionsRightful == Spec => []OpenTransactions
<1>1. IInv => OpenTransactions BY DEF IInv
<1> QED BY <1>1, Invariance, PTL

-----------------------------------------------------------------------------
(* The promise to the tenants: OrmCommands implements TenantZones.         *)

\* A row of the database and the version of it that a commit puts there.
LEMMA Replaced ==
  ASSUME IInv, NEW w \in Handler, Running(w),
         NEW x \in rows[loc[w].db], NEW y \in ViewOf(w), x.id = y.id, x # y
  PROVE  /\ y \in Rewritten(w) /\ x.id \in tx[w].locked /\ SameRow(x, y)
         /\ x \in Row /\ y \in Row
         /\ RightfulUpdate(w, x, y)
<1>1. TypeOK /\ loc[w].db \in Orm /\ Open(w) /\ Rightful(w)
  BY DEF IInv, Control, Placed, OpenTransactions, Open
<1>2. y \in tx[w].writes /\ x.id \in tx[w].locked
  <2>1. y \notin rows[loc[w].db] BY <1>1 DEF IInv, RowIdentity
  <2> QED BY <1>1, <2>1 DEF ViewOf, Open
<1>3. y \in Rewritten(w) BY <1>2 DEF Rewritten
<1>4. SameRow(x, y)
  <2>1. x \in Versions(loc[w].db) /\ y \in Versions(loc[w].db)
    BY <1>2, VersionsOf DEF Held
  <2> QED BY <1>1, <2>1 DEF IInv, RowIdentity
<1>5. RightfulUpdate(w, x, y)
  <2>1. Written(w, x.id) BY <1>2 DEF Written
  <2>2. PICK z \in tx[w].writes : z.id = x.id /\ RightfulUpdate(w, x, z)
    BY <1>1, <1>2, <2>1 DEF Rightful
  <2>3. y = z BY <1>1, <1>2, <2>2 DEF Open
  <2> QED BY <2>2, <2>3
<1>6. x \in Row /\ y \in Row BY <1>1, ViewTyped DEF TypeOK
<1> QED BY <1>2, <1>3, <1>4, <1>5, <1>6

\* Two rows that are one row with other owners and, of an SOA, another content.
LEMMA SameButOwner ==
  ASSUME NEW x \in Row, NEW y \in Row, x.id = y.id, SameRow(x, y), NEW u, y.owner = u
  PROVE  /\ x.type # "SOA" => y = [x EXCEPT !.owner = u]
         /\ x.type = "SOA" => Tenants!Restamped([x EXCEPT !.owner = u], y)
         /\ x.owner = u => y = [x EXCEPT !.content = y.content]
<1> DEFINE v == [x EXCEPT !.owner = u]
<1>1. x.type # "SOA" => y = v BY DEF Row, SameRow
<1>2. v.type = x.type BY DEF Row
<1>3. y = [v EXCEPT !.content = y.content] BY DEF Row, SameRow
<1>4. x.owner = u => y = [x EXCEPT !.content = y.content] BY DEF Row, SameRow
<1> HIDE DEF v
<1>5. x.type = "SOA" => Tenants!Restamped(v, y) BY <1>2, <1>3 DEF Tenants!Restamped
<1> QED BY <1>1, <1>4, <1>5 DEF v

\* The commit of a create, a delete or a replace is an edit by its token.
LEMMA EditRefines ==
  ASSUME IInv, NEW w \in Handler, Running(w), Edits(w), Apply(w)
  PROVE  Tenants!Edit(loc[w].db, req[w].token, req[w].domain)
<1> DEFINE d == loc[w].db
<1>1. TypeOK /\ d \in Orm /\ Open(w) /\ Rightful(w) /\ Placed(w)
  BY DEF IInv, Control, Placed, OpenTransactions, Open
<1>2. /\ rows'[d] = ViewOf(w)
      /\ \A e \in Orm \ {d} : rows'[e] = rows[e] /\ zones'[e] = zones[e]
  BY <1>1, ApplyMeans
<1>3. zones' = zones
  <2>1. tx[w].made = {} BY <1>1 DEF Placed, Edits
  <2>2. [n \in DomainName |-> IF n \in tx[w].made THEN "NATIVE" ELSE zones[d][n]] = zones[d]
    BY <1>1, <2>1 DEF TypeOK
  <2> QED BY <1>1, <2>2 DEF Apply, TypeOK
<1>4. ASSUME NEW r \in Tenants!Vanished(d)
      PROVE  r.domain = req[w].domain /\ r.owner = req[w].token
  <2>1. r \in rows[d] /\ \A y \in ViewOf(w) : y.id # r.id
    BY <1>2, <1>4 DEF Tenants!Vanished
  <2>2. r.id \in tx[w].locked BY <2>1 DEF ViewOf
  <2>3. ~\E y \in tx[w].writes : y.id = r.id BY <2>1 DEF ViewOf
  <2> QED BY <1>1, <2>1, <2>2, <2>3 DEF Rightful, RightfulDelete
<1>5. ASSUME NEW y \in Tenants!Appeared(d)
      PROVE  /\ y.domain = req[w].domain
             /\ \/ y.owner = req[w].token
                \/ y.type = "SOA" /\ y.owner = NoOwner
  <2>1. y \in ViewOf(w) /\ \A r \in rows[d] : r.id # y.id
    BY <1>2, <1>5 DEF Tenants!Appeared
  <2>2. y \in tx[w].writes /\ y \notin Rewritten(w) BY <2>1 DEF ViewOf, Rewritten
  <2> QED BY <1>1, <2>2 DEF Rightful, RightfulInsert
<1>6. ASSUME NEW c \in Tenants!Changed(d)
      PROVE  /\ c[1].domain = req[w].domain /\ Tenants!Restamped(c[1], c[2])
             /\ c[2] \in Rewritten(w) /\ c[1] \in rows[d] /\ c[1].id = c[2].id
             /\ c = <<c[1], c[2]>>
  <2>1. /\ c \in rows[d] \X rows'[d] /\ c[1].id = c[2].id /\ c[1] # c[2]
    BY <1>6 DEF Tenants!Changed
  <2>2. c[1] \in rows[d] /\ c[2] \in ViewOf(w) /\ c = <<c[1], c[2]>> BY <1>2, <2>1
  <2>3. /\ c[2] \in Rewritten(w) /\ SameRow(c[1], c[2]) /\ RightfulUpdate(w, c[1], c[2])
        /\ c[1] \in Row /\ c[2] \in Row
    BY <2>1, <2>2, Replaced
  <2>4. c[1].type = "SOA" /\ c[1].domain = req[w].domain /\ c[1].owner = c[2].owner
    BY <2>3 DEF RightfulUpdate, Edits
  <2>5. c[2] = [c[1] EXCEPT !.content = c[2].content] BY <2>1, <2>3, <2>4, SameButOwner
  <2> QED BY <2>1, <2>2, <2>3, <2>4, <2>5 DEF Tenants!Restamped
<1>7. ASSUME NEW c \in Tenants!Changed(d), NEW b \in Tenants!Changed(d) PROVE c = b
  <2>1. c[2] = b[2] BY <1>1, <1>6 DEF Rightful
  <2>2. c[1] = b[1] BY <1>1, <1>6, <2>1 DEF IInv, RowIdentity
  <2>3. c = <<c[1], c[2]>> /\ b = <<b[1], b[2]>> BY <1>6
  <2> QED BY <2>1, <2>2, <2>3
<1> HIDE DEF d
<1> QED BY <1>2, <1>3, <1>4, <1>5, <1>6, <1>7 DEF Tenants!Edit, Tenants!OnlyIn, d

\* The commit of a replace_owner is a handover that it has asked for.
LEMMA HandoverRefines ==
  ASSUME IInv, NEW w \in Handler, Running(w), Cmd(w) = "replace_owner", Apply(w)
  PROVE  Tenants!Handover(loc[w].db, req[w].token, req[w].newToken)
<1> DEFINE d == loc[w].db
           wish(id) == Tenants!Wish(d, id, req[w].token, req[w].newToken)
<1>1. TypeOK /\ d \in Orm /\ Open(w) /\ Rightful(w) /\ Placed(w)
  BY DEF IInv, Control, Placed, OpenTransactions, Open
<1>2. /\ rows'[d] = ViewOf(w)
      /\ \A e \in Orm \ {d} : rows'[e] = rows[e] /\ zones'[e] = zones[e]
  BY <1>1, ApplyMeans
<1>3. zones' = zones
  <2>1. tx[w].made = {} BY <1>1 DEF Placed
  <2>2. [n \in DomainName |-> IF n \in tx[w].made THEN "NATIVE" ELSE zones[d][n]] = zones[d]
    BY <1>1, <2>1 DEF TypeOK
  <2> QED BY <1>1, <2>2 DEF Apply, TypeOK
<1>4. ASSUME NEW r \in rows[d] PROVE \E y \in ViewOf(w) : y.id = r.id
  <2>1. CASE r.id \notin tx[w].locked BY <2>1 DEF ViewOf
  <2>2. CASE r.id \in tx[w].locked
    <3>1. PICK y \in tx[w].writes : y.id = r.id
      BY <1>1, <2>2 DEF Rightful, RightfulDelete
    <3> QED BY <3>1 DEF ViewOf
  <2> QED BY <2>1, <2>2
<1>5. ASSUME NEW y \in ViewOf(w) PROVE \E r \in rows[d] : r.id = y.id
  <2>1. CASE y \in tx[w].writes
    <3>1. ~Edits(w) BY DEF Edits
    <3>2. y \in Rewritten(w) BY <1>1, <2>1, <3>1 DEF Rightful, RightfulInsert
    <3> QED BY <3>2 DEF Rewritten
  <2>2. CASE y \in rows[d] BY <2>2
  <2> QED BY <2>1, <2>2 DEF ViewOf
<1>6. Tenants!Vanished(d) = {} /\ Tenants!Appeared(d) = {}
  BY <1>2, <1>4, <1>5 DEF Tenants!Vanished, Tenants!Appeared
<1>7. ASSUME NEW c \in Tenants!Changed(d)
      PROVE  /\ wish(c[1].id) \in Wished
             /\ c[1].owner # NoOwner
             /\ \/ c[2] = [c[1] EXCEPT !.owner = req[w].newToken]
                \/ Tenants!Restamped([c[1] EXCEPT !.owner = req[w].newToken], c[2])
  <2>1. c \in rows[d] \X rows'[d] /\ c[1].id = c[2].id /\ c[1] # c[2]
    BY <1>7 DEF Tenants!Changed
  <2>2. c[1] \in rows[d] /\ c[2] \in ViewOf(w) BY <1>2, <2>1
  <2>3. /\ SameRow(c[1], c[2]) /\ RightfulUpdate(w, c[1], c[2])
        /\ c[1] \in Row /\ c[2] \in Row /\ c[2] \in Rewritten(w)
    BY <2>1, <2>2, Replaced
  <2>4. c[1].owner # NoOwner /\ c[2].owner = req[w].newToken
    BY <2>3 DEF RightfulUpdate, Edits
  <2>5. \/ c[2] = [c[1] EXCEPT !.owner = req[w].newToken]
        \/ Tenants!Restamped([c[1] EXCEPT !.owner = req[w].newToken], c[2])
    BY <2>1, <2>3, <2>4, SameButOwner
  <2>6. wish(c[1].id) \in Wished
    <3>1. wish(c[2].id) \in Wishes(w)
      BY <2>3 DEF Rewritten, Wishes, HandedOver, Tenants!Wish
    <3> QED BY <2>1, <3>1 DEF Wished
  <2> QED BY <2>4, <2>5, <2>6
<1> HIDE DEF d
<1> QED BY <1>2, <1>3, <1>6, <1>7 DEF Tenants!Handover, Tenants!OnlyIn, d

\* The commit of a create_domain adds a zone, or nothing.
LEMMA AddZoneRefines ==
  ASSUME IInv, NEW w \in Handler, Running(w), Cmd(w) = "create_domain", Apply(w)
  PROVE  Tenants!AddZone(loc[w].db, req[w].domain) \/ UNCHANGED <<zones, rows>>
<1> DEFINE d == loc[w].db
           z == [n \in DomainName |-> IF n \in tx[w].made THEN "NATIVE" ELSE zones[d][n]]
<1>1. TypeOK /\ d \in Orm /\ Open(w) /\ Placed(w) /\ req[w].domain \in DomainName
  BY LocFields DEF IInv, Control, Placed, OpenTransactions, RequestType
<1>2. rows' = rows
  <2>1. ViewOf(w) = rows[d] BY <1>1 DEF Placed, ViewOf
  <2> QED BY <1>1, <2>1 DEF Apply, TypeOK
<1>3. zones' = [zones EXCEPT ![d] = z] BY DEF Apply
<1>4. CASE tx[w].made = {}
  <2>1. z = zones[d] BY <1>1, <1>4 DEF TypeOK
  <2> HIDE DEF z
  <2>2. zones' = zones BY <1>1, <1>3, <2>1 DEF TypeOK
  <2> QED BY <1>2, <2>2
<1>5. CASE tx[w].made # {}
  <2>1. tx[w].made = {req[w].domain} /\ zones[d][req[w].domain] = "absent"
    BY <1>1, <1>5 DEF Placed, Open
  <2>2. z = [zones[d] EXCEPT ![req[w].domain] = "NATIVE"] BY <1>1, <2>1 DEF TypeOK
  <2> HIDE DEF z
  <2>3. zones' = [zones EXCEPT ![d][req[w].domain] = "NATIVE"] BY <1>3, <2>2
  <2> QED BY <1>2, <2>1, <2>3 DEF Tenants!AddZone
<1> QED BY <1>4, <1>5

\* A step of w that hands over no row which it has not handed over before.
LEMMA NoNewWishes ==
  ASSUME NEW w \in Handler, OthersKeep(w), req' = req,
         Cmd(w) = "replace_owner" => \A x \in HandedOver(w)' :
           loc'[w].db = loc[w].db /\ \E y \in HandedOver(w) : y.id = x.id
  PROVE  Tenants!NoMoreAsked
<1> SUFFICES ASSUME NEW v \in Handler, Cmd(v)' = "replace_owner", NEW a \in Wishes(v)'
             PROVE  a \in Wishes(v) /\ Cmd(v) = "replace_owner"
  BY DEF Tenants!NoMoreAsked, Wished
<1>1. Cmd(v) = "replace_owner" BY DEF Cmd
<1>2. CASE v # w
  <2>1. loc'[v] = loc[v] /\ pc'[v] = pc[v] /\ tx'[v] = tx[v] BY <1>2 DEF OthersKeep
  <2> QED BY <1>1, <2>1 DEF Wishes, HandedOver
<1>3. CASE v = w
  <2>1. PICK x \in HandedOver(w)' :
          a = [db |-> loc'[w].db, id |-> x.id, from |-> req[w].token, to |-> req[w].newToken]
    BY <1>3 DEF Wishes
  <2>2. loc'[w].db = loc[w].db /\ \E y \in HandedOver(w) : y.id = x.id
    BY <1>1, <1>3, <2>1
  <2> QED BY <1>1, <1>3, <2>1, <2>2 DEF Wishes
<1> QED BY <1>2, <1>3

\* The end of a transaction hands over nothing.
LEMMA EndingAsksNothing ==
  ASSUME NEW w \in Handler, OthersKeep(w), req' = req, tx'[w] = NoTx, loc'[w].cand = {}
  PROVE  Tenants!NoMoreAsked
<1>1. HandedOver(w)' = {} BY DEF HandedOver, NoTx
<1> QED BY <1>1, NoNewWishes

\* A handler that ends or begins a database is at no row.
LEMMA NextDatabaseClears ==
  ASSUME TypeOK, NEW w \in Handler, NEW e, NextDatabase(w, e) PROVE loc'[w].cand = {}
<1>1. LET l == loc'[w] IN l = NoLoc \/ \E d \in Orm : l = LocAt(d, 1, 0)
  BY NextDatabaseMeans
<1>2. NoLoc.cand = {} /\ \A d : LocAt(d, 1, 0).cand = {} BY DEF NoLoc, LocAt
<1> QED BY <1>1, <1>2

\* An UPDATE of replace_owner writes a row that it was at.
LEMMA UpdateOwnerAsks ==
  ASSUME IInv, NEW w \in Handler, UpdateOwner(w) PROVE Tenants!NoMoreAsked
<1> DEFINE now(r) == {x \in ViewOf(w) : x.id = r.id /\ x.owner # NoOwner}
           moved(r) == [r EXCEPT !.owner = req[w].newToken]
           new(r) == IF now(r) = {} THEN {} ELSE {moved(r)}
           aff(r) == loc[w].aff + (IF now(r) = {} THEN 0 ELSE 1)
           l(r)   == [loc[w] EXCEPT !.cand = @ \ {r}, !.aff = aff(r)]
<1>2. PICK r \in loc[w].cand : /\ ~LockedByOther(w, r.id)
                               /\ Write(w, now(r), new(r)) /\ Goto(w, "owner", l(r))
  BY DEF UpdateOwner
<1>1. TypeOK /\ loc[w] \in Loc /\ loc[w].cand \subseteq Row BY LocFields DEF IInv
<1>3. \A x \in new(r) : x.id = r.id BY <1>1, <1>2 DEF Row
<1>4. l(r).db = loc[w].db /\ l(r).cand = loc[w].cand \ {r}
  <2> HIDE DEF aff
  <2> QED BY <1>1 DEF Loc
<1> HIDE DEF now, new, l
<1>5. /\ tx'[w].writes = (tx[w].writes \ now(r)) \cup new(r)
      /\ pc'[w] = "owner" /\ loc'[w] = l(r) /\ OthersKeep(w)
  BY <1>1, <1>2, WriteMeans, GotoMeans DEF OthersKeep
<1>6. pc[w] = "owner" /\ req' = req BY DEF UpdateOwner, OnlyTx
<1>7. \A x \in HandedOver(w)' : \E y \in HandedOver(w) : y.id = x.id
  BY <1>2, <1>3, <1>4, <1>5, <1>6 DEF HandedOver
<1> QED BY <1>4, <1>5, <1>6, <1>7, NoNewWishes

\* No other step of a handler asks for a handover.
LEMMA HandleAsksNothing ==
  ASSUME IInv, NEW w \in Handler, Handle(w), ~SelectOwned(w) PROVE Tenants!NoMoreAsked
<1>1. TypeOK /\ Placed(w) /\ req' = req
  BY HandleKeepsRequests DEF IInv, Control
<1>2. CASE Panic(w)
  <2>1. \A v \in Handler : HandedOver(v)' = {}
    BY <1>2 DEF Panic, Die, HandedOver, NoTx, NoLoc, LocAt
  <2> QED BY <2>1 DEF Tenants!NoMoreAsked, Wished, Wishes
<1>3. CASE Fail(w) BY <1>1, <1>3, FailMeans, EndingAsksNothing DEF NoLoc, LocAt
<1>4. CASE Commit(w)
  <2>1. loc[w].db \in Orm BY <1>1, <1>4 DEF Commit, Placed, Running
  <2>2. tx'[w] = NoTx /\ OthersKeep(w)
    BY <1>1, <1>4, <2>1, ApplyMeans, NextDatabaseMeans DEF Commit, OthersKeep
  <2>3. loc'[w].cand = {} BY <1>1, <1>4, NextDatabaseClears DEF Commit
  <2> QED BY <1>1, <2>2, <2>3, EndingAsksNothing
<1>5. CASE ~Panic(w) /\ Cmd(w) # "replace_owner"
  BY <1>1, <1>5, PlacedHandle, NoNewWishes
<1>6. CASE BeginRecords(w) \/ EndOfRecords(w)
  <2>1. /\ pc[w] # "owner" /\ pc'[w] # "owner" /\ loc'[w] = loc[w] /\ tx' = tx
        /\ OthersKeep(w)
    BY <1>1, <1>6, GotoMeans DEF BeginRecords, EndOfRecords, OnlyLoc, OthersKeep
  <2> QED BY <1>1, <2>1, NoNewWishes DEF HandedOver
<1>7. CASE EndOwner(w)
  <2>1. /\ pc'[w] = "records" /\ loc'[w].db = loc[w].db /\ tx' = tx /\ OthersKeep(w)
    BY <1>1, <1>7, GotoMeans DEF EndOwner, NextRecord, LocAt, OnlyLoc, OthersKeep
  <2> QED BY <1>1, <2>1, NoNewWishes DEF HandedOver
<1>8. CASE ~Panic(w) /\ Cmd(w) = "replace_owner"
  <2>1. /\ pc[w] \notin {"zone", "delete", "soa", "save", "insert"}
        /\ ~ByItem(w)
    BY <1>1, <1>8 DEF Placed, Running, Places, ByItem
  <2>2. BeginRecords(w) \/ UpdateOwner(w) \/ EndOwner(w) \/ EndOfRecords(w) \/ Commit(w)
        \/ Fail(w)
    BY <1>8, <2>1
    DEF Handle, FindDomain, InsertDomain, DomainConflict, CannotBegin, EmptyData, CreateRecord,
        CreateConflict, StartDelete, Deletes, DeleteRow, DeleteNextItem, DeletedAll,
        ReplaceInsert, ReplaceMissing, NothingOwned, AtRecord, ReadSoa, NoSoa, SaveSoa,
        SoaVanished, InsertSoa, InsertNothing, InsertConflict, DeadlockAbort
  <2> QED BY <1>3, <1>4, <1>6, <1>7, <2>2, UpdateOwnerAsks
<1> QED BY <1>2, <1>5, <1>8

\* Nor does a step that no handler takes by itself.
LEMMA OthersAskNothing ==
  ASSUME IInv, NEW w \in Handler,
         Deliver(w) \/ RejectSerial(w) \/ ConnectionLost(w) \/ CommitLost(w)
  PROVE  Tenants!NoMoreAsked
<1>1. TypeOK /\ Placed(w) BY DEF IInv, Control
<1>2. CASE Deliver(w)
  <2>1. tx[w] = NoTx /\ tx' = tx /\ req' = req
    BY <1>1, <1>2 DEF Placed, Running, Deliver
  <2>2. OthersKeep(w) BY <1>1, <1>2, <2>1, NextDatabaseMeans DEF Deliver, OthersKeep
  <2>3. loc'[w].cand = {} BY <1>1, <1>2, NextDatabaseClears DEF Deliver
  <2> QED BY <2>1, <2>2, <2>3, EndingAsksNothing
<1>3. CASE RejectSerial(w)
  BY <1>1, <1>3, FailMeans, EndingAsksNothing DEF RejectSerial, NoLoc, LocAt
<1>4. CASE ConnectionLost(w)
  <2>1. tx'[w] = NoTx /\ loc'[w] = NoLoc /\ OthersKeep(w) /\ req' = req
    BY <1>1, <1>4, GotoMeans DEF ConnectionLost, Finish, OthersKeep, TypeOK
  <2> QED BY <2>1, EndingAsksNothing DEF NoLoc, LocAt
<1>5. CASE CommitLost(w)
  <2>1. loc[w].db \in Orm BY <1>1, <1>5 DEF CommitLost, Running, Placed
  <2>2. tx'[w] = NoTx /\ loc'[w] = NoLoc /\ OthersKeep(w) /\ req' = req
    BY <1>1, <1>5, <2>1, ApplyMeans, GotoMeans DEF CommitLost, Finish, OthersKeep
  <2> QED BY <2>2, EndingAsksNothing DEF NoLoc, LocAt
<1> QED BY <1>2, <1>3, <1>4, <1>5

\* The SELECT of a replace_owner asks for rows that are its token's.
LEMMA SelectAsks ==
  ASSUME IInv, NEW w \in Handler, SelectOwned(w)
  PROVE  /\ Tenants!AskFor(loc[w].db, req[w].token, req[w].newToken)
         /\ loc[w].db \in Orm /\ req[w].token \in Token /\ req[w].newToken \in Token
<1> DEFINE d == loc[w].db
           wish(id) == Tenants!Wish(d, id, req[w].token, req[w].newToken)
           mine == {x \in ViewOf(w) : Owned(w, x)}
           l == [loc[w] EXCEPT !.cand = mine]
<1>1. /\ TypeOK /\ Placed(w) /\ loc[w] \in Loc /\ pc[w] = "records"
      /\ Cmd(w) = "replace_owner" /\ req[w].token \in Token
  BY LocFields DEF IInv, Control, SelectOwned, AtRecord, RequestType
<1>2. d \in Orm /\ req[w].newToken \in Token BY <1>1 DEF Placed, Running
<1>3. l.db = d /\ l.cand = mine
  <2> HIDE DEF mine
  <2> QED BY <1>1 DEF Loc
<1>4. Goto(w, "owner", l) /\ tx' = tx /\ req' = req /\ UNCHANGED <<zones, rows>>
  BY DEF SelectOwned, OnlyLoc, database
<1> HIDE DEF l
<1>5. pc'[w] = "owner" /\ loc'[w] = l /\ OthersKeep(w) BY <1>1, <1>4, GotoMeans DEF OthersKeep
<1>6. HandedOver(w) = tx[w].writes /\ HandedOver(w)' = tx[w].writes \cup mine
  <2> HIDE DEF mine
  <2> QED BY <1>1, <1>3, <1>4, <1>5 DEF HandedOver
<1>7. \A v \in Handler \ {w} : Wishes(v)' = Wishes(v) /\ Cmd(v)' = Cmd(v)
  BY <1>4, <1>5 DEF OthersKeep, Wishes, HandedOver, Cmd
<1>8. /\ Wishes(w) = {wish(x.id) : x \in tx[w].writes}
      /\ Wishes(w)' = {wish(x.id) : x \in tx[w].writes \cup mine}
      /\ Cmd(w)' = "replace_owner"
  <2> HIDE DEF mine
  <2> QED BY <1>1, <1>3, <1>4, <1>5, <1>6 DEF Wishes, Tenants!Wish, Cmd
<1>9. Wished \subseteq Wished'
  <2> HIDE DEF mine
  <2> QED BY <1>7, <1>8 DEF Wished
<1>10. ASSUME NEW a \in Wished' \ Wished
       PROVE  \E r \in rows[d] : r.owner = req[w].token /\ a = wish(r.id)
  <2>1. PICK v \in Handler : Cmd(v)' = "replace_owner" /\ a \in Wishes(v)'
    BY <1>10 DEF Wished
  <2>2. v = w BY <1>7, <1>10, <2>1 DEF Wished
  <2>3. PICK x \in tx[w].writes \cup mine : a = wish(x.id) BY <1>8, <2>1, <2>2
  <2>4. x \notin tx[w].writes BY <1>1, <1>8, <1>10, <2>3 DEF Wished
  <2>5. x \in rows[d] /\ x.owner = req[w].token BY <2>3, <2>4 DEF ViewOf, Owned
  <2> QED BY <2>3, <2>5
<1> HIDE DEF d
<1>11. Tenants!AskFor(d, req[w].token, req[w].newToken)
  BY <1>4, <1>9, <1>10 DEF Tenants!AskFor
<1> QED BY <1>1, <1>2, <1>11 DEF d

\* A step of OrmCommands is a step of TenantZones.
LEMMA StepRefines == IInv /\ [Next]_vars => [Tenants!TZNext]_(Tenants!tzVars)
<1> SUFFICES ASSUME IInv, [Next]_vars PROVE Tenants!TZNext \/ UNCHANGED Tenants!tzVars
  OBVIOUS
<1>1. ASSUME NEW w \in Handler, pc[w] = "commit", Apply(w), Tenants!NoMoreAsked
      PROVE  Tenants!TZNext
  <2>1. /\ Running(w) /\ loc[w].db \in Orm /\ Cmd(w) \in Command
        /\ req[w].token \in Token /\ req[w].domain \in DomainName
        /\ Cmd(w) = "replace_owner" => req[w].newToken \in Token
    BY <1>1, LocFields DEF IInv, Control, Placed, Running, RequestType, Cmd
  <2>2. CASE Edits(w) BY <1>1, <2>1, <2>2, EditRefines DEF Tenants!TZNext
  <2>3. CASE Cmd(w) = "replace_owner"
    BY <1>1, <2>1, <2>3, HandoverRefines DEF Tenants!TZNext
  <2>4. CASE Cmd(w) = "create_domain"
    BY <1>1, <2>1, <2>4, AddZoneRefines DEF Tenants!TZNext
  <2> QED BY <2>1, <2>2, <2>3, <2>4 DEF Command, Edits
<1>2. ASSUME NEW w \in Handler, Handle(w), ~Commit(w) PROVE UNCHANGED <<zones, rows>>
  BY <1>2
  DEF Handle, FindDomain, InsertDomain, DomainConflict, BeginRecords, CannotBegin, EmptyData,
      CreateRecord, CreateConflict, StartDelete, DeleteRow, DeleteNextItem, DeletedAll,
      ReplaceInsert, ReplaceMissing, SelectOwned, NothingOwned, UpdateOwner, EndOwner,
      EndOfRecords, ReadSoa, NoSoa, SaveSoa, SoaVanished, InsertSoa, InsertNothing,
      InsertConflict, DeadlockAbort, Panic, Die, Fail, OnlyLoc, OnlyTx, OnlyNew, database
<1>3. ASSUME NEW w \in Handler, Handle(w) PROVE Tenants!TZNext
  <2>1. CASE SelectOwned(w) BY <2>1, SelectAsks DEF Tenants!TZNext
  <2>2. CASE ~SelectOwned(w)
    <3>1. Tenants!NoMoreAsked BY <1>3, <2>2, HandleAsksNothing
    <3> QED BY <1>1, <1>2, <1>3, <3>1 DEF Commit, Tenants!TZNext
  <2> QED BY <2>1, <2>2
<1>4. ASSUME NEW w \in Handler,
             Deliver(w) \/ RejectSerial(w) \/ ConnectionLost(w) \/ CommitLost(w)
      PROVE  Tenants!TZNext
  <2>1. Tenants!NoMoreAsked BY <1>4, OthersAskNothing
  <2>2. CASE CommitLost(w) BY <1>1, <2>1, <2>2 DEF CommitLost
  <2>3. ASSUME ~CommitLost(w) PROVE UNCHANGED <<zones, rows>>
    BY <1>4, <2>3 DEF Deliver, RejectSerial, Fail, ConnectionLost, database
  <2> QED BY <2>1, <2>2, <2>3 DEF Tenants!TZNext
<1>5. CASE Crash
  <2>1. \A v \in Handler : HandedOver(v)' = {}
    BY <1>5 DEF Crash, Die, HandedOver, NoTx, NoLoc, LocAt
  <2>2. Tenants!NoMoreAsked BY <2>1 DEF Tenants!NoMoreAsked, Wished, Wishes
  <2> QED BY <1>5, <2>2 DEF Crash, Die, database, Tenants!TZNext
<1>6. CASE Tick \/ UNCHANGED vars
  <2>1. UNCHANGED <<zones, rows, tx, req, pc, loc>> BY <1>6 DEF Tick, vars, database
  <2>2. Wished' = Wished BY <2>1 DEF Wished, Wishes, HandedOver, Cmd
  <2> QED BY <2>1, <2>2 DEF Tenants!tzVars
<1> QED BY <1>3, <1>4, <1>5, <1>6 DEF Next, Terminated

\* What is left of README.md's multitenancy, for any number of requests,
\* databases and faults: a row disappears only by its owner's request and
\* appears as its author's, an edit leaves its owner as it is, and a handover
\* is one that a token asked for when the row was its own.
THEOREM TenantRefinement == Spec => TenantSpec
<1>1. Init => Tenants!TZInit
  <2> SUFFICES ASSUME Init PROVE Tenants!TZInit OBVIOUS
  <2>1. RowIdentity BY InitIInv DEF IInv
  <2>2. \A w \in Handler : HandedOver(w) = {}
    BY DEF Init, HandedOver, NoTx, NoLoc, LocAt
  <2>3. Wished = {} BY <2>2 DEF Wished, Wishes
  <2> QED BY <2>1, <2>3 DEF RowIdentity, Tenants!TZInit
<1> QED BY <1>1, StepRefines, Invariance, PTL DEF Spec, TenantSpec, Tenants!TZSpec
=============================================================================
