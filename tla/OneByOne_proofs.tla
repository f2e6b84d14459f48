--------------------------- MODULE OneByOne_proofs ---------------------------
(***************************************************************************)
(* What the commands of OrmCommands promise as long as requests do not     *)
(* overlap, for every value of the other constants: a CNAME is alone at    *)
(* its name and an SOA or PTR the only one there, a row is handed over by  *)
(* its owner, every change of the answers shows in the serial, and, while  *)
(* nothing fails by itself, the databases of a view answer alike.          *)
(***************************************************************************)
EXTENDS OrmCommands_proofs, FiniteSetTheorems

\* Two records of these types cannot be at one name.
Clash(s, t) == s = "CNAME" \/ t = "CNAME" \/ (s = t /\ s \in {"SOA", "PTR"})
Single(S) ==
  \A a, b \in S : a.domain = b.domain /\ a.name = b.name /\ a # b => ~Clash(a.type, b.type)

Alone == \A v, w \in Handler : Running(v) /\ Running(w) => v = w

\* The types of which create_record and replace_record take one item.
OneItem(w) ==
  Cmd(w) \in {"create_record", "replace_record"} =>
    \A i \in DOMAIN recs[w] :
      recs[w][i].type \in {"CNAME", "PTR", "SOA"} => Len(recs[w][i].data) = 1

InTheWay(w, x) ==
  /\ x.domain = req[w].domain /\ x.name = FullName(Rec(w).name)
  /\ Clash(Rec(w).type, x.type)

\* What the only handler sees is in order, the rows it is about to change are
\* still there, and once replace_record has found a row of its own, whatever
\* is in its way is a row that it deletes.
Tidy(w) ==
  /\ Single(ViewOf(w))
  /\ pc[w] \in {"delete", "owner"} => loc[w].cand \subseteq ViewOf(w)
  /\ pc[w] = "delete" => \A x \in loc[w].cand : Matched(w, x)
  /\ pc[w] \in {"begin", "records"} /\ Cmd(w) = "replace_record" => loc[w].aff = 0
  /\ pc[w] = "delete" /\ Cmd(w) = "replace_record" /\ (loc[w].aff # 0 \/ loc[w].cand # {}) =>
       \A x \in ViewOf(w) : InTheWay(w, x) => x \in loc[w].cand
  /\ pc[w] = "save" => \A x \in loc[w].soa : \E now \in ViewOf(w) : now.id = x.id
  /\ pc[w] # "insert"

\* replace_owner has changed, and is going to change, its token's rows only.
Mine(w) ==
  Cmd(w) = "replace_owner" =>
    /\ pc[w] = "owner" => \A x \in loc[w].cand : x.owner = req[w].token
    /\ \A x \in rows[loc[w].db] : x.id \in tx[w].locked => x.owner = req[w].token

OInv ==
  /\ Alone
  /\ \A d \in Orm : Single(rows[d])
  /\ \A w \in Handler : OneItem(w) /\ (Running(w) => Tidy(w) /\ Mine(w))

-----------------------------------------------------------------------------
(* Sets of rows that are in order.                                         *)

\* Fewer rows stay in order.
LEMMA SingleSubset == ASSUME NEW S, Single(S), NEW T \in SUBSET S PROVE Single(T)
BY DEF Single

\* So do rows one of which changes neither its name nor its type.
LEMMA SingleReplace ==
  ASSUME NEW S, Single(S), NEW now \in S, NEW new,
         new.domain = now.domain, new.name = now.name, new.type = now.type
  PROVE  Single((S \ {now}) \cup {new})
BY DEF Single, Clash

\* New rows of one name and type, with none in their way, join the others.
LEMMA SingleInsert ==
  ASSUME NEW S, Single(S), NEW N, NEW n, NEW l, NEW t,
         \A a \in N : a.domain = n /\ a.name = l /\ a.type = t,
         t \in {"CNAME", "PTR", "SOA"} => \A a, b \in N : a = b,
         \A x \in S : x.domain = n /\ x.name = l => ~Clash(t, x.type)
  PROVE  Single(S \cup N)
<1> SUFFICES ASSUME NEW a \in S \cup N, NEW b \in S \cup N,
                    a.domain = b.domain, a.name = b.name, a # b
             PROVE  ~Clash(a.type, b.type)
  BY DEF Single
<1>1. CASE a \in S /\ b \in S BY <1>1 DEF Single
<1>2. CASE a \in N /\ b \in N BY <1>2 DEF Clash
<1>3. CASE a \in N /\ b \in S BY <1>3
<1>4. CASE a \in S /\ b \in N BY <1>4 DEF Clash
<1> QED BY <1>1, <1>2, <1>3, <1>4

\* What SingleRecords says of the committed rows is that they are in order.
LEMMA SinglesAreSingle == (\A d \in Orm : Single(rows[d])) => SingleRecords
BY DEF Single, SingleRecords, Clash

-----------------------------------------------------------------------------
(* What a handler sees after a step.                                       *)

\* After Write a handler sees the new versions in place of those that went.
LEMMA WriteView ==
  ASSUME IInv, NEW w \in Handler, Running(w), NEW gone \in SUBSET ViewOf(w), NEW new,
         Write(w, gone, new), rows' = rows, loc'[w].db = loc[w].db,
         \A n \in new : \A x \in ViewOf(w) : x.id = n.id => x \in gone
  PROVE  ViewOf(w)' = (ViewOf(w) \ gone) \cup new
<1>1. /\ tx'[w].locked = tx[w].locked \cup {x.id : x \in gone \cup new}
      /\ tx'[w].writes = (tx[w].writes \ gone) \cup new
  BY WriteMeans DEF IInv
<1>2. ViewOf(w)' = {x \in rows[loc[w].db] : x.id \notin tx'[w].locked} \cup tx'[w].writes
  BY DEF ViewOf
<1>3. ASSUME NEW x \in ViewOf(w)' PROVE x \in (ViewOf(w) \ gone) \cup new
  BY <1>1, <1>2, <1>3 DEF ViewOf
<1>4. ASSUME NEW x \in (ViewOf(w) \ gone) \cup new PROVE x \in ViewOf(w)'
  <2>1. CASE x \in new BY <1>1, <1>2, <2>1
  <2>2. CASE x \in tx[w].writes \ gone BY <1>1, <1>2, <2>2
  <2>3. CASE x \in rows[loc[w].db] /\ x \in ViewOf(w) \ gone /\ x.id \notin tx[w].locked
    <3>1. \A g \in gone : g.id # x.id BY <2>3, ViewUnique
    <3>2. \A g \in new : g.id # x.id BY <2>3
    <3> QED BY <1>1, <1>2, <2>3, <3>1, <3>2
  <2> QED BY <1>4, <2>1, <2>2, <2>3 DEF ViewOf
<1> QED BY <1>3, <1>4

\* A handler sees the same rows when its transaction stays as it is.
LEMMA SameView ==
  ASSUME NEW w \in Handler, rows' = rows, tx'[w].locked = tx[w].locked,
         tx'[w].writes = tx[w].writes, loc'[w].db = loc[w].db
  PROVE  ViewOf(w)' = ViewOf(w)
BY DEF ViewOf

\* A transaction that begins sees what is committed.
LEMMA FreshView ==
  ASSUME NEW w \in Handler, tx'[w] = NoTx PROVE ViewOf(w)' = rows'[loc'[w].db]
BY DEF ViewOf, NoTx

-----------------------------------------------------------------------------
(* The steps of the only handler.                                          *)

\* A handler whose view stays, and that is not about to change rows, is as
\* tidy as before.
LEMMA QuietStep ==
  ASSUME NEW w \in Handler, Tidy(w), Mine(w), rows' = rows, req' = req,
         tx'[w].locked = tx[w].locked, tx'[w].writes = tx[w].writes,
         loc'[w].db = loc[w].db, pc'[w] \notin {"delete", "owner", "save", "insert"},
         pc'[w] \in {"begin", "records"} /\ Cmd(w) = "replace_record" => loc'[w].aff = 0
  PROVE  Tidy(w)' /\ Mine(w)'
<1>1. ViewOf(w)' = ViewOf(w) /\ Cmd(w)' = Cmd(w) BY SameView DEF Cmd
<1> QED BY <1>1 DEF Tidy, Mine

\* A SELECT and the Go code between two statements.
LEMMA LookingStaysTidy ==
  ASSUME IInv, NEW w \in Handler, Tidy(w), Mine(w),
         \/ FindDomain(w) \/ BeginRecords(w) \/ DeletedAll(w) \/ EndOwner(w)
         \/ EndOfRecords(w) \/ InsertDomain(w) \/ DeleteNextItem(w)
  PROVE  Tidy(w)' /\ Mine(w)'
<1>1. /\ TypeOK
      /\ \A p, l : Goto(w, p, l) => pc'[w] = p /\ loc'[w] = l
      /\ \A p, n : LocAt(loc[w].db, p, n).db = loc[w].db /\ LocAt(loc[w].db, p, n).aff = 0
  BY GotoMeans DEF IInv, LocAt
<1>2. CASE FindDomain(w) \/ BeginRecords(w) \/ EndOfRecords(w)
  <2>1. /\ loc'[w] = loc[w] /\ pc'[w] \in {"commit", "zone", "records", "soa"}
        /\ pc[w] \in {"begin", "records"} /\ UNCHANGED <<rows, req, tx>>
    BY <1>1, <1>2 DEF FindDomain, BeginRecords, EndOfRecords, OnlyLoc, database
  <2>2. pc[w] \in {"begin", "records"} /\ Cmd(w) = "replace_record" => loc[w].aff = 0
    BY DEF Tidy
  <2> QED BY <2>1, <2>2, QuietStep
<1>3. CASE DeletedAll(w) \/ EndOwner(w)
  <2>1. /\ loc'[w].db = loc[w].db /\ loc'[w].aff = 0 /\ pc'[w] = "records"
        /\ UNCHANGED <<rows, req, tx>>
    BY <1>1, <1>3 DEF DeletedAll, EndOwner, NextRecord, OnlyLoc, database
  <2> QED BY <2>1, QuietStep
<1>4. CASE InsertDomain(w)
  <2>1. tx'[w] = [tx[w] EXCEPT !.made = {req[w].domain}] /\ tx[w] \in Tx
    BY <1>1, <1>4 DEF InsertDomain, TypeOK
  <2>2. tx'[w].locked = tx[w].locked /\ tx'[w].writes = tx[w].writes BY <2>1 DEF Tx
  <2>3. loc'[w] = loc[w] /\ pc'[w] = "commit" /\ UNCHANGED <<rows, req>>
    BY <1>1, <1>4 DEF InsertDomain, OnlyTx, database
  <2> QED BY <2>2, <2>3, QuietStep
<1>5. CASE DeleteNextItem(w)
  <2>1. loc[w] \in Loc BY <1>1 DEF TypeOK
  <2> DEFINE l == [loc[w] EXCEPT !.di = @ + 1]
  <2>2. l.db = loc[w].db BY <2>1 DEF Loc
  <2>3. loc'[w].db = loc[w].db /\ pc'[w] = "records" /\ UNCHANGED <<rows, req, tx>>
    <3>1. Goto(w, "records", l) \/ NextRecord(w, loc[w].aff) BY <1>5 DEF DeleteNextItem
    <3>2. UNCHANGED <<rows, req, tx>> BY <1>5 DEF DeleteNextItem, database
    <3> HIDE DEF l
    <3>3. CASE Goto(w, "records", l) BY <1>1, <2>2, <3>2, <3>3
    <3>4. CASE NextRecord(w, loc[w].aff) BY <1>1, <3>2, <3>4 DEF NextRecord
    <3> QED BY <3>1, <3>3, <3>4
  <2>4. Cmd(w) = "delete_record" BY <1>5 DEF DeleteNextItem, ByItem
  <2> QED BY <2>3, <2>4, QuietStep
<1> QED BY <1>2, <1>3, <1>4, <1>5

\* The SELECT of replace_owner takes the token's own rows.
LEMMA SelectOwnedStaysTidy ==
  ASSUME IInv, NEW w \in Handler, Tidy(w), Mine(w), SelectOwned(w)
  PROVE  Tidy(w)' /\ Mine(w)'
<1> DEFINE mine == {x \in ViewOf(w) : Owned(w, x)}
           l == [loc[w] EXCEPT !.cand = mine]
<1>1. l.cand = mine /\ l.db = loc[w].db BY LocFields DEF IInv, Loc
<1>2. pc'[w] = "owner" /\ loc'[w] = l
  <2> HIDE DEF l
  <2>1. Goto(w, "owner", l) BY DEF SelectOwned, l
  <2> QED BY <2>1, GotoMeans DEF IInv
<1>3. UNCHANGED <<rows, tx, req>> BY DEF SelectOwned, OnlyLoc, database
<1>4. ViewOf(w)' = ViewOf(w) /\ Cmd(w)' = Cmd(w) BY <1>1, <1>2, <1>3, SameView DEF Cmd
<1>5. loc'[w].cand = mine /\ loc'[w].db = loc[w].db
  <2> HIDE DEF l, mine
  <2> QED BY <1>1, <1>2
<1>6. \A x \in mine : x.owner = req[w].token BY DEF Owned
<1>7. Tidy(w)' BY <1>2, <1>4, <1>5 DEF Tidy
<1> HIDE DEF mine
<1>8. Mine(w)' BY <1>3, <1>4, <1>5, <1>6 DEF Mine
<1> QED BY <1>7, <1>8

\* The DELETE takes the token's rows; those of replace_record include all that
\* are in the way of the new ones, if there is any of the token's at all.
LEMMA StartDeleteStaysTidy ==
  ASSUME IInv, NEW w \in Handler, Tidy(w), Mine(w), StartDelete(w)
  PROVE  Tidy(w)' /\ Mine(w)'
<1> DEFINE cand == {x \in ViewOf(w) : Matched(w, x)}
           l == [loc[w] EXCEPT !.cand = cand]
<1>1. /\ l.cand = cand /\ l.db = loc[w].db /\ l.ri = loc[w].ri /\ l.di = loc[w].di
      /\ l.aff = loc[w].aff
  BY LocFields DEF IInv, Loc
<1>2. pc'[w] = "delete" /\ loc'[w] = l
  <2> HIDE DEF l
  <2>1. Goto(w, "delete", l) BY DEF StartDelete, l
  <2> QED BY <2>1, GotoMeans DEF IInv
<1>3. UNCHANGED <<rows, tx, req, recs>> BY DEF StartDelete, OnlyLoc, database
<1>4. /\ loc'[w].cand = cand /\ loc'[w].db = loc[w].db /\ loc'[w].ri = loc[w].ri
      /\ loc'[w].di = loc[w].di /\ loc'[w].aff = loc[w].aff
  <2> HIDE DEF l, cand
  <2> QED BY <1>1, <1>2
<1>5. /\ ViewOf(w)' = ViewOf(w) /\ Cmd(w)' = Cmd(w) /\ Rec(w)' = Rec(w)
      /\ \A x : Matched(w, x)' = Matched(w, x) /\ InTheWay(w, x)' = InTheWay(w, x)
  <2>1. ViewOf(w)' = ViewOf(w) BY <1>3, <1>4, SameView
  <2>2. Cmd(w)' = Cmd(w) /\ Rec(w)' = Rec(w) BY <1>3, <1>4 DEF Cmd, Rec
  <2>3. \A x : Matched(w, x)' = Matched(w, x)
    BY <1>3, <1>4, <2>2 DEF Matched, ByItem, Owned, OwnedItem
  <2>4. \A x : InTheWay(w, x)' = InTheWay(w, x) BY <1>3, <2>2 DEF InTheWay
  <2> QED BY <2>1, <2>2, <2>3, <2>4
<1>6. ASSUME Cmd(w) = "replace_record", loc[w].aff # 0 \/ cand # {},
             NEW y \in ViewOf(w), InTheWay(w, y)
      PROVE  y \in cand
  <2>1. loc[w].aff = 0 BY <1>6 DEF Tidy, StartDelete, Deletes, AtRecord
  <2>2. PICK x \in cand : TRUE BY <1>6, <2>1
  <2>3. Owned(w, x) BY <1>6, <2>2 DEF Matched, ByItem
  <2>4. /\ x \in ViewOf(w) /\ x.domain = y.domain /\ x.name = y.name
        /\ Clash(x.type, y.type)
    BY <1>6, <2>2, <2>3 DEF Owned, InTheWay
  <2>5. x = y BY <1>6, <2>4 DEF Tidy, Single
  <2> QED BY <2>2, <2>5
<1>7. \A x \in cand : x \in ViewOf(w) /\ Matched(w, x) OBVIOUS
<1> HIDE DEF cand
<1>8. Tidy(w)' BY <1>2, <1>4, <1>5, <1>6, <1>7 DEF Tidy
<1>9. Mine(w)' BY <1>2, <1>3, <1>4, <1>5 DEF Mine
<1> QED BY <1>8, <1>9

\* DELETE takes the row, so what is left to delete is in the view still.
LEMMA DeleteRowStaysTidy ==
  ASSUME IInv, NEW w \in Handler, Tidy(w), Mine(w), DeleteRow(w)
  PROVE  Tidy(w)' /\ Mine(w)'
<1> DEFINE now(r) == {x \in ViewOf(w) : x.id = r.id /\ Matched(w, x)}
           more(r) == IF now(r) = {} THEN 0 ELSE 1
           l(r) == [loc[w] EXCEPT !.cand = @ \ {r}, !.aff = @ + more(r)]
<1>1. PICK r \in loc[w].cand : Write(w, now(r), {}) /\ Goto(w, "delete", l(r))
  BY DEF DeleteRow
<1>2. Running(w) /\ pc[w] = "delete" BY DEF DeleteRow, Running
<1>3. r \in ViewOf(w) /\ Matched(w, r) BY <1>2 DEF Tidy
<1>4. now(r) = {r} BY <1>2, <1>3, ViewUnique
<1>5. more(r) = 1 BY <1>4
<1> HIDE DEF now, more
<1>6. /\ l(r).cand = loc[w].cand \ {r} /\ l(r).aff = loc[w].aff + 1 /\ l(r).aff # 0
      /\ l(r).db = loc[w].db /\ l(r).ri = loc[w].ri /\ l(r).di = loc[w].di
  BY <1>5, LocFields DEF IInv, Loc
<1> HIDE DEF l
<1>7. pc'[w] = "delete" /\ loc'[w] = l(r) BY <1>1, GotoMeans DEF IInv
<1>8. UNCHANGED <<rows, req, recs>> BY DEF DeleteRow, OnlyTx, database
<1>9. ViewOf(w)' = ViewOf(w) \ {r}
  <2>1. Write(w, {r}, {}) BY <1>1, <1>4
  <2>2. {r} \in SUBSET ViewOf(w) /\ rows' = rows /\ loc'[w].db = loc[w].db
    BY <1>3, <1>6, <1>7, <1>8
  <2>3. ViewOf(w)' = (ViewOf(w) \ {r}) \cup {} BY <1>2, <2>1, <2>2, WriteView
  <2> QED BY <2>3
<1>10. /\ Cmd(w)' = Cmd(w) /\ \A x : Matched(w, x)' = Matched(w, x)
       /\ \A x : InTheWay(w, x)' = InTheWay(w, x)
  <2>1. Cmd(w)' = Cmd(w) /\ Rec(w)' = Rec(w) BY <1>6, <1>7, <1>8 DEF Cmd, Rec
  <2>2. \A x : Matched(w, x)' = Matched(w, x)
    BY <1>6, <1>7, <1>8, <2>1 DEF Matched, ByItem, Owned, OwnedItem
  <2>3. \A x : InTheWay(w, x)' = InTheWay(w, x) BY <1>8, <2>1 DEF InTheWay
  <2> QED BY <2>1, <2>2, <2>3
<1>11. Single(ViewOf(w)') BY <1>9, SingleSubset DEF Tidy
<1>12. Tidy(w)'
  BY <1>2, <1>6, <1>7, <1>9, <1>10, <1>11 DEF Tidy, Single
<1>13. Mine(w)'
  <2>1. Cmd(w) # "replace_owner" BY <1>2, PlaceTells
  <2> QED BY <1>10, <2>1 DEF Mine
<1> QED BY <1>12, <1>13

\* UPDATE of one row's owner changes a row of the token.
LEMMA UpdateOwnerStaysTidy ==
  ASSUME IInv, NEW w \in Handler, Tidy(w), Mine(w), UpdateOwner(w)
  PROVE  Tidy(w)' /\ Mine(w)'
<1> DEFINE now(r) == {x \in ViewOf(w) : x.id = r.id /\ x.owner # NoOwner}
           handed(r) == [r EXCEPT !.owner = req[w].newToken]
           new(r) == IF now(r) = {} THEN {} ELSE {handed(r)}
           l(r) == [loc[w] EXCEPT !.cand = @ \ {r},
                                  !.aff = @ + (IF now(r) = {} THEN 0 ELSE 1)]
<1>1. PICK r \in loc[w].cand : Write(w, now(r), new(r)) /\ Goto(w, "owner", l(r))
  BY DEF UpdateOwner
<1>2. /\ Running(w) /\ pc[w] = "owner" /\ Cmd(w) = "replace_owner" /\ r \in Row
      /\ req[w].token \in Token
  BY LocFields DEF UpdateOwner, Running, IInv, Control, Placed, Places, RequestType
<1>3. r \in ViewOf(w) /\ r.owner = req[w].token BY <1>2 DEF Tidy, Mine
<1>4. now(r) = {r}
  BY <1>2, <1>3, ViewUnique, OrmAssumption DEF OrmAssumption
<1>5. /\ new(r) = {handed(r)}
      /\ handed(r).id = r.id /\ handed(r).domain = r.domain
      /\ handed(r).name = r.name /\ handed(r).type = r.type
  BY <1>2, <1>4 DEF Row
<1>6. l(r).cand = loc[w].cand \ {r} /\ l(r).db = loc[w].db BY LocFields DEF IInv, Loc
<1> HIDE DEF now, new, l, handed
<1>7. pc'[w] = "owner" /\ loc'[w] = l(r) BY <1>1, GotoMeans DEF IInv
<1>8. UNCHANGED <<rows, req>> BY DEF UpdateOwner, OnlyTx, database
<1>9. ViewOf(w)' = (ViewOf(w) \ {r}) \cup {handed(r)}
  <2>1. Write(w, {r}, {handed(r)}) BY <1>1, <1>4, <1>5
  <2>2. {r} \in SUBSET ViewOf(w) /\ rows' = rows /\ loc'[w].db = loc[w].db
    BY <1>3, <1>6, <1>7, <1>8
  <2> DEFINE gone == {r}
             come == {handed(r)}
  <2>3. \A n \in come : \A x \in ViewOf(w) : x.id = n.id => x \in gone
    BY <1>2, <1>3, <1>5, ViewUnique
  <2>4. Write(w, gone, come) /\ gone \in SUBSET ViewOf(w) BY <2>1, <2>2
  <2> HIDE DEF gone, come
  <2>5. ViewOf(w)' = (ViewOf(w) \ gone) \cup come BY <1>2, <2>2, <2>3, <2>4, WriteView
  <2> QED BY <2>5 DEF gone, come
<1>10. Single(ViewOf(w)') BY <1>3, <1>5, <1>9, SingleReplace DEF Tidy
<1>11. Cmd(w)' = Cmd(w) BY <1>8 DEF Cmd
<1>12. Tidy(w)'
  BY <1>2, <1>6, <1>7, <1>9, <1>10, <1>11 DEF Tidy
<1>13. ASSUME NEW x \in rows[loc[w].db], x.id \in tx'[w].locked PROVE x.owner = req[w].token
  <2>1. x.id \in tx[w].locked \/ x.id = r.id
    BY <1>1, <1>4, <1>5, <1>13, WriteMeans DEF IInv
  <2>2. r.id \notin tx[w].locked /\ x.id = r.id => x = r
    BY <1>2, <1>3, ViewMeans
  <2> QED BY <1>2, <1>3, <2>1, <2>2 DEF Mine
<1>14. Mine(w)' BY <1>2, <1>6, <1>7, <1>8, <1>11, <1>13 DEF Mine
<1> QED BY <1>12, <1>14

\* The INSERT of create_record and replace_record, when no row is in the way.
LEMMA InsertStaysTidy ==
  ASSUME IInv, NEW w \in Handler, Running(w), Tidy(w), OneItem(w), Insert(w),
         loc[w].ri \in DOMAIN recs[w], Cmd(w) \in {"create_record", "replace_record"},
         \A x \in ViewOf(w) : ~InTheWay(w, x),
         NEW n, NextRecord(w, n), UNCHANGED <<rows, req>>
  PROVE  Tidy(w)' /\ Mine(w)'
<1>1. TypeOK /\ loc[w].db \in Orm /\ Rec(w) \in Record
  BY RecTyped DEF IInv, Control, Placed
<1>2. /\ pc'[w] = "records" /\ loc'[w].db = loc[w].db /\ loc'[w].aff = 0
      /\ Cmd(w)' = Cmd(w)
  BY <1>1, GotoMeans DEF NextRecord, LocAt, Cmd
<1>3. ViewOf(w)' = ViewOf(w) \cup NewRows(w)
  <2>1. ASSUME NEW a \in NewRows(w), NEW x \in ViewOf(w) PROVE x.id # a.id
    <3>1. nextId[loc[w].db] <= a.id BY <1>1, NewRowsFresh
    <3>2. x.id < nextId[loc[w].db] BY ViewMeans
    <3>3. x.id \in Nat /\ a.id \in Nat /\ nextId[loc[w].db] \in Nat
      BY <1>1, ViewTyped, NewRowsTyped DEF Row, TypeOK
    <3> QED BY <3>1, <3>2, <3>3
  <2> DEFINE gone == {}
  <2>2. Write(w, gone, NewRows(w)) /\ gone \in SUBSET ViewOf(w) BY DEF Insert
  <2>3. \A a \in NewRows(w) : \A x \in ViewOf(w) : x.id = a.id => x \in gone BY <2>1
  <2>4. rows' = rows OBVIOUS
  <2> HIDE DEF gone
  <2>5. ViewOf(w)' = (ViewOf(w) \ gone) \cup NewRows(w)
    BY <1>2, <2>2, <2>3, <2>4, WriteView
  <2> QED BY <2>5 DEF gone
<1>4. \A a \in NewRows(w) :
        a.domain = req[w].domain /\ a.name = FullName(Rec(w).name) /\ a.type = Rec(w).type
  BY DEF NewRows, NewRow
<1>5. Rec(w).type \in {"CNAME", "PTR", "SOA"} => \A a, b \in NewRows(w) : a = b
  <2>1. Rec(w).type \in {"CNAME", "PTR", "SOA"} => Len(Rec(w).data) = 1
    BY DEF OneItem, Rec
  <2>2. DOMAIN Rec(w).data = 1 .. Len(Rec(w).data) BY <1>1, NewRowsTyped
  <2>3. Len(Rec(w).data) = 1 => \A i, j \in DOMAIN Rec(w).data : i = j BY <2>2
  <2>4. ASSUME NEW a \in NewRows(w), NEW b \in NewRows(w), Len(Rec(w).data) = 1
        PROVE  a = b
    <3>1. PICK i \in DOMAIN Rec(w).data : a = NewRow(w, i) BY DEF NewRows
    <3>2. PICK j \in DOMAIN Rec(w).data : b = NewRow(w, j) BY DEF NewRows
    <3> QED BY <2>3, <2>4, <3>1, <3>2
  <2> QED BY <2>1, <2>4
<1>6. \A x \in ViewOf(w) : x.domain = req[w].domain /\ x.name = FullName(Rec(w).name) =>
        ~Clash(Rec(w).type, x.type)
  BY DEF InTheWay
<1>7. Single(ViewOf(w)')
  <2>1. Single(ViewOf(w)) BY DEF Tidy
  <2>2. Single(ViewOf(w) \cup NewRows(w)) BY <1>4, <1>5, <1>6, <2>1, SingleInsert
  <2> QED BY <1>3, <2>2
<1> QED BY <1>2, <1>7 DEF Tidy, Mine

\* create_record, whose check finds no row in the way.
LEMMA CreateRecordStaysTidy ==
  ASSUME IInv, NEW w \in Handler, Tidy(w), OneItem(w), CreateRecord(w)
  PROVE  Tidy(w)' /\ Mine(w)'
<1>1. /\ Running(w) /\ loc[w].ri \in DOMAIN recs[w] /\ Cmd(w) = "create_record"
      /\ Insert(w) /\ NextRecord(w, Len(Rec(w).data)) /\ UNCHANGED <<rows, req>>
  BY DEF CreateRecord, AtRecord, Running, OnlyNew
<1>2. \A x \in ViewOf(w) : ~InTheWay(w, x)
  BY DEF CreateRecord, Conflict, InTheWay, Clash, Upper
<1> QED BY <1>1, <1>2, InsertStaysTidy

\* replace_record, which has deleted whatever was in the way.
LEMMA ReplaceInsertStaysTidy ==
  ASSUME IInv, NEW w \in Handler, Tidy(w), OneItem(w), ReplaceInsert(w)
  PROVE  Tidy(w)' /\ Mine(w)'
<1>1. /\ Running(w) /\ loc[w].ri \in DOMAIN recs[w] /\ Cmd(w) = "replace_record"
      /\ Insert(w) /\ NextRecord(w, loc[w].aff + Len(Rec(w).data)) /\ UNCHANGED <<rows, req>>
  BY DEF ReplaceInsert, Running, OnlyNew, IInv, Control, Placed
<1>2. \A x \in ViewOf(w) : ~InTheWay(w, x)
  BY DEF ReplaceInsert, Tidy
<1> QED BY <1>1, <1>2, InsertStaysTidy

\* The SOA that ormUpdateSOA reads is one that it sees.
LEMMA ReadSoaStaysTidy ==
  ASSUME IInv, NEW w \in Handler, Tidy(w), Mine(w), ReadSoa(w)
  PROVE  Tidy(w)' /\ Mine(w)'
<1> DEFINE stamped(x) == [x EXCEPT !.content = <<GenerateNewSerial(x.content[1], today)>>]
           l(x) == [loc[w] EXCEPT !.soa = {stamped(x)}]
<1>1. PICK x \in Soas(w) : Goto(w, "save", l(x)) BY DEF ReadSoa
<1>2. /\ Running(w) /\ pc[w] = "soa" /\ Cmd(w) # "replace_owner" /\ loc[w].db \in Orm
      /\ UNCHANGED <<rows, tx, req>>
  BY PlaceTells DEF ReadSoa, Running, IInv, Control, Placed, Edits, OnlyLoc, database
<1>3. x \in ViewOf(w) /\ x \in Row BY <1>2, ViewTyped DEF Soas, IInv
<1>4. stamped(x).id = x.id BY <1>3 DEF Row
<1> HIDE DEF stamped
<1>5. l(x).soa = {stamped(x)} /\ l(x).db = loc[w].db BY LocFields DEF IInv, Loc
<1> HIDE DEF l
<1>6. pc'[w] = "save" /\ loc'[w] = l(x) BY <1>1, GotoMeans DEF IInv
<1>7. ViewOf(w)' = ViewOf(w) /\ Cmd(w)' = Cmd(w)
  BY <1>2, <1>5, <1>6, SameView DEF Cmd
<1>8. Tidy(w)' BY <1>3, <1>4, <1>5, <1>6, <1>7 DEF Tidy
<1>9. Mine(w)' BY <1>2, <1>7 DEF Mine
<1> QED BY <1>8, <1>9

\* The UPDATE of the SOA keeps its name and type.
LEMMA SaveSoaStaysTidy ==
  ASSUME IInv, NEW w \in Handler, Tidy(w), Mine(w), SaveSoa(w)
  PROVE  Tidy(w)' /\ Mine(w)'
<1> DEFINE saved(x, now) == [x EXCEPT !.owner = now.owner]
<1>1. PICK x \in loc[w].soa, now \in ViewOf(w) :
             /\ now.id = x.id /\ Write(w, {now}, {saved(x, now)})
             /\ Goto(w, "commit", loc[w])
  BY DEF SaveSoa
<1>2. /\ Running(w) /\ Cmd(w) # "replace_owner" /\ loc[w].db \in Orm /\ x \in Row
      /\ UNCHANGED <<rows, req>>
  BY PlaceTells, LocFields
  DEF SaveSoa, Running, IInv, Control, Placed, Edits, OnlyTx, database
<1>3. SameRow(x, now)
  <2>1. now \in Versions(loc[w].db) /\ x \in Versions(loc[w].db)
    BY VersionsOf DEF ViewOf, Held
  <2> QED BY <1>1, <1>2, <2>1 DEF IInv, RowIdentity
<1> DEFINE gone == {now}
           come == {saved(x, now)}
<1>4. /\ saved(x, now).id = now.id /\ saved(x, now).domain = now.domain
      /\ saved(x, now).name = now.name /\ saved(x, now).type = now.type
  BY <1>1, <1>2, <1>3 DEF SameRow, Row
<1>5. \A n \in come : \A y \in ViewOf(w) : y.id = n.id => y \in gone
  BY <1>2, <1>4, ViewUnique
<1>6. pc'[w] = "commit" /\ loc'[w] = loc[w] BY <1>1, GotoMeans DEF IInv
<1>7. Write(w, gone, come) /\ gone \in SUBSET ViewOf(w) BY <1>1
<1> HIDE DEF gone, come, saved
<1>8. ViewOf(w)' = (ViewOf(w) \ gone) \cup come BY <1>2, <1>5, <1>6, <1>7, WriteView
<1>9. Single(ViewOf(w)')
  <2>1. Single(ViewOf(w)) BY DEF Tidy
  <2>2. Single((ViewOf(w) \ {now}) \cup {saved(x, now)}) BY <1>4, <2>1, SingleReplace
  <2> QED BY <1>8, <2>2 DEF gone, come
<1>10. Cmd(w)' = Cmd(w) BY <1>2 DEF Cmd
<1> QED BY <1>2, <1>6, <1>9, <1>10 DEF Tidy, Mine

\* A commit puts what the handler saw into the database.
LEMMA ApplyKeepsSingles ==
  ASSUME IInv, NEW w \in Handler, Running(w), Tidy(w), \A d \in Orm : Single(rows[d]),
         Apply(w)
  PROVE  \A d \in Orm : Single(rows'[d])
<1>1. TypeOK /\ loc[w].db \in Orm BY DEF IInv, Control, Placed
<1> QED BY <1>1, ApplyMeans DEF Tidy

\* A handler that begins a database sees what is committed, or it ends.
LEMMA NextDatabaseStaysTidy ==
  ASSUME TypeOK, NEW w \in Handler, NEW e, NextDatabase(w, e), tx'[w] = NoTx, Running(w)',
         \A d \in Orm : Single(rows'[d])
  PROVE  Tidy(w)' /\ Mine(w)'
<1>1. PICK d \in Orm : pc'[w] = "begin" /\ loc'[w] = LocAt(d, 1, 0)
  BY NextDatabaseMeans DEF Running
<1>2. ViewOf(w)' = rows'[d] /\ loc'[w].aff = 0 BY <1>1, FreshView DEF LocAt
<1>3. Single(ViewOf(w)') BY <1>2
<1>4. tx'[w].locked = {} BY DEF NoTx
<1> QED BY <1>1, <1>2, <1>3, <1>4 DEF Tidy, Mine

\* One step of the only handler.
LEMMA HandleStaysTidy ==
  ASSUME IInv, NEW w \in Handler, Tidy(w), Mine(w), OneItem(w), Handle(w), Running(w)',
         ~Panic(w), \A d \in Orm : Single(rows[d])
  PROVE  Tidy(w)' /\ Mine(w)' /\ \A d \in Orm : Single(rows'[d])
<1>1. ~Fail(w) BY FailMeans DEF Running, IInv
<1>2. ~SoaVanished(w) /\ ~InsertSoa(w) /\ ~InsertNothing(w)
  BY DEF Tidy, SoaVanished, InsertSoa, InsertNothing
<1>3. CASE Commit(w)
  <2>1. TypeOK /\ Running(w) /\ Apply(w) /\ NextDatabase(w, loc[w].db) /\ loc[w].db \in Orm
    BY <1>3 DEF IInv, Commit, Running, Control, Placed
  <2>2. \A d \in Orm : Single(rows'[d]) BY <2>1, ApplyKeepsSingles
  <2>3. tx'[w] = NoTx BY <2>1, ApplyMeans
  <2> QED BY <2>1, <2>2, <2>3, NextDatabaseStaysTidy
<1>4. CASE ~Commit(w)
  <2>1. rows' = rows
    BY <1>1, <1>2, <1>4
    DEF Handle, FindDomain, InsertDomain, DomainConflict, BeginRecords, CannotBegin, EmptyData,
        CreateRecord, CreateConflict, StartDelete, DeleteRow, DeleteNextItem, DeletedAll,
        ReplaceInsert, ReplaceMissing, SelectOwned, NothingOwned, UpdateOwner, EndOwner,
        EndOfRecords, ReadSoa, NoSoa, SaveSoa, InsertConflict, DeadlockAbort,
        OnlyLoc, OnlyTx, OnlyNew, database
  <2>2. \/ FindDomain(w) \/ BeginRecords(w) \/ DeletedAll(w) \/ EndOwner(w)
        \/ EndOfRecords(w) \/ InsertDomain(w) \/ DeleteNextItem(w)
        \/ SelectOwned(w) \/ StartDelete(w) \/ DeleteRow(w) \/ UpdateOwner(w)
        \/ CreateRecord(w) \/ ReplaceInsert(w) \/ ReadSoa(w) \/ SaveSoa(w)
    BY <1>1, <1>2, <1>4
    DEF Handle, DomainConflict, CannotBegin, EmptyData, CreateConflict, ReplaceMissing,
        NothingOwned, NoSoa, InsertConflict, DeadlockAbort
  <2>3. Tidy(w)' /\ Mine(w)'
    BY <2>2, LookingStaysTidy, SelectOwnedStaysTidy, StartDeleteStaysTidy,
       DeleteRowStaysTidy, UpdateOwnerStaysTidy, CreateRecordStaysTidy,
       ReplaceInsertStaysTidy, ReadSoaStaysTidy, SaveSoaStaysTidy
  <2> QED BY <2>1, <2>3
<1> QED BY <1>3, <1>4

-----------------------------------------------------------------------------
(* The steps of the program.                                               *)

\* checkRFCRequest leaves one item of a CNAME, PTR or SOA.
LEMMA RequestHasOneItem ==
  ASSUME NEW q \in Request, q.cmd \in {"create_record", "replace_record"},
         NEW i \in DOMAIN q.recs, q.recs[i].type \in {"CNAME", "PTR", "SOA"}
  PROVE  Len(q.recs[i].data) = 1
BY OrmAssumption DEF OrmAssumption, RfcChecked

\* create_record and replace_record keep the items of their records, which are
\* the request's when the handler begins.
Taken(w) ==
  \A i \in DOMAIN recs[w] :
    /\ i \in DOMAIN req[w].recs
    /\ recs[w][i].type = req[w].recs[i].type /\ recs[w][i].data = req[w].recs[i].data

LEMMA ItemsKept ==
  ASSUME IInv, [Next]_vars, NEW w \in Handler,
         Cmd(w)' \in {"create_record", "replace_record"}
  PROVE  req' = req /\ (recs'[w] = recs[w] \/ Taken(w)')
<1>1. TypeOK BY DEF IInv
<1>2. req' = req
  BY <1>1, HandleKeepsRequests
  DEF Next, Deliver, RejectSerial, Fail, ConnectionLost, CommitLost, Apply, Crash, Die, Tick,
      Terminated, vars
<1>3. Cmd(w) = Cmd(w)' BY <1>2 DEF Cmd
<1>4. CASE recs'[w] = recs[w] BY <1>2, <1>4
<1>5. CASE Deliver(w)
  <2>1. req[w] \in Request /\ req[w] \in RequestType BY <1>1, LocFields DEF TypeOK
  <2>2. recs'[w] = WithTtl(req[w]) BY <1>1, <1>5 DEF Deliver, TypeOK
  <2>3. recs'[w] = [i \in DOMAIN req[w].recs |->
                     [req[w].recs[i] EXCEPT !.ttl = IF @ = 0 THEN DefaultTtl ELSE @]]
    BY <1>3, <2>2 DEF WithTtl, Cmd
  <2>4. ASSUME NEW i \in DOMAIN recs'[w]
        PROVE  /\ i \in DOMAIN req[w].recs /\ recs'[w][i].type = req[w].recs[i].type
               /\ recs'[w][i].data = req[w].recs[i].data
    <3>1. i \in DOMAIN req[w].recs BY <2>3, <2>4
    <3>2. req[w].recs[i] \in Record BY <2>1, <3>1 DEF RequestType
    <3> QED BY <2>3, <3>1, <3>2 DEF Record
  <2> QED BY <1>2, <2>4 DEF Taken
<1>6. CASE DeleteNextItem(w)
  BY <1>3, <1>6 DEF DeleteNextItem, ByItem
<1>7. ASSUME NEW v \in Handler, Handle(v) PROVE recs'[w] = recs[w] \/ DeleteNextItem(w)
  <2>1. CASE v # w BY <1>1, <1>7, <2>1, HandleKeepsRequests
  <2>2. CASE v = w
    BY <1>7, <2>2
    DEF Handle, FindDomain, InsertDomain, DomainConflict, BeginRecords, CannotBegin, EmptyData,
        CreateRecord, CreateConflict, StartDelete, DeleteRow, DeletedAll,
        ReplaceInsert, ReplaceMissing, SelectOwned, NothingOwned, UpdateOwner, EndOwner,
        EndOfRecords, ReadSoa, NoSoa, SaveSoa, SoaVanished, InsertSoa, InsertNothing,
        InsertConflict, Commit, Apply, DeadlockAbort, Panic, Die, Fail, OnlyLoc, OnlyTx, OnlyNew
  <2> QED BY <2>1, <2>2
<1>8. ASSUME NEW v \in Handler, Deliver(v), v # w PROVE recs'[w] = recs[w]
  BY <1>1, <1>8 DEF Deliver, TypeOK
<1>9. ASSUME NEW v \in Handler, RejectSerial(v) \/ ConnectionLost(v) \/ CommitLost(v)
      PROVE  recs' = recs
  BY <1>9 DEF RejectSerial, Fail, ConnectionLost, CommitLost, Apply
<1>10. Crash \/ Tick \/ UNCHANGED vars => recs' = recs BY DEF Crash, Die, Tick, vars
<1> QED BY <1>4, <1>5, <1>6, <1>7, <1>8, <1>9, <1>10 DEF Next, Terminated

LEMMA ItemsStep ==
  ASSUME IInv, [Next]_vars, \A w \in Handler : OneItem(w)
  PROVE  \A w \in Handler : OneItem(w)'
<1> SUFFICES ASSUME NEW w \in Handler, Cmd(w)' \in {"create_record", "replace_record"}
             PROVE  OneItem(w)'
  BY DEF OneItem
<1>1. req' = req /\ (recs'[w] = recs[w] \/ Taken(w)') BY ItemsKept
<1>2. req[w] \in Request /\ req[w].cmd \in {"create_record", "replace_record"}
  BY <1>1 DEF IInv, TypeOK, Cmd
<1> QED BY <1>1, <1>2, RequestHasOneItem DEF OneItem, Taken, Cmd

\* The invariant without the items, after a step of handler w.
Ordered ==
  /\ Alone
  /\ \A d \in Orm : Single(rows[d])
  /\ \A w \in Handler : Running(w) => Tidy(w) /\ Mine(w)

\* If all the others are idle or at their end, it is enough to look at w.
LEMMA OnlyHandler ==
  ASSUME NEW w \in Handler,
         \A v \in Handler \ {w} : ~Running(v) /\ pc'[v] = pc[v],
         \A d \in Orm : Single(rows'[d]),
         Running(w)' => Tidy(w)' /\ Mine(w)'
  PROVE  Ordered'
<1>1. \A v \in Handler \ {w} : ~Running(v)' BY DEF Running
<1>2. Alone' BY <1>1 DEF Alone
<1> QED BY <1>1, <1>2 DEF Ordered

\* When no handler runs after the step, the committed rows are all there is.
LEMMA NobodyLeft ==
  ASSUME \A v \in Handler : ~Running(v)', \A d \in Orm : Single(rows'[d])
  PROVE  Ordered'
BY DEF Ordered, Alone

\* A request is taken up only when no other is being handled.
LEMMA TakenUpAlone ==
  ASSUME Alone, Cardinality(InFlight) < 1 PROVE \A v \in Handler : ~Running(v)
<1> SUFFICES ASSUME NEW v \in Handler, Running(v) PROVE FALSE OBVIOUS
<1>1. InFlight = {v} BY DEF Alone, InFlight
<1>2. Cardinality({v}) = 1 BY FS_Singleton
<1> QED BY <1>1, <1>2

\* Every step keeps the rows and what the only handler sees in order.
LEMMA OrderStep ==
  ASSUME MaxInFlight = 1, IInv, OInv, [Next]_vars
  PROVE  Ordered'
<1>1. /\ TypeOK /\ Alone /\ \A d \in Orm : Single(rows[d])
      /\ \A w \in Handler : OneItem(w) /\ (Running(w) => Tidy(w) /\ Mine(w))
  BY DEF IInv, OInv
<1>2. ASSUME NEW w \in Handler, Deliver(w) PROVE Ordered'
  <2>1. \A v \in Handler : ~Running(v) BY <1>1, <1>2, TakenUpAlone DEF Deliver
  <2>2. /\ tx[w] = NoTx /\ tx' = tx /\ rows' = rows /\ NextDatabase(w, 0)
    BY <1>2, <2>1 DEF Deliver, database, IInv, Control, Placed
  <2>3. \A v \in Handler \ {w} : pc'[v] = pc[v] BY <1>1, <2>2, NextDatabaseMeans
  <2>4. Running(w)' => Tidy(w)' /\ Mine(w)'
    BY <1>1, <2>2, NextDatabaseStaysTidy
  <2> QED BY <1>1, <2>1, <2>2, <2>3, <2>4, OnlyHandler
<1>3. ASSUME NEW w \in Handler, RejectSerial(w) PROVE Ordered'
  <2>1. \A v \in Handler : ~Running(v) BY <1>1, <1>3, TakenUpAlone DEF RejectSerial
  <2>2. pc'[w] = "done" /\ OthersKeep(w) /\ rows' = rows
    BY <1>1, <1>3, FailMeans DEF RejectSerial
  <2>3. \A v \in Handler : ~Running(v)' BY <2>1, <2>2 DEF Running, OthersKeep
  <2> QED BY <1>1, <2>2, <2>3, NobodyLeft
<1>4. ASSUME Die PROVE Ordered'
  <2>1. rows' = rows /\ \A v \in Handler : ~Running(v)'
    BY <1>4 DEF Die, database, Running
  <2> QED BY <1>1, <2>1, NobodyLeft
<1>5. ASSUME NEW w \in Handler, Handle(w) PROVE Ordered'
  <2>1. CASE Panic(w) BY <1>4, <2>1 DEF Panic
  <2>2. CASE ~Panic(w)
    <3>1. Running(w)
      BY <1>5
      DEF Handle, FindDomain, InsertDomain, DomainConflict, BeginRecords, CannotBegin,
          EmptyData, CreateRecord, CreateConflict, StartDelete, Deletes, AtRecord, DeleteRow,
          DeleteNextItem, DeletedAll, ReplaceInsert, ReplaceMissing, SelectOwned,
          NothingOwned, UpdateOwner, EndOwner, EndOfRecords, ReadSoa, NoSoa, SaveSoa,
          SoaVanished, InsertSoa, InsertNothing, InsertConflict, Commit, DeadlockAbort,
          Panic, Running
    <3>2. \A v \in Handler \ {w} : ~Running(v) /\ pc'[v] = pc[v]
      BY <1>1, <1>5, <2>2, <3>1, PlacedHandle DEF Alone, OthersKeep
    <3>3. CASE Running(w)'
      BY <1>1, <1>5, <2>2, <3>1, <3>2, <3>3, HandleStaysTidy, OnlyHandler
    <3>4. CASE ~Running(w)'
      <4>1. \A d \in Orm : Single(rows'[d])
        <5>1. CASE Commit(w) BY <1>1, <3>1, <5>1, ApplyKeepsSingles DEF Commit
        <5>2. CASE ~Commit(w)
          <6>1. rows' = rows
            BY <1>5, <2>2, <5>2
            DEF Handle, FindDomain, InsertDomain, DomainConflict, BeginRecords, CannotBegin,
                EmptyData, CreateRecord, CreateConflict, StartDelete, DeleteRow,
                DeleteNextItem, DeletedAll, ReplaceInsert, ReplaceMissing, SelectOwned,
                NothingOwned, UpdateOwner, EndOwner, EndOfRecords, ReadSoa, NoSoa, SaveSoa,
                SoaVanished, InsertSoa, InsertNothing, InsertConflict, DeadlockAbort,
                Fail, OnlyLoc, OnlyTx, OnlyNew, database
          <6> QED BY <1>1, <6>1
        <5> QED BY <5>1, <5>2
      <4> QED BY <3>2, <3>4, <4>1, OnlyHandler
    <3> QED BY <3>3, <3>4
  <2> QED BY <2>1, <2>2
<1>6. ASSUME NEW w \in Handler, ConnectionLost(w) PROVE Ordered'
  <2>1. Running(w) /\ rows' = rows /\ pc'[w] = "done"
        /\ \A v \in Handler \ {w} : pc'[v] = pc[v]
    BY <1>1, <1>6, GotoMeans DEF ConnectionLost, Finish, database
  <2>2. \A v \in Handler : ~Running(v)' BY <1>1, <2>1 DEF Running, Alone
  <2> QED BY <1>1, <2>1, <2>2, NobodyLeft
<1>7. ASSUME NEW w \in Handler, CommitLost(w) PROVE Ordered'
  <2>1. Running(w) /\ Apply(w) /\ pc'[w] = "done" /\ \A v \in Handler \ {w} : pc'[v] = pc[v]
    BY <1>1, <1>7, GotoMeans DEF CommitLost, Finish, Running
  <2>2. \A v \in Handler : ~Running(v)' BY <1>1, <2>1 DEF Running, Alone
  <2>3. \A d \in Orm : Single(rows'[d]) BY <1>1, <2>1, ApplyKeepsSingles
  <2> QED BY <2>2, <2>3, NobodyLeft
<1>8. CASE Crash BY <1>4, <1>8 DEF Crash
<1>9. CASE Tick \/ UNCHANGED vars
  <2>1. UNCHANGED <<rows, tx, req, recs, pc, loc>> BY <1>9 DEF Tick, vars, database
  <2>2. \A w \in Handler : /\ Running(w)' = Running(w) /\ ViewOf(w)' = ViewOf(w)
                           /\ Cmd(w)' = Cmd(w) /\ Rec(w)' = Rec(w)
    BY <2>1 DEF Running, ViewOf, Cmd, Rec
  <2>3. \A w \in Handler : \A x : /\ Matched(w, x)' = Matched(w, x)
                                 /\ InTheWay(w, x)' = InTheWay(w, x)
    BY <2>1, <2>2 DEF Matched, ByItem, Owned, OwnedItem, InTheWay
  <2>4. \A w \in Handler : Tidy(w) /\ Mine(w) => Tidy(w)' /\ Mine(w)'
    BY <2>1, <2>2, <2>3 DEF Tidy, Mine
  <2>5. Alone' BY <1>1, <2>2 DEF Alone
  <2> QED BY <1>1, <2>1, <2>2, <2>4, <2>5 DEF Ordered
<1> QED BY <1>2, <1>3, <1>5, <1>6, <1>7, <1>8, <1>9 DEF Next, Terminated

\* The databases are in order when the process starts.
LEMMA OrderInit ==
  ASSUME \A s \in InitialStore : \A d \in Orm : Single(s.rows[d]), Init
  PROVE  OInv
<1>1. PICK s \in InitialStore : rows = s.rows BY DEF Init
<1>2. \A d \in Orm : Single(rows[d]) BY <1>1
<1>3. \A w \in Handler : ~Running(w) BY DEF Init, Running
<1>4. \A w \in Handler : OneItem(w)
  BY RequestHasOneItem DEF OneItem, Init, Cmd
<1> QED BY <1>2, <1>3, <1>4 DEF OInv, Alone

\* The invariant of a program that handles one request at a time.
LEMMA OrderInvariance ==
  ASSUME MaxInFlight = 1, \A s \in InitialStore : \A d \in Orm : Single(s.rows[d])
  PROVE  Spec => [](IInv /\ OInv)
<1>1. Init => IInv /\ OInv BY InitIInv, OrderInit
<1>2. IInv /\ [Next]_vars => IInv'
  BY TypeStep, IdentityStep, OpenStep, ControlStep DEF IInv
<1>3. IInv /\ OInv /\ [Next]_vars => OInv'
  <2> SUFFICES ASSUME IInv, OInv, [Next]_vars PROVE OInv' OBVIOUS
  <2>1. Ordered' BY OrderStep
  <2>2. \A w \in Handler : OneItem(w)' BY ItemsStep DEF OInv
  <2> QED BY <2>1, <2>2 DEF OInv, Ordered
<1> QED BY <1>1, <1>2, <1>3, PTL DEF Spec

-----------------------------------------------------------------------------
(* What holds while requests do not overlap.                               *)

\* The checks of create_record (orm.go:303-321) and the DELETE before the
\* INSERT of replace_record: as long as requests are handled one after another,
\* a CNAME stays alone at its name, and an SOA or PTR the only one there, in
\* databases that start so.
THEOREM SinglesWithoutOverlap ==
  ASSUME MaxInFlight = 1, \A s \in InitialStore : \A d \in Orm : Single(s.rows[d])
  PROVE  Spec => []SingleRecords
<1>1. OInv => SingleRecords BY SinglesAreSingle DEF OInv
<1> QED BY <1>1, OrderInvariance, PTL

\* A commit that changes the owner of a row is the owner's replace_owner.
LEMMA ApplyByOwner ==
  ASSUME IInv, NEW w \in Handler, Running(w), Mine(w), Apply(w),
         NEW d \in Orm, NEW r \in rows[d], NEW y \in rows'[d],
         r.id = y.id, r.owner # y.owner
  PROVE  r.id \in tx[w].locked /\ loc[w].db = d /\ req[w].token = r.owner /\ tx'[w] = NoTx
<1>1. TypeOK /\ loc[w].db \in Orm BY DEF IInv, Control, Placed
<1>2. d = loc[w].db /\ y \in ViewOf(w) /\ tx'[w] = NoTx
  <2>1. \A a \in rows[d] : a.id = y.id => a = r BY DEF IInv, RowIdentity
  <2>2. y \notin rows[d] BY <2>1
  <2> QED BY <1>1, <2>2, ApplyMeans
<1>3. r.id \in tx[w].locked /\ RightfulUpdate(w, r, y) BY <1>2, Replaced
<1>4. Cmd(w) = "replace_owner" BY <1>3 DEF RightfulUpdate
<1> QED BY <1>2, <1>3, <1>4 DEF Mine

\* The WHERE of replace_owner (orm.go:270-283): as long as requests are
\* handled one after another, a row changes hands by a request of its owner.
THEOREM HandoverWithoutOverlap ==
  ASSUME MaxInFlight = 1, \A s \in InitialStore : \A d \in Orm : Single(s.rows[d])
  PROVE  Spec => HandoverByOwner
<1> DEFINE ByOwner(d, r, y) ==
      \E w \in Handler : /\ pc[w] = "commit" /\ r.id \in tx[w].locked
                         /\ loc[w].db = d /\ req[w].token = r.owner
                         /\ tx'[w] = NoTx
<1>1. ASSUME IInv, OInv, Next, NEW d \in Orm, NEW r \in rows[d], NEW y \in rows'[d],
             r.id = y.id, r.owner # y.owner
      PROVE  ByOwner(d, r, y)
  <2>1. rows' # rows BY <1>1 DEF IInv, RowIdentity
  <2>2. PICK w \in Handler : pc[w] = "commit" /\ Apply(w)
    <3>1. ASSUME NEW w \in Handler, Handle(w) PROVE Commit(w)
      BY <2>1, <3>1
      DEF Handle, FindDomain, InsertDomain, DomainConflict, BeginRecords, CannotBegin,
          EmptyData, CreateRecord, CreateConflict, StartDelete, DeleteRow, DeleteNextItem,
          DeletedAll, ReplaceInsert, ReplaceMissing, SelectOwned, NothingOwned, UpdateOwner,
          EndOwner, EndOfRecords, ReadSoa, NoSoa, SaveSoa, SoaVanished, InsertSoa,
          InsertNothing, InsertConflict, DeadlockAbort, Panic, Die, Fail, OnlyLoc, OnlyTx,
          OnlyNew, database
    <3> QED
      BY <1>1, <2>1, <3>1
      DEF Next, Deliver, RejectSerial, Fail, ConnectionLost, CommitLost, Commit, Crash, Die,
          Tick, Terminated, vars, database
  <2>3. Running(w) /\ Mine(w) BY <1>1, <2>2 DEF OInv, Running
  <2> QED BY <1>1, <2>2, <2>3, ApplyByOwner
<1>2. IInv /\ OInv /\ [Next]_vars =>
        [\A d \in Orm : \A r \in rows[d], y \in rows'[d] :
           r.id = y.id /\ r.owner # y.owner =>
             \E w \in Handler : /\ pc[w] = "commit" /\ r.id \in tx[w].locked
                                /\ loc[w].db = d /\ req[w].token = r.owner
                                /\ tx'[w] = NoTx]_vars
  BY <1>1
<1> QED BY <1>2, OrderInvariance, PTL DEF Spec, HandoverByOwner

-----------------------------------------------------------------------------
(* The zone's serial.                                                      *)

\* The serials are numbers.
Numbered(S) == \A x \in S : x.type = "SOA" => x.content[1] \in Nat

\* An SOA past the committed one that it replaces, if it replaces one.
Ahead(w, s) == \A r \in rows[loc[w].db] : r.id = s.id => s.content[1] > r.content[1]

\* The zone's first SOA is ahead.
Bumped(w) ==
  \E s \in Soas(w) : Ahead(w, s) /\ \A y \in Soas(w) : s.id <= y.id

\* A transaction that has changed a row counts it, and one that counts any
\* commits with the zone's first SOA ahead.
Marked(w) ==
  /\ Numbered(ViewOf(w))
  /\ Edits(w) /\ pc[w] \in {"records", "delete"} /\ loc[w].n = 0 /\ loc[w].aff = 0 =>
       tx[w].locked = {}
  /\ pc[w] \in {"begin", "records"} /\ loc[w].ri \notin DOMAIN recs[w] => loc[w].aff = 0
  /\ pc[w] = "save" => \A x \in loc[w].soa : /\ x.content[1] \in Nat /\ Ahead(w, x)
                                               /\ \A y \in Soas(w) : x.id <= y.id
  /\ pc[w] = "commit" /\ Edits(w) => tx[w].locked = {} \/ Bumped(w)

\* The serials of the SOAs that a request brings are numbers.
NumberedItems(w) ==
  Cmd(w) \in {"create_record", "replace_record"} =>
    \A i \in DOMAIN recs[w] : recs[w][i].type = "SOA" => recs[w][i].data[1][1] \in Nat

SInv ==
  /\ \A d \in Orm : Numbered(rows[d])
  /\ \A w \in Handler : NumberedItems(w) /\ (Running(w) => Marked(w))

\* A handler that goes on to another statement in the same view.
LEMMA QuietMark ==
  ASSUME NEW w \in Handler, Marked(w), rows' = rows, req' = req,
         tx'[w].locked = tx[w].locked, tx'[w].writes = tx[w].writes,
         loc'[w].db = loc[w].db, pc'[w] \notin {"begin", "save"},
         Edits(w) /\ pc'[w] \in {"records", "delete"} /\ loc'[w].n = 0 /\ loc'[w].aff = 0 =>
           tx[w].locked = {},
         pc'[w] = "records" /\ loc'[w].ri \notin DOMAIN recs'[w] => loc'[w].aff = 0,
         pc'[w] = "commit" /\ Edits(w) => tx[w].locked = {}
  PROVE  Marked(w)'
<1>1. ViewOf(w)' = ViewOf(w) /\ Edits(w)' = Edits(w) BY SameView DEF Edits, Cmd
<1> QED BY <1>1 DEF Marked

\* The statements that only read, and the loops around them.
LEMMA LookingMarks ==
  ASSUME IInv, NEW w \in Handler, Marked(w),
         \/ FindDomain(w) \/ BeginRecords(w) \/ DeletedAll(w) \/ EndOwner(w)
         \/ EndOfRecords(w) \/ InsertDomain(w) \/ SelectOwned(w) \/ StartDelete(w)
  PROVE  Marked(w)'
<1>1. /\ TypeOK /\ loc[w] \in Loc /\ loc[w].n \in Nat /\ loc[w].aff \in Nat
      /\ \A p, l : Goto(w, p, l) => pc'[w] = p /\ loc'[w] = l
      /\ \A p, n : /\ LocAt(loc[w].db, p, n).db = loc[w].db
                   /\ LocAt(loc[w].db, p, n).aff = 0 /\ LocAt(loc[w].db, p, n).n = n
  BY LocFields, GotoMeans DEF IInv, LocAt
<1>2. CASE FindDomain(w)
  <2>1. /\ pc'[w] \in {"commit", "zone"} /\ loc'[w] = loc[w] /\ ~Edits(w)
        /\ UNCHANGED <<rows, req, tx>>
    BY <1>1, <1>2 DEF FindDomain, OnlyLoc, database, Edits
  <2> QED BY <2>1, QuietMark
<1>3. CASE BeginRecords(w)
  <2>1. /\ pc[w] = "begin" /\ pc'[w] = "records" /\ loc'[w] = loc[w]
        /\ UNCHANGED <<rows, req, tx, recs>>
    BY <1>1, <1>3 DEF BeginRecords, OnlyLoc, database
  <2>2. tx[w].locked = {} BY <2>1 DEF IInv, Control, Placed, NoTx
  <2>3. loc[w].ri \notin DOMAIN recs[w] => loc[w].aff = 0 BY <2>1 DEF Marked
  <2> QED BY <2>1, <2>2, <2>3, QuietMark
<1>4. CASE DeletedAll(w) \/ EndOwner(w)
  <2>1. /\ loc'[w].db = loc[w].db /\ loc'[w].aff = 0 /\ pc'[w] = "records"
        /\ loc'[w].n = loc[w].n + loc[w].aff
        /\ UNCHANGED <<rows, req, tx>>
    BY <1>1, <1>4 DEF DeletedAll, EndOwner, NextRecord, OnlyLoc, database
  <2>2. Edits(w) => pc[w] = "delete"
    BY <1>4 DEF DeletedAll, EndOwner, Edits, IInv, Control, Placed, Running, Places
  <2>3. loc'[w].n = 0 => loc[w].n = 0 /\ loc[w].aff = 0 BY <1>1, <2>1
  <2>4. Edits(w) /\ loc'[w].n = 0 => tx[w].locked = {} BY <2>2, <2>3 DEF Marked
  <2> QED BY <2>1, <2>4, QuietMark
<1>5. CASE EndOfRecords(w)
  <2>1. /\ loc'[w] = loc[w] /\ UNCHANGED <<rows, req, tx>>
        /\ pc[w] = "records" /\ loc[w].ri \notin DOMAIN recs[w]
        /\ \/ pc'[w] = "soa"
           \/ pc'[w] = "commit" /\ (loc[w].n = 0 \/ ~Edits(w))
    BY <1>1, <1>5 DEF EndOfRecords, OnlyLoc, database, Edits
  <2>2. Edits(w) /\ loc[w].n = 0 => tx[w].locked = {} BY <2>1 DEF Marked
  <2> QED BY <2>1, <2>2, QuietMark
<1>6. CASE InsertDomain(w)
  <2>1. tx'[w] = [tx[w] EXCEPT !.made = {req[w].domain}] /\ tx[w] \in Tx
    BY <1>1, <1>6 DEF InsertDomain, TypeOK
  <2>2. tx'[w].locked = tx[w].locked /\ tx'[w].writes = tx[w].writes BY <2>1 DEF Tx
  <2>3. loc'[w] = loc[w] /\ pc'[w] = "commit" /\ UNCHANGED <<rows, req>>
    BY <1>1, <1>6 DEF InsertDomain, OnlyTx, database
  <2>4. tx[w].locked = {} BY <1>6 DEF InsertDomain, IInv, Control, Placed, NoTx
  <2> QED BY <2>2, <2>3, <2>4, QuietMark
<1>7. CASE SelectOwned(w)
  <2> DEFINE l == [loc[w] EXCEPT !.cand = {x \in ViewOf(w) : Owned(w, x)}]
  <2>1. l.db = loc[w].db BY <1>1 DEF Loc
  <2>2. Goto(w, "owner", l) /\ UNCHANGED <<rows, req, tx>>
    BY <1>7 DEF SelectOwned, OnlyLoc, database
  <2> HIDE DEF l
  <2>3. loc'[w].db = loc[w].db /\ pc'[w] = "owner" BY <1>1, <2>1, <2>2
  <2> QED BY <2>2, <2>3, QuietMark
<1>8. CASE StartDelete(w)
  <2> DEFINE l == [loc[w] EXCEPT !.cand = {x \in ViewOf(w) : Matched(w, x)}]
  <2>1. l.db = loc[w].db /\ l.n = loc[w].n /\ l.aff = loc[w].aff BY <1>1 DEF Loc
  <2>2. Goto(w, "delete", l) /\ UNCHANGED <<rows, req, tx>> /\ pc[w] = "records"
    BY <1>8 DEF StartDelete, Deletes, AtRecord, OnlyLoc, database
  <2> HIDE DEF l
  <2>3. /\ loc'[w].db = loc[w].db /\ pc'[w] = "delete"
        /\ loc'[w].n = loc[w].n /\ loc'[w].aff = loc[w].aff
    BY <1>1, <2>1, <2>2
  <2>4. Edits(w) /\ loc[w].n = 0 /\ loc[w].aff = 0 => tx[w].locked = {}
    BY <2>2 DEF Marked
  <2> QED BY <2>2, <2>3, <2>4, QuietMark
<1> QED BY <1>2, <1>3, <1>4, <1>5, <1>6, <1>7, <1>8

\* The next data item of a delete_record, or its next record.
LEMMA DeleteNextItemMarks ==
  ASSUME IInv, NEW w \in Handler, Marked(w), DeleteNextItem(w) PROVE Marked(w)'
<1> DEFINE l == [loc[w] EXCEPT !.di = @ + 1]
<1>1. /\ TypeOK /\ loc[w] \in Loc /\ loc[w].n \in Nat /\ loc[w].aff \in Nat
      /\ \A p, k : Goto(w, p, k) => pc'[w] = p /\ loc'[w] = k
  BY LocFields, GotoMeans DEF IInv
<1>2. l.db = loc[w].db /\ l.n = loc[w].n /\ l.aff = loc[w].aff /\ l.ri = loc[w].ri
  BY <1>1 DEF Loc
<1>3. /\ Goto(w, "records", l) \/ NextRecord(w, loc[w].aff)
      /\ pc[w] = "delete" /\ UNCHANGED <<rows, req, tx>>
  BY DEF DeleteNextItem, database
<1> HIDE DEF l
<1>4. loc[w].ri \in DOMAIN recs[w] BY <1>3 DEF IInv, Control, Placed
<1>5. DOMAIN recs'[w] = DOMAIN recs[w] BY <1>1 DEF DeleteNextItem, StripItem, TypeOK
<1>6. Edits(w) /\ loc[w].n = 0 /\ loc[w].aff = 0 => tx[w].locked = {}
  BY <1>3 DEF Marked
<1>7. CASE Goto(w, "records", l)
  <2>1. /\ pc'[w] = "records" /\ loc'[w].db = loc[w].db /\ loc'[w].n = loc[w].n
        /\ loc'[w].aff = loc[w].aff /\ loc'[w].ri \in DOMAIN recs'[w]
    BY <1>1, <1>2, <1>4, <1>5, <1>7
  <2> QED BY <1>3, <1>6, <2>1, QuietMark
<1>8. CASE NextRecord(w, loc[w].aff)
  <2>1. /\ pc'[w] = "records" /\ loc'[w].db = loc[w].db /\ loc'[w].aff = 0
        /\ loc'[w].n = loc[w].n + loc[w].aff
    BY <1>1, <1>8 DEF NextRecord, LocAt
  <2>2. loc'[w].n = 0 => loc[w].n = 0 /\ loc[w].aff = 0 BY <1>1, <2>1
  <2> QED BY <1>3, <1>6, <2>1, <2>2, QuietMark
<1> QED BY <1>3, <1>7, <1>8

\* What a transaction writes is all that its view gains.
LEMMA WriteAdds ==
  ASSUME IInv, NEW w \in Handler, NEW gone, NEW new, Write(w, gone, new),
         rows' = rows, loc'[w].db = loc[w].db
  PROVE  ViewOf(w)' \subseteq ViewOf(w) \cup new /\ new \subseteq ViewOf(w)'
BY WriteMeans DEF IInv, ViewOf

\* A view that gains only numbered SOAs stays numbered.
LEMMA WriteNumbered ==
  ASSUME IInv, NEW w \in Handler, Marked(w), NEW gone, NEW new, Write(w, gone, new),
         rows' = rows, loc'[w].db = loc[w].db, Numbered(new)
  PROVE  Numbered(ViewOf(w)')
BY WriteAdds DEF Marked, Numbered

\* DELETE counts the rows it takes.
LEMMA DeleteRowMarks ==
  ASSUME IInv, NEW w \in Handler, Marked(w), Tidy(w), DeleteRow(w) PROVE Marked(w)'
<1> DEFINE now(r) == {x \in ViewOf(w) : x.id = r.id /\ Matched(w, x)}
           more(r) == IF now(r) = {} THEN 0 ELSE 1
           l(r) == [loc[w] EXCEPT !.cand = @ \ {r}, !.aff = @ + more(r)]
<1>1. PICK r \in loc[w].cand : Write(w, now(r), {}) /\ Goto(w, "delete", l(r))
  BY DEF DeleteRow
<1>2. r \in now(r) BY DEF DeleteRow, Tidy
<1>3. more(r) = 1 BY <1>2
<1> HIDE DEF now, more
<1>4. l(r).db = loc[w].db /\ l(r).aff # 0 BY <1>3, LocFields DEF IInv, Loc
<1> HIDE DEF l
<1>5. pc'[w] = "delete" /\ loc'[w] = l(r) BY <1>1, GotoMeans DEF IInv
<1>6. rows' = rows BY DEF DeleteRow, OnlyTx, database
<1>7. Numbered(ViewOf(w)')
  <2>1. Numbered({}) BY DEF Numbered
  <2> QED BY <1>1, <1>4, <1>5, <1>6, <2>1, WriteNumbered
<1> QED BY <1>4, <1>5, <1>7 DEF Marked

\* Handing a row over keeps its serial.
LEMMA UpdateOwnerMarks ==
  ASSUME IInv, NEW w \in Handler, Marked(w), Tidy(w), UpdateOwner(w) PROVE Marked(w)'
<1> DEFINE now(r) == {x \in ViewOf(w) : x.id = r.id /\ x.owner # NoOwner}
           new(r) == IF now(r) = {} THEN {} ELSE {[r EXCEPT !.owner = req[w].newToken]}
           l(r) == [loc[w] EXCEPT !.cand = @ \ {r},
                                  !.aff = @ + (IF now(r) = {} THEN 0 ELSE 1)]
<1>1. PICK r \in loc[w].cand : Write(w, now(r), new(r)) /\ Goto(w, "owner", l(r))
  BY DEF UpdateOwner
<1>2. r \in ViewOf(w) /\ r \in Row BY LocFields DEF UpdateOwner, Tidy, IInv
<1>3. Numbered(new(r)) BY <1>2 DEF Marked, Numbered, Row
<1>4. l(r).db = loc[w].db BY LocFields DEF IInv, Loc
<1> HIDE DEF l, now, new
<1>5. pc'[w] = "owner" /\ loc'[w] = l(r) BY <1>1, GotoMeans DEF IInv
<1>6. rows' = rows BY DEF UpdateOwner, OnlyTx, database
<1>7. Numbered(ViewOf(w)') BY <1>1, <1>3, <1>4, <1>5, <1>6, WriteNumbered
<1> QED BY <1>5, <1>7 DEF Marked

\* INSERT counts the rows it adds; an SOA among them has a number.
LEMMA InsertMarks ==
  ASSUME IInv, NEW w \in Handler, Marked(w), OneItem(w), NumberedItems(w),
         CreateRecord(w) \/ ReplaceInsert(w)
  PROVE  Marked(w)'
<1>1. /\ TypeOK /\ loc[w].ri \in DOMAIN recs[w] /\ loc[w].n \in Nat /\ loc[w].aff \in Nat
      /\ Cmd(w) \in {"create_record", "replace_record"}
  BY LocFields DEF IInv, CreateRecord, AtRecord, ReplaceInsert, Control, Placed
<1>2. Rec(w) \in Record /\ loc[w].db \in Orm
  BY <1>1, RecTyped DEF CreateRecord, AtRecord, ReplaceInsert, IInv, Control, Placed, Running
<1>3. /\ DOMAIN Rec(w).data = 1 .. Len(Rec(w).data) /\ Len(Rec(w).data) \in Nat
      /\ Rec(w).data \in Seq(Seq(Field))
  BY <1>1, <1>2, NewRowsTyped DEF Record
<1>4. PICK n \in Nat : n > 0 /\ NextRecord(w, n)
  <2>1. CASE CreateRecord(w)
    <3>1. Rec(w).data # <<>> BY <2>1 DEF CreateRecord
    <3>2. Len(Rec(w).data) > 0 BY <1>3, <3>1, EmptySeq
    <3> QED BY <1>3, <2>1, <3>2 DEF CreateRecord
  <2>2. CASE ReplaceInsert(w)
    <3>1. loc[w].aff + Len(Rec(w).data) > 0 /\ loc[w].aff + Len(Rec(w).data) \in Nat
      BY <1>1, <1>3, <2>2 DEF ReplaceInsert
    <3> QED BY <2>2, <3>1 DEF ReplaceInsert
  <2> QED BY <2>1, <2>2
<1>5. /\ pc'[w] = "records" /\ loc'[w].db = loc[w].db /\ loc'[w].aff = 0
      /\ loc'[w].n = loc[w].n + n
  BY <1>1, <1>4, GotoMeans DEF NextRecord, LocAt
<1>6. Numbered(NewRows(w))
  <2> SUFFICES ASSUME NEW i \in DOMAIN Rec(w).data, Rec(w).type = "SOA"
               PROVE  NewRow(w, i).content[1] \in Nat
    BY DEF Numbered, NewRows, NewRow
  <2>1. Len(Rec(w).data) = 1 /\ Rec(w).data[1][1] \in Nat
    BY <1>1 DEF OneItem, NumberedItems, Rec
  <2>2. i = 1 BY <1>3, <2>1
  <2> QED BY <2>1, <2>2 DEF NewRow, Content, HasPrio
<1>7. Write(w, {}, NewRows(w)) /\ rows' = rows
  BY DEF CreateRecord, ReplaceInsert, Insert, OnlyNew
<1>8. Numbered(ViewOf(w)') BY <1>5, <1>6, <1>7, WriteNumbered
<1>9. loc'[w].n # 0 BY <1>1, <1>4, <1>5
<1> QED BY <1>5, <1>8, <1>9 DEF Marked

\* The serial that ormUpdateSOA is going to write is past the committed one.
LEMMA ReadSoaMarks ==
  ASSUME IInv, NEW w \in Handler, Marked(w), ReadSoa(w) PROVE Marked(w)'
<1> DEFINE serial(x) == GenerateNewSerial(x.content[1], today)
           stamped(x) == [x EXCEPT !.content = <<serial(x)>>]
           l(x) == [loc[w] EXCEPT !.soa = {stamped(x)}]
<1>1. PICK x \in Soas(w) : (\A y \in Soas(w) : x.id <= y.id) /\ Goto(w, "save", l(x))
  BY DEF ReadSoa
<1>2. /\ Running(w) /\ pc[w] = "soa" /\ Edits(w) /\ loc[w].db \in Orm /\ today \in Nat
      /\ UNCHANGED <<rows, tx, req>>
  BY PlaceTells DEF ReadSoa, Running, IInv, TypeOK, Control, Placed, OnlyLoc, database
<1>3. x \in ViewOf(w) /\ x \in Row /\ x.content[1] \in Nat
  BY <1>2, ViewTyped DEF Soas, IInv, Marked, Numbered
<1>4. serial(x) \in Nat /\ serial(x) > x.content[1]
  BY <1>2, <1>3, SerialRises, SerialNat
<1> HIDE DEF serial
<1>5. stamped(x).id = x.id /\ stamped(x).content[1] = serial(x) BY <1>3 DEF Row
<1> HIDE DEF stamped
<1>6. l(x).soa = {stamped(x)} /\ l(x).db = loc[w].db BY LocFields DEF IInv, Loc
<1> HIDE DEF l
<1>7. pc'[w] = "save" /\ loc'[w] = l(x) BY <1>1, GotoMeans DEF IInv
<1>8. ViewOf(w)' = ViewOf(w) /\ Soas(w)' = Soas(w)
  BY <1>2, <1>6, <1>7, SameView DEF Soas
<1>9. ASSUME NEW r \in rows[loc[w].db], r.id = x.id PROVE serial(x) > r.content[1]
  <2>1. CASE x.id \notin tx[w].locked
    <3>1. r = x BY <1>2, <1>3, <1>9, <2>1, ViewMeans
    <3> QED BY <1>4, <3>1
  <2>2. CASE x.id \in tx[w].locked
    <3>1. x \in tx[w].writes BY <1>2, <1>3, <2>2, ViewMeans
    <3>2. x \in Rewritten(w) BY <1>9, <3>1 DEF Rewritten
    <3>3. Rightful(w) BY <1>2 DEF IInv, OpenTransactions, Open
    <3> QED BY <1>2, <3>2, <3>3 DEF Rightful
  <2> QED BY <2>1, <2>2
<1>10. \A s \in loc'[w].soa : /\ s.content[1] \in Nat /\ Ahead(w, s)'
                              /\ \A y \in Soas(w)' : s.id <= y.id
  BY <1>1, <1>2, <1>4, <1>5, <1>6, <1>7, <1>8, <1>9 DEF Ahead
<1> QED BY <1>7, <1>8, <1>10 DEF Marked

\* Once it is written, the zone's first SOA is ahead.
LEMMA SaveSoaMarks ==
  ASSUME IInv, NEW w \in Handler, Marked(w), SaveSoa(w) PROVE Marked(w)'
<1> DEFINE saved(x, now) == [x EXCEPT !.owner = now.owner]
<1>1. PICK x \in loc[w].soa, now \in ViewOf(w) :
             /\ now.id = x.id /\ Write(w, {now}, {saved(x, now)})
             /\ Goto(w, "commit", loc[w])
  BY DEF SaveSoa
<1>2. /\ x \in Row /\ x.type = "SOA" /\ x.domain = req[w].domain
      /\ x.content[1] \in Nat /\ Ahead(w, x) /\ \A y \in Soas(w) : x.id <= y.id
  BY LocFields DEF SaveSoa, IInv, Control, Placed, Marked
<1>3. /\ saved(x, now).id = x.id /\ saved(x, now).type = "SOA"
      /\ saved(x, now).domain = req[w].domain /\ saved(x, now).content = x.content
  BY <1>2 DEF Row
<1> HIDE DEF saved
<1>4. pc'[w] = "commit" /\ loc'[w] = loc[w] BY <1>1, GotoMeans DEF IInv
<1>5. UNCHANGED <<rows, req>> BY DEF SaveSoa, OnlyTx, database
<1>6. ViewOf(w)' \subseteq ViewOf(w) \cup {saved(x, now)} /\ saved(x, now) \in ViewOf(w)'
  BY <1>1, <1>4, <1>5, WriteAdds
<1>7. Numbered(ViewOf(w)') BY <1>2, <1>3, <1>6 DEF Marked, Numbered
<1>8. Ahead(w, saved(x, now))' BY <1>2, <1>3, <1>4, <1>5 DEF Ahead
<1>9. saved(x, now) \in Soas(w)' BY <1>3, <1>5, <1>6 DEF Soas
<1>10. \A y \in Soas(w)' : saved(x, now).id <= y.id
  <2> TAKE y \in Soas(w)'
  <2>1. y \in Soas(w) \/ y = saved(x, now) BY <1>5, <1>6 DEF Soas
  <2>2. x.id \in Nat BY <1>2 DEF Row
  <2> QED BY <1>2, <1>3, <2>1, <2>2
<1>11. Bumped(w)' BY <1>8, <1>9, <1>10 DEF Bumped
<1> QED BY <1>4, <1>7, <1>11 DEF Marked

\* A commit puts numbered SOAs into the database.
LEMMA ApplyKeepsNumbers ==
  ASSUME IInv, NEW w \in Handler, Running(w), Marked(w), \A d \in Orm : Numbered(rows[d]),
         Apply(w)
  PROVE  \A d \in Orm : Numbered(rows'[d])
<1>1. TypeOK /\ loc[w].db \in Orm BY DEF IInv, Control, Placed
<1> QED BY <1>1, ApplyMeans DEF Marked

\* A handler that begins a database has changed nothing yet.
LEMMA NextDatabaseMarks ==
  ASSUME TypeOK, NEW w \in Handler, NEW e, NextDatabase(w, e), tx'[w] = NoTx, Running(w)',
         \A d \in Orm : Numbered(rows'[d])
  PROVE  Marked(w)'
<1>1. PICK d \in Orm : pc'[w] = "begin" /\ loc'[w] = LocAt(d, 1, 0)
  BY NextDatabaseMeans DEF Running
<1>2. ViewOf(w)' = rows'[d] /\ loc'[w].aff = 0 BY <1>1, FreshView DEF LocAt
<1> QED BY <1>1, <1>2 DEF Marked

\* checkRFCRequest leaves a number of an SOA's serial.
LEMMA RequestHasNumber ==
  ASSUME NEW q \in Request, q.cmd \in {"create_record", "replace_record"},
         NEW i \in DOMAIN q.recs, q.recs[i].type = "SOA"
  PROVE  q.recs[i].data[1][1] \in Nat
BY OrmAssumption DEF OrmAssumption, RfcChecked

LEMMA NumbersStep ==
  ASSUME IInv, [Next]_vars, \A w \in Handler : NumberedItems(w)
  PROVE  \A w \in Handler : NumberedItems(w)'
<1> SUFFICES ASSUME NEW w \in Handler, Cmd(w)' \in {"create_record", "replace_record"}
             PROVE  NumberedItems(w)'
  BY DEF NumberedItems
<1>1. req' = req /\ (recs'[w] = recs[w] \/ Taken(w)') BY ItemsKept
<1>2. req[w] \in Request /\ req[w].cmd \in {"create_record", "replace_record"}
  BY <1>1 DEF IInv, TypeOK, Cmd
<1> QED BY <1>1, <1>2, RequestHasNumber DEF NumberedItems, Taken, Cmd

\* A step that commits nothing leaves the rows as they are.
LEMMA RowsChangeByCommit ==
  ASSUME [Next]_vars
  PROVE  rows' = rows \/ \E w \in Handler : pc[w] = "commit" /\ Apply(w)
<1>1. ASSUME NEW w \in Handler, Handle(w) PROVE rows' = rows \/ Commit(w)
  BY <1>1
  DEF Handle, FindDomain, InsertDomain, DomainConflict, BeginRecords, CannotBegin,
      EmptyData, CreateRecord, CreateConflict, StartDelete, DeleteRow, DeleteNextItem,
      DeletedAll, ReplaceInsert, ReplaceMissing, SelectOwned, NothingOwned, UpdateOwner,
      EndOwner, EndOfRecords, ReadSoa, NoSoa, SaveSoa, SoaVanished, InsertSoa,
      InsertNothing, InsertConflict, DeadlockAbort, Panic, Die, Fail, OnlyLoc, OnlyTx,
      OnlyNew, database
<1> QED
  BY <1>1
  DEF Next, Deliver, RejectSerial, Fail, ConnectionLost, CommitLost, Commit, Crash, Die,
      Tick, Terminated, vars, database

\* A handler that runs after a step has begun with it, or has taken it, or
\* stands still.
LEMMA WhoRuns ==
  ASSUME IInv, Alone, MaxInFlight = 1, [Next]_vars, NEW w \in Handler, Running(w)'
  PROVE  \/ Deliver(w)
         \/ Running(w) /\ Handle(w) /\ ~Panic(w)
         \/ Running(w) /\ UNCHANGED <<rows, tx, req, recs, pc, loc>>
<1>1. TypeOK BY DEF IInv
<1>2. ~Die BY DEF Die, Running
<1>3. ASSUME NEW v \in Handler, Fail(v) PROVE v # w BY <1>1, <1>3, FailMeans DEF Running
<1>4. ASSUME NEW v \in Handler, Handle(v) PROVE Running(v)
  BY <1>4
  DEF Handle, FindDomain, InsertDomain, DomainConflict, BeginRecords, CannotBegin,
      EmptyData, CreateRecord, CreateConflict, StartDelete, Deletes, AtRecord, DeleteRow,
      DeleteNextItem, DeletedAll, ReplaceInsert, ReplaceMissing, SelectOwned,
      NothingOwned, UpdateOwner, EndOwner, EndOfRecords, ReadSoa, NoSoa, SaveSoa,
      SoaVanished, InsertSoa, InsertNothing, InsertConflict, Commit, DeadlockAbort,
      Panic, Running
<1>5. ASSUME NEW v \in Handler, Handle(v) PROVE v = w
  <2>1. pc'[w] = pc[w] \/ v = w
    BY <1>2, <1>5, PlacedHandle DEF OthersKeep, Panic
  <2>2. pc'[w] = pc[w] => Running(w) BY DEF Running
  <2> QED BY <1>4, <1>5, <2>1, <2>2 DEF Alone
<1>6. ASSUME NEW v \in Handler, Deliver(v) PROVE v = w
  <2>1. ~Running(w) BY <1>6, TakenUpAlone DEF Deliver
  <2>2. v # w => pc'[w] = pc[w] BY <1>1, <1>6, NextDatabaseMeans DEF Deliver
  <2> QED BY <2>1, <2>2 DEF Running
<1>7. ASSUME NEW v \in Handler, RejectSerial(v) PROVE FALSE
  <2>1. ~Running(w) BY <1>7, TakenUpAlone DEF RejectSerial
  <2>2. pc'[w] = pc[w] BY <1>1, <1>3, <1>7, FailMeans DEF RejectSerial, OthersKeep
  <2> QED BY <2>1, <2>2 DEF Running
<1>8. ASSUME NEW v \in Handler, ConnectionLost(v) \/ CommitLost(v) PROVE FALSE
  <2>1. Running(v) /\ pc'[v] = "done" /\ \A u \in Handler \ {v} : pc'[u] = pc[u]
    BY <1>1, <1>8, GotoMeans DEF ConnectionLost, CommitLost, Finish, Running
  <2>2. v # w /\ Running(w) BY <2>1 DEF Running
  <2> QED BY <2>1, <2>2 DEF Alone
<1>9. Tick \/ UNCHANGED vars => Running(w) /\ UNCHANGED <<rows, tx, req, recs, pc, loc>>
  BY DEF Tick, vars, database, Running
<1> QED BY <1>2, <1>4, <1>5, <1>6, <1>7, <1>8, <1>9 DEF Next, Terminated, Crash, Panic

\* One step of the only handler.
LEMMA HandleMarks ==
  ASSUME IInv, NEW w \in Handler, Running(w), Tidy(w), OneItem(w), Marked(w),
         NumberedItems(w), Handle(w), Running(w)', ~Panic(w), \A d \in Orm : Numbered(rows[d])
  PROVE  Marked(w)'
<1>1. ~Fail(w) BY FailMeans DEF Running, IInv
<1>2. ~SoaVanished(w) /\ ~InsertSoa(w) /\ ~InsertNothing(w)
  BY DEF Tidy, SoaVanished, InsertSoa, InsertNothing
<1>3. CASE Commit(w)
  <2>1. TypeOK /\ Apply(w) /\ NextDatabase(w, loc[w].db) /\ loc[w].db \in Orm
    BY <1>3 DEF IInv, Commit, Control, Placed
  <2>2. \A d \in Orm : Numbered(rows'[d]) BY <2>1, ApplyKeepsNumbers
  <2>3. tx'[w] = NoTx BY <2>1, ApplyMeans
  <2> QED BY <2>1, <2>2, <2>3, NextDatabaseMarks
<1>4. CASE ~Commit(w)
  <2>1. \/ FindDomain(w) \/ BeginRecords(w) \/ DeletedAll(w) \/ EndOwner(w)
        \/ EndOfRecords(w) \/ InsertDomain(w) \/ DeleteNextItem(w)
        \/ SelectOwned(w) \/ StartDelete(w) \/ DeleteRow(w) \/ UpdateOwner(w)
        \/ CreateRecord(w) \/ ReplaceInsert(w) \/ ReadSoa(w) \/ SaveSoa(w)
    BY <1>1, <1>2, <1>4
    DEF Handle, DomainConflict, CannotBegin, EmptyData, CreateConflict, ReplaceMissing,
        NothingOwned, NoSoa, InsertConflict, DeadlockAbort
  <2> QED
    BY <2>1, LookingMarks, DeleteNextItemMarks, DeleteRowMarks, UpdateOwnerMarks,
       InsertMarks, ReadSoaMarks, SaveSoaMarks
<1> QED BY <1>3, <1>4

\* Every step keeps the serials numbered, and what the only handler is going to
\* commit marked.
LEMMA MarkStep ==
  ASSUME MaxInFlight = 1, IInv, OInv, SInv, [Next]_vars
  PROVE  SInv'
<1>1. /\ TypeOK /\ Alone /\ \A d \in Orm : Numbered(rows[d])
      /\ \A w \in Handler : OneItem(w) /\ NumberedItems(w)
      /\ \A w \in Handler : Running(w) => Tidy(w) /\ Marked(w)
  BY DEF IInv, OInv, SInv
<1>2. \A d \in Orm : Numbered(rows'[d])
  <2>1. ASSUME NEW w \in Handler, pc[w] = "commit", Apply(w)
        PROVE  \A d \in Orm : Numbered(rows'[d])
    BY <1>1, <2>1, ApplyKeepsNumbers DEF Running
  <2> QED BY <1>1, <2>1, RowsChangeByCommit
<1>3. ASSUME NEW w \in Handler, Running(w)' PROVE Marked(w)'
  <2>1. CASE Deliver(w)
    <3>1. ~Running(w) BY <1>1, <2>1, TakenUpAlone DEF Deliver
    <3>2. tx'[w] = NoTx /\ NextDatabase(w, 0)
      BY <2>1, <3>1 DEF Deliver, IInv, Control, Placed
    <3> QED BY <1>1, <1>2, <1>3, <3>2, NextDatabaseMarks
  <2>2. CASE Running(w) /\ Handle(w) /\ ~Panic(w)
    BY <1>1, <1>3, <2>2, HandleMarks
  <2>3. CASE Running(w) /\ UNCHANGED <<rows, tx, req, recs, pc, loc>>
    <3>1. ViewOf(w)' = ViewOf(w) /\ Edits(w)' = Edits(w) /\ Soas(w)' = Soas(w)
      BY <2>3 DEF ViewOf, Edits, Cmd, Soas
    <3>2. \A s : Ahead(w, s)' = Ahead(w, s) BY <2>3 DEF Ahead
    <3>3. Bumped(w)' = Bumped(w) BY <3>1, <3>2 DEF Bumped
    <3> QED BY <1>1, <2>3, <3>1, <3>2, <3>3 DEF Marked
  <2> QED BY <1>1, <1>3, <2>1, <2>2, <2>3, WhoRuns
<1>4. \A w \in Handler : NumberedItems(w)' BY <1>1, NumbersStep
<1> QED BY <1>2, <1>3, <1>4 DEF SInv

\* Copies of a row give the same answer.
Answer(x) == [x EXCEPT !.owner = NoOwner, !.id = 0]

LEMMA SameAnswer ==
  ASSUME NEW x \in Row, NEW y \in Row, SameRow(x, y), x.type # "SOA"
  PROVE  Answer(x) = Answer(y)
BY DEF Row, SameRow, Answer

\* Handing rows over does not show in the answers.
LEMMA HandoverIsSilent ==
  ASSUME IInv, NEW w \in Handler, Running(w), Cmd(w) = "replace_owner", Apply(w),
         NEW n \in DomainName, NEW d \in Orm, d = loc[w].db
  PROVE  Answers(d, n)' = Answers(d, n)
<1>1. TypeOK /\ rows'[d] = ViewOf(w)
  BY ApplyMeans DEF IInv
<1>2. /\ \A r \in rows[d] : \E y \in rows'[d] : y.id = r.id
      /\ \A y \in rows'[d] : \E r \in rows[d] : r.id = y.id
  BY HandoverRefines DEF Tenants!Handover, Tenants!Vanished, Tenants!Appeared
<1>3. ASSUME NEW r \in rows[d], NEW y \in rows'[d], r.id = y.id
      PROVE  /\ r \in Row /\ y \in Row /\ SameRow(r, y) /\ SameRow(y, r)
  BY <1>1, <1>3, Replaced, ViewTyped, SameRowEquivalence DEF TypeOK
<1> DEFINE old == {y \in rows[d] : y.domain = n /\ y.type # "SOA"}
           now == {y \in rows'[d] : y.domain = n /\ y.type # "SOA"}
<1>4. ASSUME NEW r \in old PROVE \E y \in now : Answer(r) = Answer(y)
  <2>1. PICK y \in rows'[d] : y.id = r.id BY <1>2
  <2>2. SameRow(r, y) /\ r \in Row /\ y \in Row BY <1>3, <2>1
  <2>3. y \in now BY <2>2 DEF SameRow
  <2> QED BY <2>2, <2>3, SameAnswer
<1>5. ASSUME NEW y \in now PROVE \E r \in old : Answer(r) = Answer(y)
  <2>1. PICK r \in rows[d] : r.id = y.id BY <1>2
  <2>2. SameRow(r, y) /\ r \in Row /\ y \in Row BY <1>3, <2>1
  <2>3. r \in old BY <2>2 DEF SameRow
  <2> QED BY <2>2, <2>3, SameAnswer
<1>6. Answers(d, n) = {Answer(y) : y \in old} /\ Answers(d, n)' = {Answer(y) : y \in now}
  BY DEF Answers, Answer
<1> HIDE DEF old, now
<1> QED BY <1>4, <1>5, <1>6

\* An edit does not show in the answers of another zone.
LEMMA EditIsLocal ==
  ASSUME IInv, NEW w \in Handler, Running(w), Edits(w), Apply(w),
         NEW n \in DomainName, n # req[w].domain, NEW d \in Orm, d = loc[w].db
  PROVE  Answers(d, n)' = Answers(d, n)
<1>1. TypeOK /\ rows'[d] = ViewOf(w)
  BY ApplyMeans DEF IInv
<1>2. /\ \A r \in Tenants!Vanished(d) : r.domain # n
      /\ \A y \in Tenants!Appeared(d) : y.domain # n
      /\ \A c \in Tenants!Changed(d) : c[1].domain # n
  BY EditRefines DEF Tenants!Edit
<1>3. ASSUME NEW r \in rows[d], NEW y \in rows'[d], r.id = y.id, r # y
      PROVE  r.domain # n /\ y.domain # n
  <2>1. <<r, y>> \in Tenants!Changed(d) BY <1>3 DEF Tenants!Changed
  <2>2. SameRow(r, y) BY <1>1, <1>3, Replaced
  <2> QED BY <1>2, <2>1, <2>2 DEF SameRow
<1>4. \A r \in rows[d] : r.domain = n => r \in rows'[d]
  BY <1>2, <1>3 DEF Tenants!Vanished
<1>5. \A y \in rows'[d] : y.domain = n => y \in rows[d]
  BY <1>2, <1>3 DEF Tenants!Appeared
<1>6. {y \in rows[d] : y.domain = n /\ y.type # "SOA"} =
      {y \in rows'[d] : y.domain = n /\ y.type # "SOA"}
  BY <1>4, <1>5
<1> QED BY <1>6 DEF Answers

\* A commit that shows in a zone's answers leaves its first SOA ahead.
LEMMA CommitBumps ==
  ASSUME IInv, NEW w \in Handler, pc[w] = "commit", Marked(w), Apply(w),
         NEW d \in Orm, NEW n \in DomainName, Answers(d, n)' # Answers(d, n)
  PROVE  \E s \in FirstSoa(d, n)' : \A r \in FirstSoa(d, n) :
           r.id = s.id => s.content[1] > r.content[1]
<1>1. TypeOK /\ Running(w) /\ loc[w].db \in Orm /\ Open(w) /\ Placed(w)
      /\ Cmd(w) \in Command
  BY LocFields
  DEF IInv, Running, Control, Placed, OpenTransactions, Cmd, RequestType
<1>2. rows'[d] # rows[d] BY DEF Answers
<1>3. d = loc[w].db /\ rows'[d] = ViewOf(w) BY <1>1, <1>2, ApplyMeans
<1>4. tx[w].locked # {}
  <2>1. tx[w].locked = {} => ViewOf(w) = rows[d] BY <1>1, <1>3 DEF Open, ViewOf
  <2> QED BY <1>2, <1>3, <2>1
<1>5. Edits(w)
  <2>1. Cmd(w) # "create_domain" BY <1>1, <1>4 DEF Placed
  <2>2. Cmd(w) # "replace_owner" BY <1>1, <1>3, HandoverIsSilent
  <2> QED BY <1>1, <2>1, <2>2 DEF Edits, Command
<1>6. n = req[w].domain BY <1>1, <1>3, <1>5, EditIsLocal
<1>7. PICK s \in Soas(w) : Ahead(w, s) /\ \A y \in Soas(w) : s.id <= y.id
  BY <1>4, <1>5 DEF Marked, Bumped
<1>8. ZoneSoas(d, n)' = Soas(w) BY <1>3, <1>6 DEF ZoneSoas, Soas
<1>9. s \in FirstSoa(d, n)' BY <1>7, <1>8 DEF FirstSoa
<1>10. \A r \in FirstSoa(d, n) : r.id = s.id => s.content[1] > r.content[1]
  BY <1>3, <1>7 DEF Ahead, FirstSoa, ZoneSoas
<1> QED BY <1>9, <1>10

\* ormUpdateSOA (orm.go:475-511): as long as requests are handled one after
\* another, every change of a zone's answers comes with a higher serial, in
\* databases that start in order.
THEOREM SerialsWithoutOverlap ==
  ASSUME MaxInFlight = 1,
         \A s \in InitialStore : \A d \in Orm : Single(s.rows[d]) /\ Numbered(s.rows[d])
  PROVE  Spec => SerialBumped
<1>1. Init => SInv
  <2> SUFFICES ASSUME Init PROVE SInv OBVIOUS
  <2>1. \A d \in Orm : Numbered(rows[d]) BY DEF Init
  <2>2. \A w \in Handler : ~Running(w) BY DEF Init, Running
  <2>3. \A w \in Handler : NumberedItems(w)
    BY RequestHasNumber DEF NumberedItems, Init, Cmd
  <2> QED BY <2>1, <2>2, <2>3 DEF SInv
<1>2. IInv /\ OInv /\ SInv /\ [Next]_vars => SInv' BY MarkStep
<1>3. Spec => [](IInv /\ OInv) BY OrderInvariance
<1>4. IInv /\ OInv /\ SInv /\ [Next]_vars =>
        [\A d \in Orm, n \in DomainName :
           Answers(d, n)' # Answers(d, n) =>
             \E s \in FirstSoa(d, n)' : \A r \in FirstSoa(d, n) :
               r.id = s.id => s.content[1] > r.content[1]]_vars
  <2> SUFFICES ASSUME IInv, OInv, SInv, [Next]_vars, NEW d \in Orm, NEW n \in DomainName,
                      Answers(d, n)' # Answers(d, n)
               PROVE  \E s \in FirstSoa(d, n)' : \A r \in FirstSoa(d, n) :
                        r.id = s.id => s.content[1] > r.content[1]
    OBVIOUS
  <2>1. rows' # rows BY DEF Answers
  <2>2. PICK w \in Handler : pc[w] = "commit" /\ Apply(w) BY <2>1, RowsChangeByCommit
  <2>3. Marked(w) BY <2>2 DEF SInv, Running
  <2> QED BY <2>2, <2>3, CommitBumps
<1> QED BY <1>1, <1>2, <1>3, <1>4, PTL DEF Spec, SerialBumped

-----------------------------------------------------------------------------
(***************************************************************************)
(* The databases of one view answer alike when no request is being         *)
(* handled.  What a handler does to the first database of a view it does   *)
(* to the others: a trace of the shapes that the records of the request    *)
(* leave, one after another, is found in the first and followed in the     *)
(* others.                                                                 *)
(***************************************************************************)

\* Handler u executes a statement of its transaction.
Work(u) ==
  \/ FindDomain(u) \/ BeginRecords(u) \/ DeletedAll(u) \/ EndOwner(u)
  \/ EndOfRecords(u) \/ InsertDomain(u) \/ DeleteNextItem(u)
  \/ SelectOwned(u) \/ StartDelete(u) \/ DeleteRow(u) \/ UpdateOwner(u)
  \/ CreateRecord(u) \/ ReplaceInsert(u) \/ ReadSoa(u) \/ SaveSoa(u)
  \/ SoaVanished(u) \/ InsertSoa(u) \/ InsertNothing(u)

\* What replicas have in common: all of a row but its id and an SOA's serial.
Figure(x) == [x EXCEPT !.id = 0, !.content = IF x.type = "SOA" THEN <<>> ELSE x.content]
Shape(S) == {Figure(x) : x \in S}

Fellows(d, e) == DbView[d] = DbView[e]
AllAlike ==
  \A d, e \in Orm : Fellows(d, e) => zones[d] = zones[e] /\ Shape(rows[d]) = Shape(rows[e])

\* What record i of a request does to a database of shape A, and if it can.
Named(w, i, s) ==
  /\ s.domain = req[w].domain /\ s.type = recs[w][i].type
  /\ s.name = FullName(recs[w][i].name) /\ s.owner = req[w].token
ByItems(w, i) == Cmd(w) = "delete_record" /\ recs[w][i].data # <<>>
Hit(w, i, j, s) ==
  /\ Named(w, i, s)
  /\ ByItems(w, i) =>
       /\ recs[w][i].data[j] # <<>> => s.content = recs[w][i].data[j]
       /\ recs[w][i].ttl # 0 => s.ttl = recs[w][i].ttl
Past(w, i, k, A) == {s \in A : \A j \in 1 .. k : ~Hit(w, i, j, s)}
Turns(w, i) == IF ByItems(w, i) THEN Len(recs[w][i].data) ELSE 1

Given(w, i, k) ==
  [id |-> 0, domain |-> req[w].domain, name |-> FullName(recs[w][i].name),
   type |-> recs[w][i].type,
   content |-> IF recs[w][i].type = "SOA" THEN <<>>
               ELSE Content(recs[w][i].type, recs[w][i].data[k]),
   ttl |-> recs[w][i].ttl, prio |-> Prio(recs[w][i].type, recs[w][i].data[k]),
   owner |-> req[w].token]
AllGiven(w, i) == {Given(w, i, k) : k \in DOMAIN recs[w][i].data}
Blocks(w, i, s) ==
  /\ s.domain = req[w].domain /\ s.name = FullName(recs[w][i].name)
  /\ \/ Upper(s.type) = "CNAME" \/ recs[w][i].type = "CNAME"
     \/ Upper(s.type) = recs[w][i].type /\ recs[w][i].type \in {"PTR", "SOA"}
Handed(w, S) == {[s EXCEPT !.owner = req[w].newToken] : s \in S}

Able(w, i, A) ==
  /\ Cmd(w) \in {"create_record", "replace_record"} => recs[w][i].data # <<>>
  /\ Cmd(w) = "create_record" => \A s \in A : ~Blocks(w, i, s)
  /\ Cmd(w) \in {"replace_record", "replace_owner"} => \E s \in A : Named(w, i, s)
Effect(w, i, A) ==
  IF Cmd(w) = "create_record" THEN A \cup AllGiven(w, i)
  ELSE IF Cmd(w) = "delete_record" THEN Past(w, i, Turns(w, i), A)
  ELSE IF Cmd(w) = "replace_record" THEN Past(w, i, 1, A) \cup AllGiven(w, i)
  ELSE {s \in A : ~Named(w, i, s)} \cup Handed(w, {s \in A : Named(w, i, s)})
Takes(w, i, A, B) == Able(w, i, A) /\ B = Effect(w, i, A)

\* Whether the records have changed the zone, and then whether it has an SOA.
Worked(w, h) ==
  IF Cmd(w) = "delete_record" THEN h[0] # h[Len(recs[w])] ELSE recs[w] # <<>>
Settled(w, h) ==
  Edits(w) /\ Worked(w, h) =>
    \E s \in h[Len(recs[w])] : s.domain = req[w].domain /\ s.type = "SOA"

\* Where w is in a record that finds the shape A, in a database of shape Z.
Counts(w, A, Z) ==
  /\ Cmd(w) = "delete_record" =>
       /\ A \subseteq Z
       /\ pc[w] \in {"begin", "records"} =>
            (loc[w].n # 0 \/ loc[w].aff # 0 <=> Shape(ViewOf(w)) # Z)
       /\ pc[w] = "delete" =>
            (loc[w].n # 0 \/ loc[w].aff # 0 \/ loc[w].cand # {} <=>
               Shape(ViewOf(w) \ loc[w].cand) # Z)
       /\ pc[w] \in {"begin", "records"} /\ loc[w].ri \notin DOMAIN recs[w] => loc[w].aff = 0
       /\ pc[w] = "soa" => A # Z
  /\ Cmd(w) \in {"create_record", "replace_record"} =>
       /\ pc[w] = "delete" => recs[w][loc[w].ri].data # <<>>
       /\ pc[w] \in {"begin", "records", "delete"} => (loc[w].n # 0 <=> loc[w].ri # 1)
       /\ pc[w] = "soa" => loc[w].ri # 1
       /\ pc[w] = "delete" =>
            (loc[w].aff # 0 \/ loc[w].cand # {} <=> \E s \in A : Named(w, loc[w].ri, s))
During(w, A) ==
  /\ loc[w].ri \notin DOMAIN recs[w] \/ Cmd(w) # "delete_record" => loc[w].di = 1
  /\ pc[w] \in {"begin", "records"} => Shape(ViewOf(w)) = Past(w, loc[w].ri, loc[w].di - 1, A)
  /\ pc[w] = "delete" =>
       Shape(ViewOf(w) \ loc[w].cand) = Past(w, loc[w].ri, loc[w].di, A)
  /\ pc[w] = "owner" =>
       /\ loc[w].ri \in DOMAIN recs[w] /\ Able(w, loc[w].ri, A)
       /\ Shape((ViewOf(w) \ loc[w].cand) \cup Handed(w, loc[w].cand)) =
            Effect(w, loc[w].ri, A)
  /\ pc[w] \in {"soa", "save", "commit"} =>
       loc[w].ri \notin DOMAIN recs[w] /\ Shape(ViewOf(w)) = A

Later(w) == \E e \in Orm : e < loc[w].db /\ Fellows(e, loc[w].db)

Trace(w, h) ==
  /\ loc[w].ri \in 1 .. Len(recs[w]) + 1
  /\ h[0] = Shape(rows[loc[w].db])
  /\ \A i \in DOMAIN recs[w] : i < loc[w].ri \/ Later(w) => Takes(w, i, h[i-1], h[i])
  /\ Later(w) \/ pc[w] \in {"save", "commit"} => Settled(w, h)
  /\ \A e \in Orm : e < loc[w].db /\ Fellows(e, loc[w].db) =>
       Shape(rows[e]) = h[Len(recs[w])]
  /\ \E A \in {h[loc[w].ri - 1]} : During(w, A) /\ Counts(w, A, h[0])
SameSide(w, d, e) == Fellows(d, loc[w].db) => (d < loc[w].db <=> e < loc[w].db)

\* No delete strips its items, or compares a serial.
Plain(w) ==
  \A i \in DOMAIN recs[w] :
    ByItems(w, i) => recs[w][i].type \notin {"MX", "SRV", "SOA"}

\* The zones, or the rows, of the databases of a view that are done with are
\* alike, and so are those of the ones that are not.
RowsWork(w) ==
  /\ Plain(w)
  /\ \A d, e \in Orm : Fellows(d, e) => zones[d] = zones[e]
  /\ \A d, e \in Orm : Fellows(d, e) /\ SameSide(w, d, e) => Shape(rows[d]) = Shape(rows[e])
  /\ pc[w] # "begin" \/ Later(w) => MayBegin(w)
  /\ \E h \in [Nat -> SUBSET Row] : Trace(w, h)

ZoneWork(w) ==
  /\ \A d, e \in Orm : Fellows(d, e) => Shape(rows[d]) = Shape(rows[e])
  /\ \A d, e \in Orm : Fellows(d, e) /\ SameSide(w, d, e) => zones[d] = zones[e]
  /\ \A e \in Orm : e < loc[w].db /\ Fellows(e, loc[w].db) =>
       /\ zones[e] = [zones[loc[w].db] EXCEPT ![req[w].domain] = "NATIVE"]
       /\ zones[loc[w].db][req[w].domain] # "MASTER"
  /\ pc[w] = "zone" => zones[loc[w].db][req[w].domain] # "NATIVE"
  /\ pc[w] = "commit" =>
       zones[loc[w].db][req[w].domain] = "NATIVE" \/ tx[w].made = {req[w].domain}

Synced(w) == IF Cmd(w) = "create_domain" THEN ZoneWork(w) ELSE RowsWork(w)

RInv ==
  /\ (\A w \in Handler : ~Running(w)) => AllAlike
  /\ \A w \in Handler : Running(w) => Matches(w, loc[w].db) /\ Synced(w)

-----------------------------------------------------------------------------
(* Shapes.                                                                 *)

LEMMA FigureMeans ==
  ASSUME NEW x \in Row
  PROVE  /\ Figure(x) \in Row /\ Figure(x).id = 0
         /\ Figure(x).domain = x.domain /\ Figure(x).name = x.name
         /\ Figure(x).type = x.type /\ Figure(x).ttl = x.ttl
         /\ Figure(x).prio = x.prio /\ Figure(x).owner = x.owner
         /\ x.type # "SOA" => Figure(x).content = x.content
         /\ x.type = "SOA" => Figure(x).content = <<>>
<1>1. <<>> \in Seq(Field) OBVIOUS
<1>2. 0 \in Nat OBVIOUS
<1> DEFINE c == IF x.type = "SOA" THEN <<>> ELSE x.content
<1>3. c \in Seq(Field) BY <1>1 DEF Row
<1>4. (x.type # "SOA" => c = x.content) /\ (x.type = "SOA" => c = <<>>) OBVIOUS
<1>5. Figure(x) = [x EXCEPT !.id = 0, !.content = c] BY DEF Figure
<1> HIDE DEF c
<1> QED BY <1>2, <1>3, <1>4, <1>5 DEF Row

\* Copies of a row with one owner show alike.
LEMMA SameFigure ==
  ASSUME NEW x \in Row, NEW y \in Row, SameRow(x, y), x.owner = y.owner
  PROVE  Figure(x) = Figure(y)
<1>1. \A a \in Row :
        a = [id |-> a.id, domain |-> a.domain, name |-> a.name, type |-> a.type,
             content |-> a.content, ttl |-> a.ttl, prio |-> a.prio, owner |-> a.owner]
  BY DEF Row
<1> DEFINE a == Figure(x)
           b == Figure(y)
<1>2. /\ a \in Row /\ b \in Row /\ a.id = b.id /\ a.content = b.content
      /\ a.domain = b.domain /\ a.name = b.name /\ a.type = b.type
      /\ a.ttl = b.ttl /\ a.prio = b.prio /\ a.owner = b.owner
  BY FigureMeans DEF SameRow
<1> HIDE DEF a, b
<1>3. a = b BY <1>1, <1>2
<1> QED BY <1>3 DEF a, b

LEMMA ShapeUnion == ASSUME NEW S, NEW T PROVE Shape(S \cup T) = Shape(S) \cup Shape(T)
BY DEF Shape

LEMMA ShapeTyped == ASSUME NEW S \in SUBSET Row PROVE Shape(S) \in SUBSET Row
BY FigureMeans DEF Shape

\* A handover does not see the difference.
LEMMA HandedFigure ==
  ASSUME NEW w, NEW x \in Row
  PROVE  Figure([x EXCEPT !.owner = req[w].newToken]) =
           [Figure(x) EXCEPT !.owner = req[w].newToken]
BY DEF Figure, Row

LEMMA HandedShape ==
  ASSUME NEW w, NEW S \in SUBSET Row PROVE Shape(Handed(w, S)) = Handed(w, Shape(S))
<1> DEFINE handed(s) == [s EXCEPT !.owner = req[w].newToken]
<1>1. \A x \in S : Figure(handed(x)) = handed(Figure(x)) BY HandedFigure
<1> HIDE DEF handed
<1>2. {Figure(y) : y \in {handed(x) : x \in S}} = {handed(s) : s \in {Figure(x) : x \in S}}
  BY <1>1
<1> QED BY <1>2 DEF Shape, Handed, handed

-----------------------------------------------------------------------------
(* A record and the shape it finds.                                        *)

\* What a record does depends on the request alone.
LEMMA Static ==
  ASSUME NEW w, req'[w] = req[w], recs'[w] = recs[w]
  PROVE  /\ \A i, A, B : Takes(w, i, A, B)' <=> Takes(w, i, A, B)
         /\ \A i, A : Able(w, i, A)' <=> Able(w, i, A)
         /\ \A i, A : Effect(w, i, A)' = Effect(w, i, A)
         /\ \A h : Settled(w, h)' <=> Settled(w, h)
         /\ \A i, k, A : Past(w, i, k, A)' = Past(w, i, k, A)
         /\ \A i, s : Named(w, i, s)' <=> Named(w, i, s)
         /\ \A S : Handed(w, S)' = Handed(w, S)
         /\ Cmd(w)' = Cmd(w) /\ Edits(w)' = Edits(w)
<1>1. Cmd(w)' = Cmd(w) BY DEF Cmd
<1>2. Edits(w)' = Edits(w) BY <1>1 DEF Edits
<1>3. \A i, s : Named(w, i, s)' <=> Named(w, i, s) BY DEF Named
<1>4. \A i : ByItems(w, i)' = ByItems(w, i) BY <1>1 DEF ByItems
<1>5. \A i, j, s : Hit(w, i, j, s)' <=> Hit(w, i, j, s) BY <1>3, <1>4 DEF Hit
<1>6. \A i, k, A : Past(w, i, k, A)' = Past(w, i, k, A) BY <1>5 DEF Past
<1>7. \A i : Turns(w, i)' = Turns(w, i) BY <1>4 DEF Turns
<1>8. \A i : AllGiven(w, i)' = AllGiven(w, i) BY DEF AllGiven, Given
<1>9. \A i, s : Blocks(w, i, s)' <=> Blocks(w, i, s) BY DEF Blocks
<1>10. \A S : Handed(w, S)' = Handed(w, S) BY DEF Handed
<1>11. \A i, A : Able(w, i, A)' <=> Able(w, i, A) BY <1>1, <1>3, <1>9 DEF Able
<1>12. \A i, A : Effect(w, i, A)' = Effect(w, i, A)
  BY <1>1, <1>3, <1>6, <1>7, <1>8, <1>10 DEF Effect
<1>13. \A i, A, B : Takes(w, i, A, B)' <=> Takes(w, i, A, B) BY <1>11, <1>12 DEF Takes
<1>14. \A h : Settled(w, h)' <=> Settled(w, h) BY <1>1, <1>2 DEF Settled, Worked
<1> QED BY <1>1, <1>2, <1>3, <1>6, <1>10, <1>11, <1>12, <1>13, <1>14

LEMMA PastNone == ASSUME NEW w, NEW i, NEW A PROVE Past(w, i, 0, A) = A
BY DEF Past

LEMMA PastStep ==
  ASSUME NEW w, NEW i, NEW k \in Nat, NEW A
  PROVE  Past(w, i, k + 1, A) = {s \in Past(w, i, k, A) : ~Hit(w, i, k + 1, s)}
<1>1. \A j : j \in 1 .. (k + 1) <=> j \in 1 .. k \/ j = k + 1 OBVIOUS
<1> QED BY <1>1 DEF Past

LEMMA PastTyped == ASSUME NEW w, NEW i, NEW k, NEW A PROVE Past(w, i, k, A) \subseteq A
BY DEF Past

\* Without items, every turn hits the rows of the record's name.
LEMMA HitNamed ==
  ASSUME NEW w, NEW i, ~ByItems(w, i) PROVE \A j, s : Hit(w, i, j, s) <=> Named(w, i, s)
BY DEF Hit

LEMMA PastNamed ==
  ASSUME NEW w, NEW i, NEW A, ~ByItems(w, i)
  PROVE  Past(w, i, 1, A) = {s \in A : ~Named(w, i, s)}
<1>1. \A j : j \in 1 .. 1 <=> j = 1 OBVIOUS
<1> QED BY <1>1, HitNamed DEF Past

\* The statements judge a row by what its figure shows.
LEMMA OwnedNamed ==
  ASSUME NEW w, NEW x \in Row PROVE Owned(w, x) <=> Named(w, loc[w].ri, Figure(x))
BY FigureMeans DEF Owned, Named, Rec

LEMMA ConflictBlocks ==
  ASSUME TypeOK, NEW w \in Handler, loc[w].db \in Orm
  PROVE  Conflict(w) <=> \E s \in Shape(ViewOf(w)) : Blocks(w, loc[w].ri, s)
<1>1. ViewOf(w) \subseteq Row BY ViewTyped
<1> QED BY <1>1, FigureMeans DEF Conflict, Blocks, Shape, Rec

LEMMA MatchedHit ==
  ASSUME TypeOK, NEW w \in Handler, Plain(w), loc[w].ri \in DOMAIN recs[w], NEW x \in Row
  PROVE  Matched(w, x) <=> Hit(w, loc[w].ri, loc[w].di, Figure(x))
<1>1. ByItem(w) = ByItems(w, loc[w].ri) BY DEF ByItem, ByItems, Rec
<1>2. Owned(w, x) <=> Named(w, loc[w].ri, Figure(x)) BY OwnedNamed
<1>3. CASE ~ByItem(w) BY <1>1, <1>2, <1>3 DEF Matched, Hit
<1>4. CASE ByItem(w)
  <2>1. Rec(w).type \notin {"MX", "SRV", "SOA"} BY <1>1, <1>4 DEF Plain, Rec
  <2>2. \A d : Content(Rec(w).type, d) = d /\ Prio(Rec(w).type, d) = 0
    BY <2>1 DEF Content, Prio, HasPrio
  <2>3. Owned(w, x) => x.type # "SOA" BY <2>1 DEF Owned
  <2> DEFINE d == Rec(w).data[loc[w].di]
  <2>4. OwnedItem(w, x) <=> /\ Owned(w, x)
                            /\ d # <<>> => x.content = d
                            /\ Rec(w).ttl # 0 => x.ttl = Rec(w).ttl
    BY <2>2 DEF OwnedItem
  <2> QED BY <1>1, <1>2, <1>4, <2>3, <2>4, FigureMeans DEF Matched, Hit, Rec
<1> QED BY <1>3, <1>4

\* What a record brings looks the same in every database.
LEMMA NewShape ==
  ASSUME TypeOK, NEW w \in Handler, loc[w].db \in Orm, loc[w].ri \in DOMAIN recs[w]
  PROVE  Shape(NewRows(w)) = AllGiven(w, loc[w].ri)
<1>1. Rec(w) \in Record BY RecTyped
<1> DEFINE i == loc[w].ri
<1>2. ASSUME NEW k \in DOMAIN Rec(w).data PROVE Figure(NewRow(w, k)) = Given(w, i, k)
  <2> DEFINE c == Content(Rec(w).type, Rec(w).data[k])
             p == Prio(Rec(w).type, Rec(w).data[k])
             shown == IF Rec(w).type = "SOA" THEN <<>> ELSE c
             n == nextId[loc[w].db] + k - 1
             x == [id |-> n, domain |-> req[w].domain, name |-> FullName(Rec(w).name),
                   type |-> Rec(w).type, content |-> c, ttl |-> Rec(w).ttl, prio |-> p,
                   owner |-> req[w].token]
  <2>1. NewRow(w, k) = x BY DEF NewRow
  <2>2. Given(w, i, k) = [id |-> 0, domain |-> req[w].domain, name |-> FullName(Rec(w).name),
                          type |-> Rec(w).type, content |-> shown, ttl |-> Rec(w).ttl,
                          prio |-> p, owner |-> req[w].token]
    BY DEF Given, Rec
  <2> HIDE DEF c, p, n
  <2>3. Figure(x) = [x EXCEPT !.id = 0, !.content = shown] BY DEF Figure
  <2> HIDE DEF shown
  <2> QED BY <2>1, <2>2, <2>3
<1>3. Shape(NewRows(w)) = {Figure(NewRow(w, k)) : k \in DOMAIN Rec(w).data}
  BY DEF Shape, NewRows
<1> QED BY <1>2, <1>3 DEF AllGiven, Rec

-----------------------------------------------------------------------------
(* Steps within a database.                                                *)

\* A statement of w: it stays in its database, and commits nothing.
Stays(w) ==
  /\ req' = req /\ recs'[w] = recs[w] /\ rows' = rows /\ zones' = zones
  /\ loc'[w].db = loc[w].db

\* A step within a record, or from the last record to the SOA and on.
LEMMA StillTraced ==
  ASSUME NEW w, NEW h, Trace(w, h), Stays(w), loc'[w].ri = loc[w].ri,
         NEW A, A = h[loc[w].ri - 1], During(w, A)', Counts(w, A, h[0])',
         pc'[w] \in {"save", "commit"} => pc[w] \in {"save", "commit"} \/ Settled(w, h)
  PROVE  Trace(w, h)'
<1>1. /\ req'[w] = req[w] /\ recs'[w] = recs[w] /\ rows' = rows
      /\ loc'[w].db = loc[w].db
  BY DEF Stays
<1>2. Later(w)' = Later(w) BY <1>1 DEF Later
<1>3. /\ \A i, S, T : Takes(w, i, S, T)' <=> Takes(w, i, S, T)
      /\ Settled(w, h)' <=> Settled(w, h)
  BY <1>1, Static
<1>4. Later(w)' \/ pc'[w] \in {"save", "commit"} => Settled(w, h)'
  BY <1>2, <1>3 DEF Trace
<1> QED BY <1>1, <1>2, <1>3, <1>4 DEF Trace

\* The end of a record, which leaves the shape B of the one it has found.
LEMMA NextTraced ==
  ASSUME NEW w, NEW h \in [Nat -> SUBSET Row], Trace(w, h), Stays(w),
         loc[w].ri \in DOMAIN recs[w], recs[w] \in Seq(Record), loc'[w].ri = loc[w].ri + 1,
         pc'[w] = "records",
         NEW B \in SUBSET Row, Takes(w, loc[w].ri, h[loc[w].ri - 1], B),
         During(w, B)', Counts(w, B, h[0])'
  PROVE  \E g \in [Nat -> SUBSET Row] : Trace(w, g)'
<1>1. /\ req'[w] = req[w] /\ recs'[w] = recs[w] /\ rows' = rows
      /\ loc'[w].db = loc[w].db
  BY DEF Stays
<1>2. Later(w)' = Later(w) BY <1>1 DEF Later
<1>3. /\ \A i, S, T : Takes(w, i, S, T)' <=> Takes(w, i, S, T)
      /\ \A f : Settled(w, f)' <=> Settled(w, f)
  BY <1>1, Static
<1>4. DOMAIN recs[w] = 1 .. Len(recs[w]) /\ Len(recs[w]) \in Nat OBVIOUS
<1> DEFINE k == loc[w].ri
<1>5. k \in Nat /\ 1 <= k /\ k + 1 \in 1 .. Len(recs[w]) + 1 /\ (k + 1) - 1 = k
  BY <1>4
<1>6. CASE Later(w)
  <2>1. h[k] = B BY <1>6 DEF Trace, Takes
  <2>2. \A i \in DOMAIN recs[w] : Takes(w, i, h[i-1], h[i]) BY <1>6 DEF Trace
  <2>3. Trace(w, h)' BY <1>1, <1>2, <1>3, <1>5, <1>6, <2>1, <2>2 DEF Trace
  <2> QED BY <2>3
<1>7. CASE ~Later(w)
  <2> DEFINE put == [h EXCEPT ![k] = B]
  <2>1. put \in [Nat -> SUBSET Row] OBVIOUS
  <2>5. put[k] = B /\ put[0] = h[0] /\ \A i \in Nat : i < k => put[i] = h[i] BY <1>5
  <2> HIDE DEF put
  <2>2. PICK g \in [Nat -> SUBSET Row] :
               g[k] = B /\ g[0] = h[0] /\ \A i \in Nat : i < k => g[i] = h[i]
    BY <2>1, <2>5
  <2>3. ASSUME NEW i \in DOMAIN recs[w], i < k + 1 PROVE Takes(w, i, g[i-1], g[i])
    <3>1. i \in Nat /\ i - 1 \in Nat /\ i - 1 < k BY <1>4, <1>5, <2>3
    <3>2. CASE i < k BY <2>2, <3>1, <3>2 DEF Trace
    <3>3. CASE i = k BY <2>2, <3>1, <3>3
    <3> QED BY <1>5, <2>3, <3>1, <3>2, <3>3
  <2>4. Trace(w, g)'
    <3>1. h[0] = Shape(rows[loc[w].db]) BY DEF Trace
    <3>2. \A i \in DOMAIN recs'[w] : i < loc'[w].ri => Takes(w, i, g[i-1], g[i])'
      BY <1>1, <1>3, <2>3
    <3>3. \A e \in Orm : ~(e < loc'[w].db /\ Fellows(e, loc'[w].db))
      BY <1>1, <1>7 DEF Later
    <3> QED BY <1>1, <1>2, <1>5, <1>7, <2>2, <3>1, <3>2, <3>3 DEF Trace
  <2> QED BY <2>4
<1> QED BY <1>6, <1>7

\* What a step within a database leaves of the other databases.
LEMMA RowsStay ==
  ASSUME NEW w, RowsWork(w), Stays(w),
         pc[w] = "begin" /\ pc'[w] # "begin" => MayBegin(w),
         \E h \in [Nat -> SUBSET Row] : Trace(w, h)'
  PROVE  RowsWork(w)'
<1>1. /\ req'[w] = req[w] /\ recs'[w] = recs[w] /\ rows' = rows /\ zones' = zones
      /\ loc'[w].db = loc[w].db
  BY DEF Stays
<1>2. Later(w)' = Later(w) /\ Cmd(w)' = Cmd(w) BY <1>1 DEF Later, Cmd
<1>3. MayBegin(w)' = MayBegin(w) BY <1>1, <1>2 DEF MayBegin
<1>4. Plain(w)' BY <1>1, <1>2 DEF RowsWork, Plain, ByItems
<1>5. \A d, e : SameSide(w, d, e)' = SameSide(w, d, e) BY <1>1 DEF SameSide
<1> QED BY <1>1, <1>2, <1>3, <1>4, <1>5 DEF RowsWork

\* The look-up of the domain changes nothing that a trace shows.
LEMMA BeginRecordsTraced ==
  ASSUME IInv, NEW w \in Handler, NEW h, Trace(w, h), BeginRecords(w)
  PROVE  Stays(w) /\ Trace(w, h)'
<1>1. /\ pc[w] = "begin" /\ pc'[w] = "records" /\ loc'[w] = loc[w]
      /\ UNCHANGED <<rows, zones, tx, req, recs>>
  BY GotoMeans DEF BeginRecords, OnlyLoc, database, IInv
<1>2. ViewOf(w)' = ViewOf(w) BY <1>1, SameView
<1>3. PICK A : A = h[loc[w].ri - 1] /\ During(w, A) /\ Counts(w, A, h[0]) BY DEF Trace
<1>4. Stays(w) BY <1>1 DEF Stays
<1>5. \A i, k, S : Past(w, i, k, S)' = Past(w, i, k, S) BY <1>1, Static
<1>6. Cmd(w)' = Cmd(w) BY <1>1 DEF Cmd
<1>7. Shape(ViewOf(w))' = Shape(ViewOf(w)) BY <1>2
<1>8. During(w, A)' BY <1>1, <1>3, <1>5, <1>6, <1>7 DEF During
<1>9. Counts(w, A, h[0])' BY <1>1, <1>3, <1>6, <1>7 DEF Counts
<1> QED BY <1>1, <1>3, <1>4, <1>8, <1>9, StillTraced

\* Where the records end, the count tells whether they have changed the zone.
LEMMA EndOfRecordsTraced ==
  ASSUME IInv, NEW w \in Handler, NEW h, Trace(w, h), EndOfRecords(w)
  PROVE  Stays(w) /\ Trace(w, h)'
<1>1. /\ pc[w] = "records" /\ loc[w].ri \notin DOMAIN recs[w] /\ loc'[w] = loc[w]
      /\ pc'[w] = IF loc[w].n > 0 /\ Cmd(w) # "replace_owner" THEN "soa" ELSE "commit"
      /\ UNCHANGED <<rows, zones, tx, req, recs>>
  BY GotoMeans DEF EndOfRecords, OnlyLoc, database, IInv
<1>2. ViewOf(w)' = ViewOf(w) BY <1>1, SameView
<1>3. PICK A : A = h[loc[w].ri - 1] /\ During(w, A) /\ Counts(w, A, h[0]) BY DEF Trace
<1>4. Stays(w) BY <1>1 DEF Stays
<1>5. Cmd(w)' = Cmd(w) BY <1>1 DEF Cmd
<1>6. Shape(ViewOf(w))' = Shape(ViewOf(w)) BY <1>2
<1>7. Shape(ViewOf(w)) = A /\ loc[w].di = 1 BY <1>1, <1>3, PastNone DEF During
<1>8. During(w, A)' BY <1>1, <1>5, <1>6, <1>7 DEF During
<1>9. loc[w].n \in Nat /\ recs[w] \in Seq(Record) BY LocFields DEF IInv, TypeOK
<1>10. Counts(w, A, h[0])' BY <1>1, <1>3, <1>5, <1>6, <1>7, <1>9 DEF Counts
<1>11. loc[w].ri = Len(recs[w]) + 1 /\ A = h[Len(recs[w])]
  <2>1. DOMAIN recs[w] = 1 .. Len(recs[w]) /\ Len(recs[w]) \in Nat BY <1>9
  <2>2. loc[w].ri \in 1 .. Len(recs[w]) + 1 BY DEF Trace
  <2>3. loc[w].ri = Len(recs[w]) + 1 BY <1>1, <2>1, <2>2
  <2> QED BY <1>3, <2>1, <2>3
<1>12. pc'[w] = "commit" => Settled(w, h)
  <2> SUFFICES ASSUME pc'[w] = "commit", Edits(w), Worked(w, h) PROVE FALSE
    BY DEF Settled
  <2>1. Cmd(w) # "replace_owner" /\ loc[w].n = 0 BY <1>1, <1>9 DEF Edits
  <2>2. CASE Cmd(w) = "delete_record"
    <3>1. loc[w].aff = 0 /\ A = h[0] BY <1>1, <1>3, <1>7, <2>1, <2>2 DEF Counts
    <3> QED BY <1>11, <2>2, <3>1 DEF Worked
  <2>3. CASE Cmd(w) # "delete_record"
    <3>1. loc[w].ri = 1 BY <1>1, <1>3, <2>1, <2>3 DEF Counts, Edits
    <3>2. Len(recs[w]) = 0 BY <1>9, <1>11, <3>1
    <3>3. recs[w] = <<>> BY <1>9, <3>2
    <3> QED BY <2>3, <3>3 DEF Worked
  <2> QED BY <2>2, <2>3
<1>13. pc'[w] # "save" BY <1>1
<1> QED BY <1>1, <1>3, <1>4, <1>8, <1>10, <1>12, <1>13, StillTraced

-----------------------------------------------------------------------------
(* create_record, and the INSERT of replace_record.                        *)

\* After an INSERT a handler sees the new rows too.
LEMMA InsertView ==
  ASSUME IInv, NEW w \in Handler, Running(w), Rec(w) \in Record, Insert(w), rows' = rows,
         loc'[w].db = loc[w].db
  PROVE  ViewOf(w)' = ViewOf(w) \cup NewRows(w)
<1>1. TypeOK /\ loc[w].db \in Orm BY DEF IInv, Control, Placed
<1>2. ASSUME NEW a \in NewRows(w), NEW x \in ViewOf(w) PROVE x.id # a.id
  <2>1. nextId[loc[w].db] <= a.id BY <1>1, NewRowsFresh
  <2>2. x.id < nextId[loc[w].db] BY ViewMeans
  <2>3. x.id \in Nat /\ a.id \in Nat /\ nextId[loc[w].db] \in Nat
    BY <1>1, ViewTyped, NewRowsTyped DEF Row, TypeOK
  <2> QED BY <2>1, <2>2, <2>3
<1> DEFINE gone == {}
<1>3. Write(w, gone, NewRows(w)) /\ gone \in SUBSET ViewOf(w) BY DEF Insert
<1>4. \A a \in NewRows(w) : \A x \in ViewOf(w) : x.id = a.id => x \in gone BY <1>2
<1> HIDE DEF gone
<1>5. ViewOf(w)' = (ViewOf(w) \ gone) \cup NewRows(w) BY <1>3, <1>4, WriteView
<1> QED BY <1>5 DEF gone

\* An INSERT that ends a record: what it has found, with the rows it gives.
LEMMA InsertTraced ==
  ASSUME IInv, NEW w \in Handler, Running(w), NEW h \in [Nat -> SUBSET Row], Trace(w, h),
         loc[w].ri \in DOMAIN recs[w], Cmd(w) \in {"create_record", "replace_record"},
         Insert(w), NEW n \in Nat, n # 0, NextRecord(w, n), OnlyNew,
         NEW B \in SUBSET Row, B = Shape(ViewOf(w)) \cup AllGiven(w, loc[w].ri),
         Takes(w, loc[w].ri, h[loc[w].ri - 1], B)
  PROVE  Stays(w) /\ \E g \in [Nat -> SUBSET Row] : Trace(w, g)'
<1>1. TypeOK /\ loc[w].db \in Orm /\ Rec(w) \in Record /\ recs[w] \in Seq(Record)
  BY RecTyped DEF IInv, Control, Placed, TypeOK
<1>2. /\ pc'[w] = "records" /\ loc'[w] = LocAt(loc[w].db, loc[w].ri + 1, loc[w].n + n)
      /\ UNCHANGED <<rows, zones, req, recs>>
  BY <1>1, GotoMeans DEF NextRecord, OnlyNew
<1>3. /\ loc'[w].db = loc[w].db /\ loc'[w].ri = loc[w].ri + 1 /\ loc'[w].di = 1
      /\ loc'[w].n = loc[w].n + n /\ loc'[w].aff = 0
  BY <1>2 DEF LocAt
<1>4. Stays(w) BY <1>2, <1>3 DEF Stays
<1>5. Shape(ViewOf(w)') = B
  <2>1. ViewOf(w)' = ViewOf(w) \cup NewRows(w) BY <1>1, <1>2, <1>3, InsertView
  <2>2. Shape(NewRows(w)) = AllGiven(w, loc[w].ri) BY <1>1, NewShape
  <2> QED BY <2>1, <2>2, ShapeUnion
<1>6. Cmd(w)' = Cmd(w) BY <1>2 DEF Cmd
<1>7. \A i : Past(w, i, 0, B)' = B
  <2>1. \A i, k : Past(w, i, k, B)' = Past(w, i, k, B) BY <1>2, Static
  <2> QED BY <2>1, PastNone
<1>8. Shape(ViewOf(w))' = Shape(ViewOf(w)') OBVIOUS
<1>9. loc'[w].di - 1 = 0 BY <1>3
<1>10. During(w, B)' BY <1>2, <1>3, <1>5, <1>7, <1>8, <1>9 DEF During
<1>11. Counts(w, B, h[0])'
  <2>1. loc[w].n \in Nat /\ loc[w].ri \in Nat /\ loc[w].ri # 0
    BY <1>1, LocFields DEF Trace
  <2>2. loc'[w].n # 0 /\ loc'[w].ri # 1 BY <1>3, <2>1
  <2> QED BY <1>2, <1>6, <2>2 DEF Counts
<1> QED BY <1>1, <1>2, <1>3, <1>4, <1>10, <1>11, NextTraced

\* What a record gives is made of rows.
LEMMA GivenTyped ==
  ASSUME TypeOK, NEW w \in Handler, loc[w].db \in Orm, loc[w].ri \in DOMAIN recs[w]
  PROVE  AllGiven(w, loc[w].ri) \in SUBSET Row
<1>1. NewRows(w) \subseteq Row BY RecTyped, NewRowsTyped
<1> QED BY <1>1, NewShape, ShapeTyped

LEMMA CreateRecordTraced ==
  ASSUME IInv, NEW w \in Handler, NEW h \in [Nat -> SUBSET Row], Trace(w, h), CreateRecord(w)
  PROVE  Stays(w) /\ \E g \in [Nat -> SUBSET Row] : Trace(w, g)'
<1> DEFINE i == loc[w].ri
           n == Len(Rec(w).data)
           B == Shape(ViewOf(w)) \cup AllGiven(w, i)
<1>1. /\ Running(w) /\ pc[w] = "records" /\ i \in DOMAIN recs[w]
      /\ Cmd(w) = "create_record" /\ Insert(w) /\ NextRecord(w, n) /\ OnlyNew
      /\ Rec(w).data # <<>> /\ ~Conflict(w)
  BY DEF CreateRecord, AtRecord, Running
<1>2. TypeOK /\ loc[w].db \in Orm /\ Rec(w) \in Record
  BY <1>1, RecTyped DEF IInv, Control, Placed
<1>3. n \in Nat /\ n # 0
  <2>1. Rec(w).data \in Seq(Seq(Field)) BY <1>2 DEF Record
  <2> QED BY <1>1, <2>1
<1>4. PICK A : A = h[i - 1] /\ During(w, A) /\ Counts(w, A, h[0]) BY DEF Trace
<1>5. Shape(ViewOf(w)) = A BY <1>1, <1>4, PastNone DEF During
<1>6. Takes(w, i, A, B)
  <2>1. Able(w, i, A) BY <1>1, <1>2, <1>5, ConflictBlocks DEF Able, Rec
  <2> QED BY <1>1, <1>5, <2>1 DEF Takes, Effect
<1>7. B \in SUBSET Row BY <1>1, <1>2, GivenTyped, ViewTyped, ShapeTyped
<1> HIDE DEF B, n
<1>8. PICK C \in SUBSET Row : C = B BY <1>7
<1> QED BY <1>1, <1>3, <1>4, <1>6, <1>8, InsertTraced DEF B

\* replace_record inserts once its DELETE has found a row of the name.
LEMMA ReplaceInsertTraced ==
  ASSUME IInv, NEW w \in Handler, NEW h \in [Nat -> SUBSET Row], Trace(w, h),
         ReplaceInsert(w)
  PROVE  Stays(w) /\ \E g \in [Nat -> SUBSET Row] : Trace(w, g)'
<1> DEFINE i == loc[w].ri
           n == loc[w].aff + Len(Rec(w).data)
           B == Shape(ViewOf(w)) \cup AllGiven(w, i)
<1>1. /\ Running(w) /\ pc[w] = "delete" /\ i \in DOMAIN recs[w]
      /\ Cmd(w) = "replace_record" /\ Insert(w) /\ NextRecord(w, n) /\ OnlyNew
      /\ loc[w].aff # 0 /\ loc[w].cand = {}
  BY DEF ReplaceInsert, Running, IInv, Control, Placed
<1>2. TypeOK /\ loc[w].db \in Orm /\ Rec(w) \in Record
  BY <1>1, RecTyped DEF IInv, Control, Placed
<1>3. n \in Nat /\ n # 0
  <2>1. Rec(w).data \in Seq(Seq(Field)) BY <1>2 DEF Record
  <2>2. loc[w].aff \in Nat /\ Len(Rec(w).data) \in Nat BY <1>2, <2>1, LocFields
  <2> QED BY <1>1, <2>2
<1>4. PICK A : A = h[i - 1] /\ During(w, A) /\ Counts(w, A, h[0]) BY DEF Trace
<1>5. Shape(ViewOf(w)) = Past(w, i, 1, A)
  <2>1. ViewOf(w) \ loc[w].cand = ViewOf(w) BY <1>1
  <2>2. loc[w].di = 1 BY <1>1, <1>4 DEF During
  <2> QED BY <1>1, <1>4, <2>1, <2>2 DEF During
<1>6. Takes(w, i, A, B)
  <2>1. Able(w, i, A) BY <1>1, <1>4 DEF Able, Counts
  <2> QED BY <1>1, <1>5, <2>1 DEF Takes, Effect
<1>7. B \in SUBSET Row BY <1>1, <1>2, GivenTyped, ViewTyped, ShapeTyped
<1> HIDE DEF B, n
<1>8. PICK C \in SUBSET Row : C = B BY <1>7
<1> QED BY <1>1, <1>3, <1>4, <1>6, <1>8, InsertTraced DEF B

-----------------------------------------------------------------------------
(* The DELETE statements.                                                  *)

\* The items are counted from one.
LEMMA ItemIsPositive ==
  ASSUME IInv, NEW w \in Handler, pc[w] \in {"begin", "records", "delete"},
         loc[w].ri \in DOMAIN recs[w]
  PROVE  /\ loc[w].di \in Nat /\ loc[w].di # 0
         /\ Rec(w).data # <<>> => loc[w].di \in DOMAIN Rec(w).data
         /\ Rec(w).data = <<>> => loc[w].di = 1
<1>1. loc[w].di = 1 \/ loc[w].di \in DOMAIN Rec(w).data BY DEF IInv, Control, Placed
<1>2. Rec(w).data \in Seq(Seq(Field)) BY RecTyped DEF IInv, Record
<1> QED BY <1>1, <1>2

\* A DELETE takes what one turn of the record hits.
LEMMA StartDeleteTraced ==
  ASSUME IInv, NEW w \in Handler, Tidy(w), Plain(w), NEW h \in [Nat -> SUBSET Row],
         Trace(w, h), StartDelete(w)
  PROVE  Stays(w) /\ Trace(w, h)'
<1> DEFINE i == loc[w].ri
           k == loc[w].di
           cand == {x \in ViewOf(w) : Matched(w, x)}
           l == [loc[w] EXCEPT !.cand = cand]
<1>1. /\ l.cand = cand /\ l.db = loc[w].db /\ l.ri = i /\ l.di = k
      /\ l.aff = loc[w].aff /\ l.n = loc[w].n
  BY LocFields DEF IInv, Loc
<1>2. Goto(w, "delete", l) BY DEF StartDelete
<1> HIDE DEF l
<1>3. /\ pc[w] = "records" /\ pc'[w] = "delete" /\ loc'[w] = l /\ i \in DOMAIN recs[w]
      /\ Cmd(w) \in {"delete_record", "replace_record"}
      /\ Cmd(w) = "replace_record" => recs[w][i].data # <<>>
      /\ UNCHANGED <<rows, zones, tx, req, recs>>
  BY <1>2, GotoMeans DEF StartDelete, Deletes, AtRecord, OnlyLoc, database, IInv, Rec
<1>4. ViewOf(w)' = ViewOf(w) BY <1>1, <1>3, SameView
<1>5. Stays(w) BY <1>1, <1>3 DEF Stays
<1>6. TypeOK /\ ViewOf(w) \subseteq Row
  BY <1>3, ViewTyped DEF IInv, Control, Placed, Running
<1>7. PICK A : A = h[i - 1] /\ During(w, A) /\ Counts(w, A, h[0]) BY DEF Trace
<1>8. i \in Nat /\ k \in Nat /\ k # 0
  BY <1>3, <1>6, LocFields, ItemIsPositive
<1>9. \A x \in ViewOf(w) : x \in cand <=> Hit(w, i, k, Figure(x))
  BY <1>3, <1>6, MatchedHit
<1>10. Shape(ViewOf(w)) = Past(w, i, k - 1, A) BY <1>3, <1>7 DEF During
<1>11. Shape(ViewOf(w) \ cand) = Past(w, i, k, A)
  <2>1. Past(w, i, k, A) = {s \in Past(w, i, k - 1, A) : ~Hit(w, i, k, s)}
    <3>1. k - 1 \in Nat /\ (k - 1) + 1 = k BY <1>8
    <3> QED BY <3>1, PastStep
  <2> HIDE DEF cand
  <2> QED BY <1>9, <1>10, <2>1 DEF Shape
<1>12. cand \subseteq ViewOf(w) /\ ViewOf(w)' \ loc'[w].cand = ViewOf(w) \ cand
  BY <1>1, <1>3, <1>4
<1>13. /\ \A j, m, S : Past(w, j, m, S)' = Past(w, j, m, S)
       /\ \A j, s : Named(w, j, s)' <=> Named(w, j, s)
       /\ Cmd(w)' = Cmd(w)
  BY <1>3, Static
<1>14. /\ loc'[w].ri = i /\ loc'[w].di = k /\ loc'[w].n = loc[w].n
       /\ loc'[w].aff = loc[w].aff /\ loc'[w].cand = cand
  BY <1>1, <1>3
<1>15. Shape(ViewOf(w) \ loc[w].cand)' = Shape(ViewOf(w) \ cand) BY <1>12
<1> HIDE DEF cand
<1>16. During(w, A)' BY <1>3, <1>7, <1>11, <1>13, <1>14, <1>15 DEF During
<1>17. Counts(w, A, h[0])'
  <2>1. ASSUME Cmd(w) = "delete_record"
        PROVE  loc[w].n # 0 \/ loc[w].aff # 0 \/ cand # {} <=> Shape(ViewOf(w) \ cand) # h[0]
    <3>1. /\ A \subseteq h[0]
          /\ loc[w].n # 0 \/ loc[w].aff # 0 <=> Shape(ViewOf(w)) # h[0]
      BY <1>3, <1>7, <2>1 DEF Counts
    <3>2. CASE cand = {}
      <4>1. ViewOf(w) \ cand = ViewOf(w) BY <3>2
      <4> QED BY <3>1, <3>2, <4>1
    <3>3. CASE cand # {}
      <4>1. PICK x \in cand : TRUE BY <3>3
      <4>2. Figure(x) \in Shape(ViewOf(w)) BY <1>12, <4>1 DEF Shape
      <4>3. Hit(w, i, k, Figure(x)) BY <1>9, <1>12, <4>1
      <4>4. k \in 1 .. k BY <1>8
      <4>5. Figure(x) \notin Shape(ViewOf(w) \ cand) BY <1>11, <4>3, <4>4 DEF Past
      <4>6. Figure(x) \in h[0] BY <1>10, <3>1, <4>2, PastTyped
      <4> QED BY <3>3, <4>5, <4>6
    <3> QED BY <3>2, <3>3
  <2>2. ASSUME Cmd(w) = "replace_record"
        PROVE  loc[w].aff # 0 \/ cand # {} <=> \E s \in A : Named(w, i, s)
    <3>1. loc[w].aff = 0 /\ k = 1 BY <1>3, <1>7, <2>2 DEF Tidy, During
    <3>2. Shape(ViewOf(w)) = A BY <1>10, <3>1, PastNone
    <3>3. \A s : Hit(w, i, k, s) <=> Named(w, i, s) BY <2>2, HitNamed DEF ByItems
    <3> QED BY <1>9, <1>12, <3>1, <3>2, <3>3 DEF Shape
  <2> QED BY <1>3, <1>7, <1>13, <1>14, <1>15, <2>1, <2>2 DEF Counts
<1> QED BY <1>3, <1>5, <1>7, <1>14, <1>16, <1>17, StillTraced

\* A row of it goes; it has been counted off already.
LEMMA DeleteRowTraced ==
  ASSUME IInv, NEW w \in Handler, Tidy(w), NEW h, Trace(w, h), DeleteRow(w)
  PROVE  Stays(w) /\ Trace(w, h)'
<1> DEFINE now(r) == {x \in ViewOf(w) : x.id = r.id /\ Matched(w, x)}
           more(r) == IF now(r) = {} THEN 0 ELSE 1
           l(r) == [loc[w] EXCEPT !.cand = @ \ {r}, !.aff = @ + more(r)]
<1>1. PICK r \in loc[w].cand : Write(w, now(r), {}) /\ Goto(w, "delete", l(r))
  BY DEF DeleteRow
<1>2. /\ Running(w) /\ pc[w] = "delete" /\ UNCHANGED <<rows, zones, req, recs>>
  BY DEF DeleteRow, Running, OnlyTx, database
<1>3. r \in ViewOf(w) /\ Matched(w, r) BY <1>2 DEF Tidy
<1>4. now(r) = {r} BY <1>2, <1>3, ViewUnique
<1>5. more(r) = 1 BY <1>4
<1> HIDE DEF now, more
<1>6. loc[w].aff \in Nat BY LocFields DEF IInv
<1>7. /\ l(r).cand = loc[w].cand \ {r} /\ l(r).aff # 0 /\ l(r).n = loc[w].n
      /\ l(r).db = loc[w].db /\ l(r).ri = loc[w].ri /\ l(r).di = loc[w].di
  BY <1>5, <1>6, LocFields DEF IInv, Loc
<1> HIDE DEF l
<1>8. pc'[w] = "delete" /\ loc'[w] = l(r) BY <1>1, GotoMeans DEF IInv
<1>9. ViewOf(w)' = ViewOf(w) \ {r}
  <2>1. Write(w, {r}, {}) BY <1>1, <1>4
  <2>2. {r} \in SUBSET ViewOf(w) /\ rows' = rows /\ loc'[w].db = loc[w].db
    BY <1>2, <1>3, <1>7, <1>8
  <2>3. ViewOf(w)' = (ViewOf(w) \ {r}) \cup {} BY <1>2, <2>1, <2>2, WriteView
  <2> QED BY <2>3
<1>10. Shape(ViewOf(w) \ loc[w].cand)' = Shape(ViewOf(w) \ loc[w].cand)
  <2>1. (ViewOf(w) \ loc[w].cand)' = ViewOf(w) \ loc[w].cand BY <1>7, <1>8, <1>9
  <2> QED BY <2>1
<1>11. Stays(w) BY <1>2, <1>7, <1>8 DEF Stays
<1>12. PICK A : A = h[loc[w].ri - 1] /\ During(w, A) /\ Counts(w, A, h[0]) BY DEF Trace
<1>13. /\ \A j, m, S : Past(w, j, m, S)' = Past(w, j, m, S)
       /\ \A j, s : Named(w, j, s)' <=> Named(w, j, s)
       /\ Cmd(w)' = Cmd(w)
  BY <1>2, Static
<1>14. /\ loc'[w].ri = loc[w].ri /\ loc'[w].di = loc[w].di /\ loc'[w].n = loc[w].n
       /\ loc'[w].aff # 0
  BY <1>7, <1>8
<1>15. During(w, A)' BY <1>2, <1>8, <1>10, <1>12, <1>13, <1>14 DEF During
<1>16. loc[w].cand # {} BY <1>1
<1>17. Counts(w, A, h[0])'
  BY <1>2, <1>8, <1>10, <1>12, <1>13, <1>14, <1>16 DEF Counts
<1> QED BY <1>8, <1>11, <1>12, <1>14, <1>15, <1>17, StillTraced

\* No item that is deleted by its data is stripped.
LEMMA NothingStripped ==
  ASSUME IInv, NEW w \in Handler, Plain(w), ByItem(w), pc[w] = "delete", StripItem(w)
  PROVE  recs' = recs
<1> DEFINE i == loc[w].ri
           k == loc[w].di
<1>1. /\ recs \in [Handler -> Seq(Record)] /\ i \in DOMAIN recs[w]
  BY DEF IInv, TypeOK, Control, Placed
<1>2. ByItems(w, i) BY DEF ByItem, ByItems, Rec
<1>3. recs[w][i].type \notin {"MX", "SRV", "SOA"} BY <1>1, <1>2 DEF Plain
<1>4. \A c : Content(Rec(w).type, c) = c BY <1>3 DEF Content, HasPrio, Rec
<1>5. recs' = [recs EXCEPT ![w][i].data[k] = recs[w][i].data[k]]
  BY <1>4 DEF StripItem
<1>6. recs[w][i] \in Record BY <1>1
<1>7. [recs[w][i].data EXCEPT ![k] = recs[w][i].data[k]] = recs[w][i].data
  <2>1. PICK f \in Seq(Seq(Field)) : f = recs[w][i].data BY <1>6 DEF Record
  <2>2. f = [j \in 1 .. Len(f) |-> f[j]] OBVIOUS
  <2>3. [f EXCEPT ![k] = f[k]] = f BY <2>2
  <2> QED BY <2>1, <2>3
<1>8. [recs[w][i] EXCEPT !.data = recs[w][i].data] = recs[w][i] BY <1>6 DEF Record
<1>9. [recs[w] EXCEPT ![i] = recs[w][i]] = recs[w] BY <1>1
<1>10. [recs EXCEPT ![w] = recs[w]] = recs BY <1>1
<1> QED BY <1>5, <1>7, <1>8, <1>9, <1>10

\* A delete that ends a record leaves what the record is to leave.
LEMMA DeletedTraced ==
  ASSUME IInv, NEW w \in Handler, NEW h \in [Nat -> SUBSET Row], Trace(w, h),
         pc[w] = "delete", loc[w].cand = {}, Cmd(w) = "delete_record",
         loc[w].di = Turns(w, loc[w].ri), NextRecord(w, loc[w].aff), OnlyLoc
  PROVE  Stays(w) /\ \E g \in [Nat -> SUBSET Row] : Trace(w, g)'
<1> DEFINE i == loc[w].ri
           S == Shape(ViewOf(w))
<1>1. TypeOK /\ loc[w].db \in Orm /\ recs[w] \in Seq(Record) /\ i \in DOMAIN recs[w]
  BY DEF IInv, Control, Placed, TypeOK, Running
<1>2. /\ pc'[w] = "records" /\ loc'[w] = LocAt(loc[w].db, i + 1, loc[w].n + loc[w].aff)
      /\ UNCHANGED <<rows, zones, req, recs, tx>>
  BY <1>1, GotoMeans DEF NextRecord, OnlyLoc, database
<1>3. /\ loc'[w].db = loc[w].db /\ loc'[w].ri = i + 1 /\ loc'[w].di = 1
      /\ loc'[w].n = loc[w].n + loc[w].aff /\ loc'[w].aff = 0
  BY <1>2 DEF LocAt
<1>4. Stays(w) BY <1>2, <1>3 DEF Stays
<1>5. ViewOf(w)' = ViewOf(w) BY <1>2, <1>3, SameView
<1>6. PICK A : A = h[i - 1] /\ During(w, A) /\ Counts(w, A, h[0]) BY DEF Trace
<1>7. S = Past(w, i, Turns(w, i), A)
  <2>1. ViewOf(w) \ loc[w].cand = ViewOf(w) OBVIOUS
  <2> QED BY <1>6, <2>1 DEF During
<1>8. S \in SUBSET Row BY <1>1, ViewTyped, ShapeTyped
<1>9. Takes(w, i, A, S) BY <1>7 DEF Takes, Able, Effect
<1>10. loc[w].n \in Nat /\ loc[w].aff \in Nat BY <1>1, LocFields
<1>11. /\ A \subseteq h[0]
       /\ loc[w].n # 0 \/ loc[w].aff # 0 <=> S # h[0]
  <2>1. ViewOf(w) \ loc[w].cand = ViewOf(w) OBVIOUS
  <2> QED BY <1>6, <2>1 DEF Counts
<1> HIDE DEF S
<1>12. PICK B \in SUBSET Row : B = S BY <1>8
<1>13. Cmd(w)' = Cmd(w) BY <1>2 DEF Cmd
<1>14. Shape(ViewOf(w))' = B BY <1>5, <1>12 DEF S
<1>15. \A j : Past(w, j, 0, B)' = B
  <2>1. \A j, k : Past(w, j, k, B)' = Past(w, j, k, B) BY <1>2, Static
  <2> QED BY <2>1, PastNone
<1>16. loc'[w].di - 1 = 0 BY <1>3
<1>17. During(w, B)' BY <1>2, <1>3, <1>14, <1>15, <1>16 DEF During
<1>18. B \subseteq h[0] BY <1>7, <1>11, <1>12, PastTyped
<1>19. loc'[w].n # 0 <=> B # h[0] BY <1>3, <1>10, <1>11, <1>12
<1>20. Counts(w, B, h[0])' BY <1>2, <1>3, <1>13, <1>14, <1>18, <1>19 DEF Counts
<1> QED BY <1>1, <1>2, <1>3, <1>4, <1>6, <1>9, <1>12, <1>17, <1>20, NextTraced

LEMMA DeletedAllTraced ==
  ASSUME IInv, NEW w \in Handler, NEW h \in [Nat -> SUBSET Row], Trace(w, h), DeletedAll(w)
  PROVE  Stays(w) /\ \E g \in [Nat -> SUBSET Row] : Trace(w, g)'
<1>1. /\ pc[w] = "delete" /\ loc[w].cand = {} /\ Cmd(w) = "delete_record"
      /\ Rec(w).data = <<>> /\ NextRecord(w, loc[w].aff) /\ OnlyLoc
  BY DEF DeletedAll
<1>2. loc[w].ri \in DOMAIN recs[w] BY <1>1 DEF IInv, Control, Placed
<1>3. loc[w].di = 1 BY <1>1, <1>2, ItemIsPositive
<1>4. loc[w].di = Turns(w, loc[w].ri) BY <1>1, <1>3 DEF Turns, ByItems, Rec
<1> QED BY <1>1, <1>4, DeletedTraced

\* The items of a record are one turn each.
LEMMA DeleteNextItemTraced ==
  ASSUME IInv, NEW w \in Handler, Plain(w), NEW h \in [Nat -> SUBSET Row], Trace(w, h),
         DeleteNextItem(w)
  PROVE  Stays(w) /\ \E g \in [Nat -> SUBSET Row] : Trace(w, g)'
<1> DEFINE i == loc[w].ri
           k == loc[w].di
           l == [loc[w] EXCEPT !.di = @ + 1]
<1>1. /\ pc[w] = "delete" /\ loc[w].cand = {} /\ ByItem(w) /\ StripItem(w)
      /\ IF k < Len(Rec(w).data) THEN Goto(w, "records", l) ELSE NextRecord(w, loc[w].aff)
      /\ UNCHANGED <<today, database, tx, req, reply, faults>>
  BY DEF DeleteNextItem
<1>2. recs' = recs BY <1>1, NothingStripped
<1>3. OnlyLoc BY <1>1, <1>2 DEF OnlyLoc
<1>4. Cmd(w) = "delete_record" /\ Rec(w).data # <<>> BY <1>1 DEF ByItem
<1>5. i \in DOMAIN recs[w] BY <1>1 DEF IInv, Control, Placed
<1>6. k \in DOMAIN Rec(w).data /\ Rec(w).data \in Seq(Seq(Field))
  BY <1>1, <1>4, <1>5, ItemIsPositive, RecTyped DEF IInv, Record
<1>7. CASE k < Len(Rec(w).data)
  <2>1. /\ l.cand = {} /\ l.db = loc[w].db /\ l.ri = i /\ l.di = k + 1
        /\ l.aff = loc[w].aff /\ l.n = loc[w].n
    BY <1>1, LocFields DEF IInv, Loc
  <2> HIDE DEF l
  <2>2. /\ pc'[w] = "records" /\ loc'[w] = l /\ UNCHANGED <<rows, zones, tx, req>>
    BY <1>1, <1>7, GotoMeans DEF IInv, database
  <2>3. /\ loc'[w].cand = {} /\ loc'[w].db = loc[w].db /\ loc'[w].ri = i
        /\ loc'[w].di = k + 1 /\ loc'[w].aff = loc[w].aff /\ loc'[w].n = loc[w].n
    BY <2>1, <2>2
  <2>4. ViewOf(w)' = ViewOf(w) BY <2>2, <2>3, SameView
  <2>5. Stays(w) BY <1>2, <2>2, <2>3 DEF Stays
  <2>6. PICK A : A = h[i - 1] /\ During(w, A) /\ Counts(w, A, h[0]) BY DEF Trace
  <2>7. ViewOf(w) \ loc[w].cand = ViewOf(w) BY <1>1
  <2>8. Shape(ViewOf(w)) = Past(w, i, k, A) BY <1>1, <2>6, <2>7 DEF During
  <2>9. \A j, m, S : Past(w, j, m, S)' = Past(w, j, m, S) BY <1>2, <2>2, Static
  <2>10. loc'[w].di - 1 = k BY <1>6, <2>3
  <2>11. Cmd(w)' = Cmd(w) /\ Shape(ViewOf(w))' = Shape(ViewOf(w))
    BY <2>2, <2>4 DEF Cmd
  <2>12. During(w, A)'
    <3>1. (Shape(ViewOf(w)) = Past(w, loc[w].ri, loc[w].di - 1, A))'
      BY <2>3, <2>8, <2>9, <2>10, <2>11
    <3>2. loc'[w].ri \in DOMAIN recs'[w] /\ Cmd(w)' = "delete_record" BY <1>2, <1>4, <1>5, <2>3, <2>11
    <3> QED BY <2>2, <3>1, <3>2 DEF During
  <2>13. Counts(w, A, h[0])'
    BY <1>1, <1>2, <1>4, <1>5, <2>2, <2>3, <2>6, <2>7, <2>11 DEF Counts
  <2>14. Trace(w, h)' BY <2>2, <2>3, <2>5, <2>6, <2>12, <2>13, StillTraced
  <2> QED BY <2>5, <2>14
<1>8. CASE ~(k < Len(Rec(w).data))
  <2>1. NextRecord(w, loc[w].aff) BY <1>1, <1>8
  <2>2. k = Turns(w, i) BY <1>4, <1>6, <1>8 DEF Turns, ByItems, Rec
  <2> QED BY <1>1, <1>3, <1>4, <2>1, <2>2, DeletedTraced
<1> QED BY <1>7, <1>8

-----------------------------------------------------------------------------
(* replace_owner.                                                          *)

\* The SELECT takes the rows of the record's name.
LEMMA SelectOwnedTraced ==
  ASSUME IInv, NEW w \in Handler, NEW h \in [Nat -> SUBSET Row], Trace(w, h), SelectOwned(w)
  PROVE  Stays(w) /\ Trace(w, h)'
<1> DEFINE i == loc[w].ri
           mine == {x \in ViewOf(w) : Owned(w, x)}
           l == [loc[w] EXCEPT !.cand = mine]
<1>1. /\ l.cand = mine /\ l.db = loc[w].db /\ l.ri = i /\ l.di = loc[w].di
  BY LocFields DEF IInv, Loc
<1>2. Goto(w, "owner", l) BY DEF SelectOwned
<1> HIDE DEF l
<1>3. /\ pc[w] = "records" /\ pc'[w] = "owner" /\ loc'[w] = l /\ i \in DOMAIN recs[w]
      /\ Cmd(w) = "replace_owner" /\ mine # {}
      /\ UNCHANGED <<rows, zones, tx, req, recs>>
  BY <1>2, GotoMeans DEF SelectOwned, AtRecord, OnlyLoc, database, IInv
<1>4. ViewOf(w)' = ViewOf(w) BY <1>1, <1>3, SameView
<1>5. Stays(w) BY <1>1, <1>3 DEF Stays
<1>6. ViewOf(w) \subseteq Row BY <1>3, ViewTyped DEF IInv, Control, Placed, Running
<1>7. PICK A : A = h[i - 1] /\ During(w, A) /\ Counts(w, A, h[0]) BY DEF Trace
<1>8. Shape(ViewOf(w)) = A /\ loc[w].di = 1 BY <1>3, <1>7, PastNone DEF During
<1>9. \A x \in ViewOf(w) : x \in mine <=> Named(w, i, Figure(x)) BY <1>6, OwnedNamed
<1>10. mine \in SUBSET Row /\ mine \subseteq ViewOf(w) BY <1>6
<1> HIDE DEF mine
<1>11. Able(w, i, A) BY <1>3, <1>8, <1>9, <1>10 DEF Able, Shape
<1>12. Shape((ViewOf(w) \ mine) \cup Handed(w, mine)) = Effect(w, i, A)
  <2>1. Shape(ViewOf(w) \ mine) = {s \in A : ~Named(w, i, s)} BY <1>8, <1>9 DEF Shape
  <2>2. Shape(mine) = {s \in A : Named(w, i, s)} BY <1>8, <1>9, <1>10 DEF Shape
  <2>3. Shape(Handed(w, mine)) = Handed(w, {s \in A : Named(w, i, s)})
    BY <1>10, <2>2, HandedShape
  <2>4. Shape((ViewOf(w) \ mine) \cup Handed(w, mine)) =
          Shape(ViewOf(w) \ mine) \cup Shape(Handed(w, mine))
    BY ShapeUnion
  <2>5. Effect(w, i, A) = {s \in A : ~Named(w, i, s)} \cup Handed(w, {s \in A : Named(w, i, s)})
    BY <1>3 DEF Effect
  <2> QED BY <2>1, <2>3, <2>4, <2>5
<1>13. /\ \A j, S : Able(w, j, S)' <=> Able(w, j, S)
       /\ \A j, S : Effect(w, j, S)' = Effect(w, j, S)
       /\ \A S : Handed(w, S)' = Handed(w, S)
       /\ Cmd(w)' = Cmd(w)
  BY <1>3, Static
<1>14. /\ loc'[w].ri = i /\ loc'[w].di = 1 /\ loc'[w].cand = mine BY <1>1, <1>3, <1>8
<1>15. Shape((ViewOf(w) \ loc[w].cand) \cup Handed(w, loc[w].cand))'
         = Shape((ViewOf(w) \ mine) \cup Handed(w, mine))
  BY <1>4, <1>13, <1>14
<1>16. During(w, A)' BY <1>3, <1>11, <1>12, <1>13, <1>14, <1>15 DEF During
<1>17. Counts(w, A, h[0])' BY <1>3, <1>13 DEF Counts
<1> QED BY <1>3, <1>5, <1>7, <1>14, <1>16, <1>17, StillTraced

\* The UPDATE of one of them hands it over.
LEMMA UpdateOwnerTraced ==
  ASSUME IInv, NEW w \in Handler, Tidy(w), Mine(w), NEW h, Trace(w, h), UpdateOwner(w)
  PROVE  Stays(w) /\ Trace(w, h)'
<1> DEFINE now(r) == {x \in ViewOf(w) : x.id = r.id /\ x.owner # NoOwner}
           handed(r) == [r EXCEPT !.owner = req[w].newToken]
           new(r) == IF now(r) = {} THEN {} ELSE {handed(r)}
           l(r) == [loc[w] EXCEPT !.cand = @ \ {r},
                                  !.aff = @ + (IF now(r) = {} THEN 0 ELSE 1)]
<1>1. PICK r \in loc[w].cand : Write(w, now(r), new(r)) /\ Goto(w, "owner", l(r))
  BY DEF UpdateOwner
<1>2. /\ Running(w) /\ pc[w] = "owner" /\ Cmd(w) = "replace_owner" /\ r \in Row
      /\ req[w].token \in Token /\ UNCHANGED <<rows, zones, req, recs>>
  BY LocFields DEF UpdateOwner, Running, IInv, Control, Placed, Places, RequestType,
                   OnlyTx, database
<1>3. /\ r \in ViewOf(w) /\ r.owner = req[w].token /\ loc[w].cand \subseteq ViewOf(w)
  BY <1>2 DEF Tidy, Mine
<1>4. now(r) = {r}
  BY <1>2, <1>3, ViewUnique, OrmAssumption DEF OrmAssumption
<1>5. new(r) = {handed(r)} /\ handed(r).id = r.id BY <1>2, <1>4 DEF Row
<1>6. /\ l(r).cand = loc[w].cand \ {r} /\ l(r).db = loc[w].db /\ l(r).ri = loc[w].ri
      /\ l(r).di = loc[w].di
  BY LocFields DEF IInv, Loc
<1>7. handed(r) \in Handed(w, loc[w].cand) BY <1>1 DEF Handed
<1>8. Handed(w, loc[w].cand) = Handed(w, loc[w].cand \ {r}) \cup {handed(r)}
  BY <1>1 DEF Handed
<1> HIDE DEF now, new, l, handed
<1>9. pc'[w] = "owner" /\ loc'[w] = l(r) BY <1>1, GotoMeans DEF IInv
<1>10. ViewOf(w)' = (ViewOf(w) \ {r}) \cup {handed(r)}
  <2>1. Write(w, {r}, {handed(r)}) BY <1>1, <1>4, <1>5
  <2>2. {r} \in SUBSET ViewOf(w) /\ rows' = rows /\ loc'[w].db = loc[w].db
    BY <1>2, <1>3, <1>6, <1>9
  <2> DEFINE gone == {r}
             come == {handed(r)}
  <2>3. \A n \in come : \A x \in ViewOf(w) : x.id = n.id => x \in gone
    BY <1>2, <1>3, <1>5, ViewUnique
  <2>4. Write(w, gone, come) /\ gone \in SUBSET ViewOf(w) BY <2>1, <2>2
  <2> HIDE DEF gone, come
  <2>5. ViewOf(w)' = (ViewOf(w) \ gone) \cup come BY <1>2, <2>2, <2>3, <2>4, WriteView
  <2> QED BY <2>5 DEF gone, come
<1>11. Stays(w) BY <1>2, <1>6, <1>9 DEF Stays
<1>12. PICK A : A = h[loc[w].ri - 1] /\ During(w, A) /\ Counts(w, A, h[0]) BY DEF Trace
<1>13. /\ \A j, S : Able(w, j, S)' <=> Able(w, j, S)
       /\ \A j, S : Effect(w, j, S)' = Effect(w, j, S)
       /\ \A S : Handed(w, S)' = Handed(w, S)
       /\ Cmd(w)' = Cmd(w)
  BY <1>2, Static
<1>14. loc'[w].ri = loc[w].ri /\ loc'[w].di = loc[w].di /\ loc'[w].cand = loc[w].cand \ {r}
  BY <1>6, <1>9
<1>15. ((ViewOf(w) \ loc[w].cand) \cup Handed(w, loc[w].cand))'
         = (ViewOf(w) \ loc[w].cand) \cup Handed(w, loc[w].cand)
  <2> DEFINE V == ViewOf(w)
             C == loc[w].cand
             g == handed(r)
             T == Handed(w, C \ {r})
  <2>1. g \in C => g = r BY <1>2, <1>3, <1>5, ViewUnique
  <2>2. r \in C /\ C \subseteq V /\ Handed(w, C) = T \cup {g} BY <1>1, <1>3, <1>8
  <2> HIDE DEF V, C, g, T
  <2>3. (((V \ {r}) \cup {g}) \ (C \ {r})) \cup T = (V \ C) \cup (T \cup {g})
    BY <2>1, <2>2
  <2>4. Handed(w, loc[w].cand)' = T BY <1>13, <1>14 DEF T, C
  <2>5. (ViewOf(w) \ loc[w].cand)' = ((V \ {r}) \cup {g}) \ (C \ {r})
    BY <1>10, <1>14 DEF V, C, g
  <2> QED BY <2>2, <2>3, <2>4, <2>5 DEF V, C
<1>16. Shape((ViewOf(w) \ loc[w].cand) \cup Handed(w, loc[w].cand))'
         = Shape((ViewOf(w) \ loc[w].cand) \cup Handed(w, loc[w].cand))
  BY <1>15
<1>17. During(w, A)' BY <1>2, <1>9, <1>12, <1>13, <1>14, <1>16 DEF During
<1>18. Counts(w, A, h[0])' BY <1>2, <1>9, <1>13 DEF Counts
<1> QED BY <1>9, <1>11, <1>12, <1>14, <1>17, <1>18, StillTraced

LEMMA EndOwnerTraced ==
  ASSUME IInv, NEW w \in Handler, NEW h \in [Nat -> SUBSET Row], Trace(w, h), EndOwner(w)
  PROVE  Stays(w) /\ \E g \in [Nat -> SUBSET Row] : Trace(w, g)'
<1> DEFINE i == loc[w].ri
           S == Shape(ViewOf(w))
<1>1. /\ pc[w] = "owner" /\ loc[w].cand = {} /\ NextRecord(w, loc[w].aff) /\ OnlyLoc
  BY DEF EndOwner
<1>2. TypeOK /\ loc[w].db \in Orm /\ recs[w] \in Seq(Record) /\ Cmd(w) = "replace_owner"
  BY <1>1 DEF IInv, Control, Placed, TypeOK, Running, Places
<1>3. /\ pc'[w] = "records" /\ loc'[w] = LocAt(loc[w].db, i + 1, loc[w].n + loc[w].aff)
      /\ UNCHANGED <<rows, zones, req, recs, tx>>
  BY <1>1, <1>2, GotoMeans DEF NextRecord, OnlyLoc, database
<1>4. loc'[w].db = loc[w].db /\ loc'[w].ri = i + 1 /\ loc'[w].di = 1
  BY <1>3 DEF LocAt
<1>5. Stays(w) BY <1>3, <1>4 DEF Stays
<1>6. ViewOf(w)' = ViewOf(w) BY <1>3, <1>4, SameView
<1>7. PICK A : A = h[i - 1] /\ During(w, A) /\ Counts(w, A, h[0]) BY DEF Trace
<1>8. i \in DOMAIN recs[w] /\ Takes(w, i, A, S)
  <2>1. (ViewOf(w) \ loc[w].cand) \cup Handed(w, loc[w].cand) = ViewOf(w)
    BY <1>1 DEF Handed
  <2> QED BY <1>1, <1>7, <2>1 DEF Takes, During
<1>9. S \in SUBSET Row BY <1>2, ViewTyped, ShapeTyped
<1> HIDE DEF S
<1>10. PICK B \in SUBSET Row : B = S BY <1>9
<1>11. Cmd(w)' = Cmd(w) BY <1>3 DEF Cmd
<1>12. Shape(ViewOf(w))' = B BY <1>6, <1>10 DEF S
<1>13. \A j : Past(w, j, 0, B)' = B
  <2>1. \A j, k : Past(w, j, k, B)' = Past(w, j, k, B) BY <1>3, Static
  <2> QED BY <2>1, PastNone
<1>14. loc'[w].di - 1 = 0 BY <1>4
<1>15. During(w, B)' BY <1>3, <1>4, <1>12, <1>13, <1>14 DEF During
<1>16. Counts(w, B, h[0])' BY <1>2, <1>11 DEF Counts
<1> QED BY <1>2, <1>3, <1>4, <1>5, <1>7, <1>8, <1>10, <1>15, <1>16, NextTraced

-----------------------------------------------------------------------------
(* ormUpdateSOA.                                                           *)

\* Past the last record a handler sees the last shape of its trace.
LEMMA LastShape ==
  ASSUME IInv, NEW w \in Handler, NEW h, Trace(w, h), pc[w] \in {"soa", "save", "commit"}
  PROVE  /\ loc[w].ri = Len(recs[w]) + 1 /\ loc[w].ri \notin DOMAIN recs[w]
         /\ Shape(ViewOf(w)) = h[Len(recs[w])]
<1>1. PICK A : A = h[loc[w].ri - 1] /\ During(w, A) BY DEF Trace
<1>2. recs[w] \in Seq(Record) BY DEF IInv, TypeOK
<1>3. DOMAIN recs[w] = 1 .. Len(recs[w]) /\ Len(recs[w]) \in Nat BY <1>2
<1>4. loc[w].ri \notin DOMAIN recs[w] /\ Shape(ViewOf(w)) = A BY <1>1 DEF During
<1>5. loc[w].ri \in 1 .. Len(recs[w]) + 1 BY DEF Trace
<1>6. loc[w].ri = Len(recs[w]) + 1 BY <1>3, <1>4, <1>5
<1> QED BY <1>1, <1>3, <1>4, <1>6

\* A zone whose SOA is read has one.
LEMMA ReadSoaTraced ==
  ASSUME IInv, NEW w \in Handler, NEW h \in [Nat -> SUBSET Row], Trace(w, h), ReadSoa(w)
  PROVE  Stays(w) /\ Trace(w, h)'
<1> DEFINE stamped(x) == [x EXCEPT !.content = <<GenerateNewSerial(x.content[1], today)>>]
           l(x) == [loc[w] EXCEPT !.soa = {stamped(x)}]
<1>1. PICK x \in Soas(w) : Goto(w, "save", l(x)) BY DEF ReadSoa
<1>2. /\ Running(w) /\ pc[w] = "soa" /\ UNCHANGED <<rows, zones, tx, req, recs>>
  BY DEF ReadSoa, Running, OnlyLoc, database
<1>3. /\ l(x).db = loc[w].db /\ l(x).ri = loc[w].ri /\ l(x).di = loc[w].di
  BY LocFields DEF IInv, Loc
<1> HIDE DEF l
<1>4. pc'[w] = "save" /\ loc'[w] = l(x) BY <1>1, GotoMeans DEF IInv
<1>5. loc'[w].db = loc[w].db /\ loc'[w].ri = loc[w].ri /\ loc'[w].di = loc[w].di
  BY <1>3, <1>4
<1>6. ViewOf(w)' = ViewOf(w) BY <1>2, <1>5, SameView
<1>7. Stays(w) BY <1>2, <1>5 DEF Stays
<1>8. PICK A : A = h[loc[w].ri - 1] /\ During(w, A) /\ Counts(w, A, h[0]) BY DEF Trace
<1>9. Cmd(w)' = Cmd(w) /\ Shape(ViewOf(w))' = Shape(ViewOf(w)) BY <1>2, <1>6 DEF Cmd
<1>10. During(w, A)' BY <1>2, <1>4, <1>5, <1>8, <1>9 DEF During
<1>11. Counts(w, A, h[0])' BY <1>2, <1>4, <1>8, <1>9 DEF Counts
<1>12. Settled(w, h)
  <2>1. Figure(x) \in h[Len(recs[w])] BY <1>2, LastShape DEF Soas, Shape
  <2>2. x \in Row BY <1>2, ViewTyped DEF Soas, IInv, Control, Placed
  <2> QED BY <2>1, <2>2, FigureMeans DEF Settled, Soas
<1> QED BY <1>5, <1>7, <1>8, <1>10, <1>11, <1>12, StillTraced

\* The serial does not show in a shape.
LEMMA SaveSoaTraced ==
  ASSUME IInv, NEW w \in Handler, NEW h \in [Nat -> SUBSET Row], Trace(w, h), SaveSoa(w)
  PROVE  Stays(w) /\ Trace(w, h)'
<1> DEFINE saved(x, now) == [x EXCEPT !.owner = now.owner]
<1>1. PICK x \in loc[w].soa, now \in ViewOf(w) :
             /\ now.id = x.id /\ Write(w, {now}, {saved(x, now)})
             /\ Goto(w, "commit", loc[w])
  BY DEF SaveSoa
<1>2. /\ Running(w) /\ pc[w] = "save" /\ loc[w].db \in Orm /\ x \in Row
      /\ UNCHANGED <<rows, zones, req, recs>>
  BY LocFields DEF SaveSoa, Running, IInv, Control, Placed, OnlyTx, database
<1>3. now \in Row BY <1>2, ViewTyped DEF IInv
<1>4. SameRow(x, now)
  <2>1. now \in Versions(loc[w].db) /\ x \in Versions(loc[w].db)
    BY VersionsOf DEF ViewOf, Held
  <2> QED BY <1>1, <1>2, <2>1 DEF IInv, RowIdentity
<1>5. /\ saved(x, now) \in Row /\ saved(x, now).id = now.id
      /\ saved(x, now).owner = now.owner /\ SameRow(saved(x, now), now)
  BY <1>1, <1>2, <1>3, <1>4 DEF SameRow, Row
<1>6. Figure(saved(x, now)) = Figure(now) BY <1>3, <1>5, SameFigure
<1> DEFINE gone == {now}
           come == {saved(x, now)}
<1>7. \A n \in come : \A y \in ViewOf(w) : y.id = n.id => y \in gone
  BY <1>2, <1>5, ViewUnique
<1>8. pc'[w] = "commit" /\ loc'[w] = loc[w] BY <1>1, GotoMeans DEF IInv
<1>9. Write(w, gone, come) /\ gone \in SUBSET ViewOf(w) BY <1>1
<1> HIDE DEF gone, come, saved
<1>10. ViewOf(w)' = (ViewOf(w) \ gone) \cup come BY <1>2, <1>7, <1>8, <1>9, WriteView
<1>11. Shape(ViewOf(w)') = Shape(ViewOf(w))
  BY <1>1, <1>6, <1>10 DEF Shape, gone, come
<1>12. Shape(ViewOf(w))' = Shape(ViewOf(w)) BY <1>11
<1>13. Stays(w) BY <1>2, <1>8 DEF Stays
<1>14. PICK A : A = h[loc[w].ri - 1] /\ During(w, A) /\ Counts(w, A, h[0]) BY DEF Trace
<1>15. Cmd(w)' = Cmd(w) BY <1>2 DEF Cmd
<1>16. During(w, A)' BY <1>2, <1>8, <1>12, <1>14 DEF During
<1>17. Counts(w, A, h[0])' BY <1>2, <1>8, <1>12, <1>14, <1>15 DEF Counts
<1> QED BY <1>2, <1>8, <1>13, <1>14, <1>16, <1>17, StillTraced

\* Every statement of an edit or a handover goes on with the trace.
LEMMA StatementsTraced ==
  ASSUME IInv, NEW w \in Handler, Tidy(w), Mine(w), Cmd(w) # "create_domain",
         RowsWork(w), Work(w)
  PROVE  RowsWork(w)' /\ Stays(w)
<1>1. PICK h \in [Nat -> SUBSET Row] : Trace(w, h) BY DEF RowsWork
<1>2. Plain(w) BY DEF RowsWork
<1>3. ~FindDomain(w) /\ ~InsertDomain(w)
  BY DEF FindDomain, InsertDomain, IInv, Control, Placed, Running, Places
<1>4. ~SoaVanished(w) /\ ~InsertSoa(w) /\ ~InsertNothing(w)
  BY DEF Tidy, SoaVanished, InsertSoa, InsertNothing
<1>5. CASE \/ BeginRecords(w) \/ EndOfRecords(w) \/ StartDelete(w) \/ DeleteRow(w)
           \/ SelectOwned(w) \/ UpdateOwner(w) \/ ReadSoa(w) \/ SaveSoa(w)
  <2>1. Stays(w) /\ Trace(w, h)'
    BY <1>1, <1>2, <1>5, BeginRecordsTraced, EndOfRecordsTraced, StartDeleteTraced,
       DeleteRowTraced, SelectOwnedTraced, UpdateOwnerTraced, ReadSoaTraced, SaveSoaTraced
  <2>2. pc[w] = "begin" => MayBegin(w)
    BY <1>5 DEF BeginRecords, EndOfRecords, StartDelete, Deletes, AtRecord, DeleteRow,
                SelectOwned, UpdateOwner, ReadSoa, SaveSoa
  <2> QED BY <2>1, <2>2, RowsStay
<1>6. CASE \/ CreateRecord(w) \/ DeleteNextItem(w) \/ DeletedAll(w) \/ ReplaceInsert(w)
           \/ EndOwner(w)
  <2>1. Stays(w) /\ \E g \in [Nat -> SUBSET Row] : Trace(w, g)'
    BY <1>1, <1>2, <1>6, CreateRecordTraced, DeleteNextItemTraced, DeletedAllTraced,
       ReplaceInsertTraced, EndOwnerTraced
  <2>2. pc[w] # "begin"
    BY <1>6 DEF CreateRecord, AtRecord, DeleteNextItem, DeletedAll, ReplaceInsert, EndOwner
  <2> QED BY <2>1, <2>2, RowsStay
<1> QED BY <1>3, <1>4, <1>5, <1>6 DEF Work

-----------------------------------------------------------------------------
(* What one database of a view has taken, the others take.                 *)

\* A record that the first database took is refused by no other.
LEMMA LaterTakes ==
  ASSUME IInv, NEW w \in Handler, Tidy(w), Cmd(w) # "create_domain", RowsWork(w), Later(w)
  PROVE  /\ ~CannotBegin(w) /\ ~EmptyData(w) /\ ~CreateConflict(w) /\ ~ReplaceMissing(w)
         /\ ~NothingOwned(w) /\ ~NoSoa(w) /\ ~InsertConflict(w)
<1>1. PICK h \in [Nat -> SUBSET Row] : Trace(w, h) BY DEF RowsWork
<1> DEFINE i == loc[w].ri
<1>2. PICK A : A = h[i - 1] /\ During(w, A) /\ Counts(w, A, h[0]) BY <1>1 DEF Trace
<1>3. i \in DOMAIN recs[w] => Able(w, i, A) BY <1>1, <1>2 DEF Trace, Takes
<1>4. Running(w) => loc[w].db \in Orm /\ TypeOK /\ ViewOf(w) \subseteq Row
  BY ViewTyped DEF IInv, Control, Placed
<1>5. ~CannotBegin(w) BY DEF CannotBegin, RowsWork
<1>6. ~EmptyData(w) BY <1>3 DEF EmptyData, AtRecord, Able, Rec
<1>7. pc[w] = "records" /\ Cmd(w) # "delete_record" => Shape(ViewOf(w)) = A
  BY <1>2, PastNone DEF During
<1>8. ~CreateConflict(w)
  BY <1>3, <1>4, <1>7, ConflictBlocks DEF CreateConflict, AtRecord, Able, Running
<1>9. ~ReplaceMissing(w)
  <2> SUFFICES ASSUME ReplaceMissing(w) PROVE FALSE OBVIOUS
  <2>1. i \in DOMAIN recs[w] BY DEF ReplaceMissing, IInv, Control, Placed
  <2> QED BY <1>2, <1>3, <2>1 DEF ReplaceMissing, Counts, Able
<1>10. ~NothingOwned(w)
  <2> SUFFICES ASSUME NothingOwned(w) PROVE FALSE OBVIOUS
  <2>1. i \in DOMAIN recs[w] /\ Cmd(w) = "replace_owner" /\ pc[w] = "records"
    BY DEF NothingOwned, AtRecord
  <2>2. PICK s \in Shape(ViewOf(w)) : Named(w, i, s) BY <1>3, <1>7, <2>1 DEF Able
  <2>3. PICK x \in ViewOf(w) : s = Figure(x) BY <2>2 DEF Shape
  <2>4. Owned(w, x) BY <1>4, <2>1, <2>2, <2>3, OwnedNamed DEF Running
  <2> QED BY <2>4 DEF NothingOwned
<1>11. ~NoSoa(w)
  <2> SUFFICES ASSUME NoSoa(w) PROVE FALSE OBVIOUS
  <2>1. pc[w] = "soa" /\ Soas(w) = {} /\ Edits(w) BY PlaceTells DEF NoSoa
  <2>2. i = Len(recs[w]) + 1 /\ Shape(ViewOf(w)) = h[Len(recs[w])] BY <1>1, <2>1, LastShape
  <2>3. recs[w] \in Seq(Record) /\ Len(recs[w]) \in Nat BY DEF IInv, TypeOK
  <2>4. A = h[Len(recs[w])] BY <1>2, <2>2, <2>3
  <2>5. Worked(w, h)
    <3>1. CASE Cmd(w) = "delete_record" BY <1>2, <2>1, <2>4, <3>1 DEF Counts, Worked
    <3>2. CASE Cmd(w) # "delete_record"
      <4>1. i # 1 BY <1>2, <2>1, <3>2 DEF Counts, Edits
      <4>2. recs[w] # <<>> BY <2>2, <4>1
      <4> QED BY <3>2, <4>2 DEF Worked
    <3> QED BY <3>1, <3>2
  <2>6. Settled(w, h) BY <1>1 DEF Trace
  <2>7. PICK s \in Shape(ViewOf(w)) : s.domain = req[w].domain /\ s.type = "SOA"
    BY <2>1, <2>2, <2>5, <2>6 DEF Settled
  <2>8. PICK x \in ViewOf(w) : s = Figure(x) BY <2>7 DEF Shape
  <2>9. x \in Soas(w) BY <1>4, <2>1, <2>7, <2>8, FigureMeans DEF Soas, Running
  <2> QED BY <2>1, <2>9
<1>12. ~InsertConflict(w) BY DEF Tidy, InsertConflict
<1> QED BY <1>5, <1>6, <1>8, <1>9, <1>10, <1>11, <1>12

\* Before the first commit to a view its databases are alike.
LEMMA FirstIsAlike ==
  ASSUME NEW w, Cmd(w) # "create_domain", RowsWork(w), ~Later(w), loc[w].db \in Orm
  PROVE  AllAlike
<1>1. \A d \in Orm : Fellows(d, loc[w].db) => ~(d < loc[w].db) BY DEF Later
<1>2. ASSUME NEW d \in Orm, NEW e \in Orm, Fellows(d, e) PROVE SameSide(w, d, e)
  BY <1>1, <1>2 DEF SameSide, Fellows
<1> QED BY <1>2 DEF AllAlike, RowsWork

\* A delete that strips nothing does not panic.
LEMMA PlainIsCalm == ASSUME NEW w, RowsWork(w), Deletes(w) PROVE ~Panics(w)
BY DEF RowsWork, Plain, Deletes, AtRecord, Panics, ByItem, ByItems, Rec

-----------------------------------------------------------------------------
(* From one database to the next.                                          *)

\* The databases of a view stand together.
Adjacent == \A d, e, f \in Orm : d < e /\ e < f /\ Fellows(d, f) => Fellows(d, e)

\* A trace begins with what the database holds.
LEMMA BeginTraced ==
  ASSUME NEW w \in Handler, NEW d \in Orm, pc'[w] = "begin", loc'[w] = LocAt(d, 1, 0), tx'[w] = NoTx,
         recs'[w] \in Seq(Record),
         NEW h, h[0] = Shape(rows'[d]),
         Later(w)' => /\ \A i \in DOMAIN recs'[w] : Takes(w, i, h[i-1], h[i])'
                      /\ Settled(w, h)'
                      /\ \A e \in Orm : e < d /\ Fellows(e, d) =>
                           Shape(rows'[e]) = h[Len(recs'[w])]
  PROVE  Trace(w, h)'
<1>1. /\ loc'[w].db = d /\ loc'[w].ri = 1 /\ loc'[w].di = 1 /\ loc'[w].n = 0
      /\ loc'[w].aff = 0 /\ loc'[w].cand = {}
  BY DEF LocAt
<1>2. ViewOf(w)' = rows'[d] BY <1>1, FreshView
<1>3. Shape(ViewOf(w))' = h[0] BY <1>2
<1>4. PICK A : A = h[0] OBVIOUS
<1>5. \A i : Past(w, i, 0, A)' = A BY DEF Past
<1>6. loc'[w].di - 1 = 0 /\ loc'[w].ri - 1 = 0 BY <1>1
<1>7. During(w, A)' BY <1>1, <1>3, <1>4, <1>5, <1>6 DEF During
<1>8. Counts(w, A, h[0])' BY <1>1, <1>3, <1>4 DEF Counts
<1>9. loc'[w].ri \in 1 .. Len(recs'[w]) + 1
  <2>1. Len(recs'[w]) \in Nat OBVIOUS
  <2> QED BY <1>1, <2>1
<1>10. DOMAIN recs'[w] = 1 .. Len(recs'[w]) OBVIOUS
<1>11. \A i \in DOMAIN recs'[w] : ~(i < 1) BY <1>10
<1>12. Later(w)' <=> \E e \in Orm : e < d /\ Fellows(e, d) BY <1>1 DEF Later
<1> QED BY <1>1, <1>3, <1>4, <1>6, <1>7, <1>8, <1>9, <1>11, <1>12 DEF Trace

\* So it does in the first database of a view.
LEMMA FirstTraced ==
  ASSUME NEW w \in Handler, NEW d \in Orm, pc'[w] = "begin", loc'[w] = LocAt(d, 1, 0), tx'[w] = NoTx,
         recs'[w] \in Seq(Record), rows'[d] \in SUBSET Row, ~Later(w)'
  PROVE  \E h \in [Nat -> SUBSET Row] : Trace(w, h)'
<1>1. Shape(rows'[d]) \in SUBSET Row BY ShapeTyped
<1>2. PICK S \in SUBSET Row : S = Shape(rows'[d]) BY <1>1
<1> DEFINE h == [i \in Nat |-> S]
<1>3. h \in [Nat -> SUBSET Row] /\ h[0] = S OBVIOUS
<1> HIDE DEF h
<1>4. PICK g \in [Nat -> SUBSET Row] : g[0] = S BY <1>3
<1>5. Trace(w, g)' BY <1>2, <1>4, BeginTraced
<1> QED BY <1>5

\* Where the loop goes: to the first database of the view past this one.
LEMMA NextIsFirst ==
  ASSUME TypeOK, NEW w \in Handler, NEW a, NextDatabase(w, a)
  PROVE  \/ /\ pc'[w] = "done"
            /\ \A e \in Orm : e > a => ~Matches(w, e)
         \/ \E d \in Orm :
              /\ pc'[w] = "begin" /\ loc'[w] = LocAt(d, 1, 0)
              /\ d > a /\ Matches(w, d)
              /\ \A e \in Orm : e > a /\ Matches(w, e) => d <= e
<1>1. \A p, l : Goto(w, p, l) => pc'[w] = p /\ loc'[w] = l BY GotoMeans
<1> DEFINE left == {d \in Orm : d > a /\ Matches(w, d)}
<1>2. CASE left = {} /\ Finish(w, "SUCCESS") BY <1>1, <1>2 DEF Finish
<1>3. ASSUME NEW d \in left, \A e \in left : d <= e, Goto(w, "begin", LocAt(d, 1, 0))
      PROVE  /\ d \in Orm /\ pc'[w] = "begin" /\ loc'[w] = LocAt(d, 1, 0)
             /\ d > a /\ Matches(w, d)
             /\ \A e \in Orm : e > a /\ Matches(w, e) => d <= e
  BY <1>1, <1>3
<1> QED BY <1>2, <1>3 DEF NextDatabase

\* The databases of one view are all asked or none.
LEMMA FellowsMatch ==
  ASSUME NEW w, NEW d, NEW e, Fellows(d, e) PROVE Matches(w, d) <=> Matches(w, e)
BY DEF Fellows, Matches

LEMMA OrmOrder ==
  /\ Orm \subseteq Nat
  /\ \A d, e \in Orm : d < e \/ d = e \/ e < d
  /\ \A d, e, f \in Orm : d < e /\ e < f => d < f
  /\ \A d, e \in Orm : d <= e <=> ~(e < d)
  /\ \A d, e \in Orm : e > d <=> d < e
  /\ \A d \in Orm : ~(d < d)
<1>1. DbView \in Seq(View) BY OrmAssumption DEF OrmAssumption
<1>2. Orm \subseteq Nat BY <1>1 DEF Orm
<1> QED BY <1>2

\* A step to another view, or to the first database of any, is to one of
\* which no database has been served.
LEMMA NextIsNew ==
  ASSUME Adjacent, NEW w, NEW a \in Orm, NEW d \in Orm, a < d, Matches(w, d),
         \A e \in Orm : a < e /\ Matches(w, e) => d <= e, ~Fellows(a, d),
         NEW e \in Orm, Fellows(e, d)
  PROVE  ~(e < d)
<1> SUFFICES ASSUME e < d PROVE FALSE OBVIOUS
<1>1. Matches(w, e) BY FellowsMatch
<1>2. CASE a < e BY <1>1, <1>2, OrmOrder
<1>3. CASE e = a BY <1>3
<1>4. CASE e < a
  <2>1. Fellows(e, a) BY <1>4 DEF Adjacent
  <2> QED BY <2>1 DEF Fellows
<1> QED BY <1>2, <1>3, <1>4, OrmOrder

\* Let d be the next database that is asked after c.  If f is alike on the
\* databases of c's view up to c, on those past c, and on those of any other
\* view, then it is alike on the databases of a view on either side of d.
LEMMA NextSides ==
  ASSUME Adjacent, NEW w, NEW c \in Orm, NEW d \in Orm, c < d, Matches(w, c),
         \A e \in Orm : c < e /\ Matches(w, e) => ~(e < d),
         NEW f,
         \A x, y \in Orm :
           /\ Fellows(x, y) /\ Fellows(x, c) /\ ~(c < x) /\ ~(c < y) => f[x] = f[y]
           /\ Fellows(x, y) /\ (Fellows(x, c) => c < x /\ c < y) => f[x] = f[y],
         NEW x \in Orm, NEW y \in Orm, Fellows(x, y), Fellows(x, d) => (x < d <=> y < d)
  PROVE  f[x] = f[y]
<1>1. CASE ~Fellows(x, c) BY <1>1
<1>2. CASE Fellows(x, c)
  <2>1. Fellows(y, c) /\ Matches(w, x) /\ Matches(w, y)
    BY <1>2, FellowsMatch DEF Fellows
  <2>2. CASE ~Fellows(c, d)
    <3>1. ASSUME NEW e \in Orm, Fellows(e, c), Matches(w, e), c < e PROVE FALSE
      <4>1. ~(e < d) /\ e # d BY <2>2, <3>1 DEF Fellows
      <4>2. d < e BY <4>1, OrmOrder
      <4> QED BY <2>2, <3>1, <4>2 DEF Adjacent, Fellows
    <3>2. ~(c < x) /\ ~(c < y) BY <1>2, <2>1, <3>1
    <3> QED BY <1>2, <3>2
  <2>3. CASE Fellows(c, d)
    <3>1. x < d <=> y < d BY <1>2, <2>3 DEF Fellows
    <3>2. CASE x < d
      <4>1. ~(c < x) /\ ~(c < y) BY <2>1, <3>1, <3>2
      <4> QED BY <1>2, <4>1
    <3>3. CASE ~(x < d)
      <4>1. c < x /\ c < y BY <3>1, <3>3, OrmOrder
      <4> QED BY <4>1
    <3> QED BY <3>2, <3>3
  <2> QED BY <2>2, <2>3
<1> QED BY <1>1, <1>2

\* A commit of an edit or a handover: the view's databases up to this one are
\* alike, and so are the others.
LEMMA RowsAfterCommit ==
  ASSUME IInv, Adjacent, NEW w \in Handler, Cmd(w) # "create_domain", RowsWork(w),
         Matches(w, loc[w].db), Commit(w)
  PROVE  IF Running(w)' THEN RowsWork(w)' /\ Matches(w, loc[w].db)' ELSE AllAlike'
<1>1. /\ TypeOK /\ loc[w].db \in Orm /\ Apply(w) /\ pc[w] = "commit"
      /\ NextDatabase(w, loc[w].db) /\ recs[w] \in Seq(Record)
  BY DEF Commit, IInv, Control, Placed, Running, TypeOK
<1>2. PICK c \in Orm : c = loc[w].db BY <1>1
<1>3. /\ rows'[c] = ViewOf(w) /\ \A d \in Orm : d # c => rows'[d] = rows[d]
      /\ rows' \in [Orm -> SUBSET Row] /\ zones' = zones /\ tx'[w] = NoTx
      /\ req' = req /\ recs' = recs
  <2>1. tx[w].made = {} BY DEF IInv, Control, Placed
  <2>2. rows' \in [Orm -> SUBSET Row] BY <1>1, ApplyTyped
  <2>3. zones' = zones
    <3>1. [n \in DomainName |-> IF n \in tx[w].made THEN "NATIVE" ELSE zones[c][n]] = zones[c]
      BY <1>1, <2>1 DEF TypeOK
    <3>2. zones' = [zones EXCEPT ![c] = zones[c]] BY <1>1, <1>2, <3>1 DEF Apply
    <3> QED BY <1>1, <3>2 DEF TypeOK
  <2> QED BY <1>1, <1>2, <2>2, <2>3, ApplyMeans
<1>4. PICK h \in [Nat -> SUBSET Row] : Trace(w, h) BY DEF RowsWork
<1>5. PICK L : L = h[Len(recs[w])] OBVIOUS
<1>6. /\ Shape(ViewOf(w)) = L /\ loc[w].ri = Len(recs[w]) + 1
  BY <1>1, <1>4, <1>5, LastShape
<1>7. ASSUME NEW e \in Orm, Fellows(e, c), ~(c < e) PROVE Shape(rows'[e]) = L
  <2>1. CASE e = c BY <1>3, <1>6, <2>1
  <2>2. CASE e < c BY <1>2, <1>3, <1>4, <1>5, <1>7, <2>2, OrmOrder DEF Trace
  <2> QED BY <1>7, <2>1, <2>2, OrmOrder
<1>8. ASSUME NEW d \in Orm, NEW e \in Orm, Fellows(d, e),
             Fellows(d, c) => c < d /\ c < e
      PROVE  Shape(rows'[d]) = Shape(rows'[e])
  <2>1. d # c /\ e # c BY <1>8, OrmOrder DEF Fellows
  <2>2. SameSide(w, d, e) BY <1>2, <1>8, OrmOrder DEF SameSide
  <2>3. Shape(rows[d]) = Shape(rows[e]) BY <1>8, <2>2 DEF RowsWork
  <2> QED BY <1>3, <2>1, <2>3
<1>9. \A d, e \in Orm : Fellows(d, e) => zones'[d] = zones'[e] BY <1>3 DEF RowsWork
<1>10. \A e \in Orm : Fellows(e, c) => Matches(w, e) BY <1>2, FellowsMatch
<1>11. CASE pc'[w] = "done" /\ \A e \in Orm : e > c => ~Matches(w, e)
  <2>1. ASSUME NEW d \in Orm, NEW e \in Orm, Fellows(d, e)
        PROVE  Shape(rows'[d]) = Shape(rows'[e])
    <3>1. CASE Fellows(d, c)
      <4>1. Fellows(e, c) BY <2>1, <3>1 DEF Fellows
      <4>2. ~(c < d) /\ ~(c < e) BY <1>10, <1>11, <3>1, <4>1, OrmOrder
      <4> QED BY <1>7, <3>1, <4>1, <4>2
    <3>2. CASE ~Fellows(d, c) BY <1>8, <2>1, <3>2
    <3> QED BY <3>1, <3>2
  <2>2. AllAlike' BY <1>9, <2>1 DEF AllAlike
  <2> QED BY <1>11, <2>2 DEF Running
<1>12. ASSUME NEW d \in Orm, pc'[w] = "begin", loc'[w] = LocAt(d, 1, 0), d > c,
              Matches(w, d), \A e \in Orm : e > c /\ Matches(w, e) => d <= e
       PROVE  RowsWork(w)' /\ Matches(w, loc[w].db)'
  <2>1. loc'[w].db = d BY <1>12 DEF LocAt
  <2>2. c < d /\ \A e \in Orm : c < e /\ Matches(w, e) => ~(e < d) BY <1>12, OrmOrder
  <2>3. Matches(w, loc[w].db)' BY <1>3, <1>12, <2>1 DEF Matches
  <2>4. Cmd(w)' = Cmd(w) BY <1>3 DEF Cmd
  <2>5. Plain(w)' BY <1>3, <2>4 DEF RowsWork, Plain, ByItems
  <2>6. ~Fellows(c, d) => \A e \in Orm : Fellows(e, d) => ~(e < d)
    BY <1>2, <1>12, <2>2, NextIsNew, OrmOrder
  <2>7. PICK f : f = [e \in Orm |-> Shape(rows'[e])] OBVIOUS
  <2>8. ASSUME NEW x \in Orm, NEW y \in Orm, Fellows(x, y), SameSide(w, x, y)'
        PROVE  Shape(rows'[x]) = Shape(rows'[y])
    <3>1. Fellows(x, d) => (x < d <=> y < d) BY <2>1, <2>8 DEF SameSide
    <3>2. \A a, b \in Orm :
            /\ Fellows(a, b) /\ Fellows(a, c) /\ ~(c < a) /\ ~(c < b) => f[a] = f[b]
            /\ Fellows(a, b) /\ (Fellows(a, c) => c < a /\ c < b) => f[a] = f[b]
      <4>1. \A a, b : Fellows(a, b) /\ Fellows(a, c) => Fellows(b, c) BY DEF Fellows
      <4> QED BY <1>7, <1>8, <2>7, <4>1
    <3>3. f[x] = f[y] BY <1>2, <2>2, <2>8, <3>1, <3>2, NextSides
    <3> QED BY <2>7, <3>3
  <2>9. Later(w)' => MayBegin(w)'
    <3> SUFFICES ASSUME Later(w)' PROVE MayBegin(w)' OBVIOUS
    <3>1. Fellows(c, d) BY <2>1, <2>6 DEF Later
    <3>2. zones[d] = zones[c] BY <3>1 DEF RowsWork
    <3>3. MayBegin(w) BY <1>1 DEF RowsWork
    <3> QED BY <1>2, <1>3, <2>1, <2>4, <3>2, <3>3 DEF MayBegin
  <2>10. \E g \in [Nat -> SUBSET Row] : Trace(w, g)'
    <3>1. CASE ~Fellows(c, d)
      <4>1. ~Later(w)' BY <2>1, <2>6, <3>1 DEF Later
      <4> QED BY <1>1, <1>3, <1>12, <4>1, FirstTraced
    <3>2. CASE Fellows(c, d)
      <4>1. h[0] = Shape(rows'[d])
        <5>1. SameSide(w, c, d) BY <1>2, <2>2, OrmOrder DEF SameSide
        <5>2. Shape(rows[c]) = Shape(rows[d]) BY <3>2, <5>1 DEF RowsWork
        <5>3. d # c BY <2>2, OrmOrder
        <5> QED BY <1>2, <1>3, <1>4, <5>2, <5>3 DEF Trace
      <4>2. \A i \in DOMAIN recs'[w] : Takes(w, i, h[i-1], h[i])'
        <5>1. DOMAIN recs[w] = 1 .. Len(recs[w]) /\ Len(recs[w]) \in Nat BY <1>1
        <5>2. \A i \in DOMAIN recs[w] : i < loc[w].ri BY <1>6, <5>1
        <5>3. \A i \in DOMAIN recs[w] : Takes(w, i, h[i-1], h[i]) BY <1>4, <5>2 DEF Trace
        <5>4. \A i, S, T : Takes(w, i, S, T)' <=> Takes(w, i, S, T) BY <1>3, Static
        <5> QED BY <1>3, <5>3, <5>4
      <4>3. Settled(w, h)'
        <5>1. Settled(w, h) BY <1>1, <1>4 DEF Trace
        <5> QED BY <1>3, <5>1, Static
      <4>4. ASSUME NEW e \in Orm, e < d, Fellows(e, d)
            PROVE  Shape(rows'[e]) = h[Len(recs'[w])]
        <5>1. Fellows(e, c) BY <3>2, <4>4 DEF Fellows
        <5>2. ~(c < e) BY <1>10, <2>2, <4>4, <5>1
        <5> QED BY <1>3, <1>5, <1>7, <5>1, <5>2
      <4>5. recs'[w] \in Seq(Record) BY <1>1, <1>3
      <4>6. Trace(w, h)' BY <1>3, <1>12, <4>1, <4>2, <4>3, <4>4, <4>5, BeginTraced
      <4> QED BY <4>6
    <3> QED BY <3>1, <3>2
  <2>11. RowsWork(w)' BY <1>9, <1>12, <2>5, <2>8, <2>9, <2>10 DEF RowsWork
  <2> QED BY <2>3, <2>11
<1>13. pc'[w] = "begin" => Running(w)' BY DEF Running
<1> QED BY <1>1, <1>2, <1>11, <1>12, <1>13, NextIsFirst

-----------------------------------------------------------------------------
(* create_domain.                                                          *)

\* Its look-up and its INSERT change no database.
LEMMA ZoneStatements ==
  ASSUME IInv, NEW w \in Handler, Cmd(w) = "create_domain", ZoneWork(w), Work(w)
  PROVE  ZoneWork(w)' /\ Stays(w)
<1>1. FindDomain(w) \/ InsertDomain(w)
  BY DEF Work, BeginRecords, DeletedAll, EndOwner, EndOfRecords, DeleteNextItem, SelectOwned,
         StartDelete, Deletes, DeleteRow, UpdateOwner, CreateRecord, ReplaceInsert, ReadSoa,
         SaveSoa, SoaVanished, InsertSoa, InsertNothing, AtRecord, IInv, Control, Placed,
         Running, Places
<1>2. /\ loc'[w] = loc[w] /\ UNCHANGED <<rows, zones, req, recs>>
      /\ pc'[w] \in {"zone", "commit"}
      /\ pc'[w] = "zone" => zones[loc[w].db][req[w].domain] # "NATIVE"
      /\ pc'[w] = "commit" =>
           zones[loc[w].db][req[w].domain] = "NATIVE" \/ tx'[w].made = {req[w].domain}
  <2>1. CASE FindDomain(w)
    <3>1. /\ pc'[w] = IF zones[loc[w].db][req[w].domain] = "NATIVE" THEN "commit" ELSE "zone"
          /\ loc'[w] = loc[w]
      BY <2>1, GotoMeans DEF FindDomain, IInv
    <3> QED BY <2>1, <3>1 DEF FindDomain, OnlyLoc, database
  <2>2. CASE InsertDomain(w)
    <3>1. pc'[w] = "commit" /\ loc'[w] = loc[w] BY <2>2, GotoMeans DEF InsertDomain, IInv
    <3>2. tx'[w].made = {req[w].domain}
      BY <2>2 DEF InsertDomain, IInv, TypeOK, Tx
    <3> QED BY <2>2, <3>1, <3>2 DEF InsertDomain, OnlyTx, database
  <2> QED BY <1>1, <2>1, <2>2
<1>3. Stays(w) BY <1>2 DEF Stays
<1>4. \A d, e : SameSide(w, d, e)' <=> SameSide(w, d, e) BY <1>2 DEF SameSide, Fellows
<1>5. ZoneWork(w)' BY <1>2, <1>4 DEF ZoneWork, Fellows
<1> QED BY <1>3, <1>5

\* A zone that stands in the way of an INSERT stands in every database.
LEMMA ZoneErrors ==
  ASSUME IInv, NEW w \in Handler, Cmd(w) = "create_domain", ZoneWork(w), Later(w)
  PROVE  ~DomainConflict(w)
<1> SUFFICES ASSUME DomainConflict(w) PROVE FALSE OBVIOUS
<1>1. /\ pc[w] = "zone" /\ zones[loc[w].db][req[w].domain] # "absent"
      /\ loc[w].db \in Orm
  BY DEF DomainConflict, IInv, Control, Placed, Running
<1>2. zones[loc[w].db][req[w].domain] \in ZoneKind
  <2>1. req[w].domain \in DomainName BY LocFields DEF RequestType, IInv
  <2> QED BY <1>1, <2>1 DEF IInv, TypeOK
<1>3. zones[loc[w].db][req[w].domain] = "MASTER" BY <1>1, <1>2 DEF ZoneWork, ZoneKind
<1> QED BY <1>3 DEF Later, ZoneWork

LEMMA FirstZoneIsAlike ==
  ASSUME NEW w, ZoneWork(w), ~Later(w), loc[w].db \in Orm
  PROVE  AllAlike
<1>1. \A d \in Orm : Fellows(d, loc[w].db) => ~(d < loc[w].db) BY DEF Later
<1>2. ASSUME NEW d \in Orm, NEW e \in Orm, Fellows(d, e) PROVE SameSide(w, d, e)
  BY <1>1, <1>2 DEF SameSide, Fellows
<1> QED BY <1>2 DEF AllAlike, ZoneWork

\* Its commit leaves the view's databases up to this one alike, as the others
\* are.
LEMMA ZoneAfterCommit ==
  ASSUME IInv, Adjacent, NEW w \in Handler, Cmd(w) = "create_domain", ZoneWork(w),
         Matches(w, loc[w].db), Commit(w)
  PROVE  IF Running(w)' THEN ZoneWork(w)' /\ Matches(w, loc[w].db)' ELSE AllAlike'
<1>1. /\ TypeOK /\ loc[w].db \in Orm /\ Apply(w) /\ pc[w] = "commit"
      /\ NextDatabase(w, loc[w].db) /\ Running(w)
  BY DEF Commit, IInv, Control, Placed, Running
<1>2. PICK c \in Orm : c = loc[w].db BY <1>1
<1>3. PICK n : n = req[w].domain OBVIOUS
<1> DEFINE N == [zones[c] EXCEPT ![n] = "NATIVE"]
<1>4. rows' = rows
  <2>1. ViewOf(w) = rows[c] BY <1>2 DEF ViewOf, IInv, Control, Placed
  <2> QED BY <1>1, <1>2, <2>1 DEF Apply, TypeOK
<1>5. zones[c][n] # "MASTER" /\ zones'[c] = N /\ \A d \in Orm : d # c => zones'[d] = zones[d]
  <2>1. n \in DomainName BY <1>1, <1>3, LocFields DEF RequestType
  <2>2. \/ tx[w].made = {n} /\ zones[c][n] = "absent"
        \/ tx[w].made = {} /\ zones[c][n] = "NATIVE"
    <3>1. \A m \in tx[w].made : m = n /\ zones[c][m] = "absent"
      BY <1>1, <1>2, <1>3 DEF IInv, Control, Placed, OpenTransactions, Open
    <3>2. zones[c][n] = "NATIVE" \/ tx[w].made = {n} BY <1>1, <1>2, <1>3 DEF ZoneWork
    <3> QED BY <3>1, <3>2
  <2>3. [m \in DomainName |-> IF m \in tx[w].made THEN "NATIVE" ELSE zones[c][m]] = N
    BY <1>1, <2>2 DEF TypeOK
  <2>4. zones' = [zones EXCEPT ![c] = N] BY <1>1, <1>2, <2>3 DEF Apply
  <2> QED BY <1>1, <2>2, <2>4 DEF TypeOK
<1>6. req' = req BY <1>1 DEF Apply
<1>7. PICK M : M = N OBVIOUS
<1> HIDE DEF N
<1>8. ASSUME NEW e \in Orm, Fellows(e, c), ~(c < e) PROVE zones'[e] = M
  <2>1. CASE e = c BY <1>5, <1>7, <2>1
  <2>2. CASE e < c
    <3>1. zones[e] = N BY <1>2, <1>3, <1>8, <2>2 DEF ZoneWork, N
    <3> QED BY <1>5, <1>7, <2>2, <3>1, OrmOrder
  <2> QED BY <1>8, <2>1, <2>2, OrmOrder
<1>9. ASSUME NEW d \in Orm, NEW e \in Orm, Fellows(d, e),
             Fellows(d, c) => c < d /\ c < e
      PROVE  zones'[d] = zones'[e]
  <2>1. d # c /\ e # c BY <1>9, OrmOrder DEF Fellows
  <2>2. SameSide(w, d, e) BY <1>2, <1>9, OrmOrder DEF SameSide
  <2>3. zones[d] = zones[e] BY <1>9, <2>2 DEF ZoneWork
  <2> QED BY <1>5, <2>1, <2>3
<1>10. \A d, e \in Orm : Fellows(d, e) => Shape(rows[d])' = Shape(rows[e])'
  BY <1>4 DEF ZoneWork
<1>11. \A e \in Orm : Fellows(e, c) => Matches(w, e) BY <1>2, FellowsMatch
<1>12. CASE pc'[w] = "done" /\ \A e \in Orm : e > c => ~Matches(w, e)
  <2>1. ASSUME NEW d \in Orm, NEW e \in Orm, Fellows(d, e) PROVE zones'[d] = zones'[e]
    <3>1. CASE Fellows(d, c)
      <4>1. Fellows(e, c) BY <2>1, <3>1 DEF Fellows
      <4>2. ~(c < d) /\ ~(c < e) BY <1>11, <1>12, <3>1, <4>1, OrmOrder
      <4> QED BY <1>8, <3>1, <4>1, <4>2
    <3>2. CASE ~Fellows(d, c) BY <1>9, <2>1, <3>2
    <3> QED BY <3>1, <3>2
  <2>2. AllAlike' BY <1>10, <2>1 DEF AllAlike, Fellows
  <2> QED BY <1>12, <2>2 DEF Running
<1>13. ASSUME NEW d \in Orm, pc'[w] = "begin", loc'[w] = LocAt(d, 1, 0), d > c,
              Matches(w, d), \A e \in Orm : e > c /\ Matches(w, e) => d <= e
       PROVE  ZoneWork(w)' /\ Matches(w, loc[w].db)'
  <2>1. loc'[w].db = d BY <1>13 DEF LocAt
  <2>2. c < d /\ \A e \in Orm : c < e /\ Matches(w, e) => ~(e < d) BY <1>13, OrmOrder
  <2>3. Matches(w, loc[w].db)' BY <1>6, <1>13, <2>1 DEF Matches
  <2>4. ~Fellows(c, d) => \A e \in Orm : Fellows(e, d) => ~(e < d)
    BY <1>13, <2>2, NextIsNew
  <2>5. PICK f : f = zones' OBVIOUS
  <2>6. ASSUME NEW x \in Orm, NEW y \in Orm, Fellows(x, y), SameSide(w, x, y)'
        PROVE  zones'[x] = zones'[y]
    <3>1. Fellows(x, d) => (x < d <=> y < d) BY <2>1, <2>6 DEF SameSide, Fellows
    <3>2. \A a, b \in Orm :
            /\ Fellows(a, b) /\ Fellows(a, c) /\ ~(c < a) /\ ~(c < b) => f[a] = f[b]
            /\ Fellows(a, b) /\ (Fellows(a, c) => c < a /\ c < b) => f[a] = f[b]
      <4>1. \A a, b : Fellows(a, b) /\ Fellows(a, c) => Fellows(b, c) BY DEF Fellows
      <4> QED BY <1>8, <1>9, <2>5, <4>1
    <3>3. f[x] = f[y] BY <1>2, <2>2, <2>6, <3>1, <3>2, NextSides
    <3> QED BY <2>5, <3>3
  <2>7. ASSUME NEW e \in Orm, e < d, Fellows(e, d)
        PROVE  zones'[e] = [zones'[d] EXCEPT ![n] = "NATIVE"] /\ zones'[d][n] # "MASTER"
    <3>1. Fellows(c, d) BY <2>4, <2>7
    <3>2. Fellows(e, c) /\ ~(c < e) BY <1>11, <2>2, <2>7, <3>1 DEF Fellows
    <3>3. SameSide(w, c, d) BY <1>2, <2>2, OrmOrder DEF SameSide
    <3>4. zones[c] = zones[d] BY <3>1, <3>3 DEF ZoneWork
    <3>5. d # c BY <2>2, OrmOrder
    <3>6. zones'[d] = zones[c] BY <1>5, <3>4, <3>5
    <3> QED BY <1>5, <1>7, <1>8, <3>2, <3>6 DEF N
  <2>8. ZoneWork(w)' BY <1>3, <1>6, <1>10, <1>13, <2>1, <2>6, <2>7 DEF ZoneWork, Fellows
  <2> QED BY <2>3, <2>8
<1>14. pc'[w] = "begin" => Running(w)' BY DEF Running
<1> QED BY <1>1, <1>2, <1>12, <1>13, <1>14, NextIsFirst

-----------------------------------------------------------------------------
(* The steps of the program.                                               *)

\* A list of data for a DELETE names no MX, SRV or SOA.
PlainRequests ==
  \A q \in Request : \A i \in DOMAIN q.recs :
    q.cmd = "delete_record" /\ q.recs[i].data # <<>> =>
      q.recs[i].type \notin {"MX", "SRV", "SOA"}

\* A request is taken up where the databases of every view are alike.
LEMMA DeliverSynced ==
  ASSUME IInv, IInv', PlainRequests, NEW w \in Handler, ~Running(w), AllAlike, Deliver(w)
  PROVE  IF Running(w)' THEN Matches(w, loc[w].db)' /\ Synced(w)' ELSE AllAlike'
<1>1. /\ TypeOK /\ NextDatabase(w, 0) /\ tx'[w] = NoTx /\ req' = req
      /\ rows' = rows /\ zones' = zones /\ recs'[w] = WithTtl(req[w])
  BY DEF Deliver, database, IInv, Control, Placed, TypeOK
<1>2. recs'[w] \in Seq(Record) /\ rows' \in [Orm -> SUBSET Row] BY DEF IInv, TypeOK
<1>3. Cmd(w)' = Cmd(w) BY <1>1 DEF Cmd
<1>4. Plain(w)'
  <2>1. req[w] \in Request /\ req[w] \in RequestType BY <1>1, LocFields DEF TypeOK
  <2>2. ASSUME Cmd(w) = "delete_record", NEW i \in DOMAIN recs'[w], recs'[w][i].data # <<>>
        PROVE  recs'[w][i].type \notin {"MX", "SRV", "SOA"}
    <3> DEFINE q == req[w]
    <3>1. recs'[w] = [j \in DOMAIN q.recs |->
                        [q.recs[j] EXCEPT !.ttl = IF @ = 0 THEN DefaultTtl ELSE @]]
      BY <1>1, <2>2 DEF WithTtl, Cmd
    <3>2. i \in DOMAIN q.recs /\ q.recs[i] \in Record BY <2>1, <2>2, <3>1 DEF RequestType
    <3>3. recs'[w][i].data = q.recs[i].data /\ recs'[w][i].type = q.recs[i].type
      BY <3>1, <3>2 DEF Record
    <3> QED BY <2>1, <2>2, <3>2, <3>3 DEF PlainRequests, Cmd
  <2> QED BY <1>3, <2>2 DEF Plain, ByItems
<1>5. CASE pc'[w] = "done" BY <1>1, <1>5 DEF Running, AllAlike
<1>6. ASSUME NEW d \in Orm, pc'[w] = "begin", loc'[w] = LocAt(d, 1, 0), Matches(w, d),
             \A e \in Orm : e > 0 /\ Matches(w, e) => d <= e
      PROVE  Matches(w, loc[w].db)' /\ Synced(w)'
  <2>1. loc'[w].db = d BY <1>6 DEF LocAt
  <2>2. Matches(w, loc[w].db)' BY <1>1, <1>6, <2>1 DEF Matches
  <2>3. \A e \in Orm : Fellows(e, d) => ~(e < d)
    <3>1. \A e \in Orm : e > 0
      <4>1. DbView \in Seq(View) BY OrmAssumption DEF OrmAssumption
      <4> QED BY <4>1 DEF Orm
    <3>2. \A e \in Orm : Fellows(e, d) => d <= e BY <1>6, <3>1, FellowsMatch
    <3> QED BY <3>2, OrmOrder
  <2>4. ~Later(w)' BY <2>1, <2>3 DEF Later
  <2>5. \E h \in [Nat -> SUBSET Row] : Trace(w, h)' BY <1>1, <1>2, <1>6, <2>4, FirstTraced
  <2>6. RowsWork(w)' BY <1>1, <1>4, <1>6, <2>4, <2>5 DEF RowsWork, AllAlike
  <2>7. ZoneWork(w)' BY <1>1, <1>6, <2>1, <2>3 DEF ZoneWork, AllAlike
  <2> QED BY <2>2, <2>6, <2>7 DEF Synced
<1>7. pc'[w] = "begin" => Running(w)' BY DEF Running
<1> QED BY <1>1, <1>5, <1>6, <1>7, NextIsFirst

\* A statement that does not fail does not end the request.
LEMMA WorkRuns == ASSUME TypeOK, NEW w \in Handler, Work(w) PROVE Running(w)'
<1>1. \A p, l : Goto(w, p, l) => pc'[w] = p BY GotoMeans
<1> QED
  BY <1>1
  DEF Work, FindDomain, InsertDomain, BeginRecords, CreateRecord, StartDelete, DeleteRow,
      DeleteNextItem, DeletedAll, ReplaceInsert, SelectOwned, UpdateOwner, EndOwner,
      EndOfRecords, ReadSoa, SaveSoa, SoaVanished, InsertSoa, InsertNothing, NextRecord,
      Running

\* A step that leaves w where it is.
LEMMA SyncedStays ==
  ASSUME NEW w \in Handler, Synced(w), UNCHANGED <<rows, zones, tx, req, recs, pc, loc>>
  PROVE  Synced(w)'
<1>1. Stays(w) /\ Cmd(w)' = Cmd(w) /\ ViewOf(w)' = ViewOf(w) BY DEF Stays, Cmd, ViewOf
<1>2. CASE Cmd(w) # "create_domain"
  <2>1. RowsWork(w) BY <1>2 DEF Synced
  <2>2. PICK h \in [Nat -> SUBSET Row] : Trace(w, h) BY <2>1 DEF RowsWork
  <2>3. PICK A : A = h[loc[w].ri - 1] /\ During(w, A) /\ Counts(w, A, h[0])
    BY <2>2 DEF Trace
  <2>4. During(w, A)'
    <3>1. Shape(ViewOf(w))' = Shape(ViewOf(w)) BY <1>1
    <3>2. Shape(ViewOf(w) \ loc[w].cand)' = Shape(ViewOf(w) \ loc[w].cand) BY <1>1
    <3>3. \A S : Handed(w, S)' = Handed(w, S) BY Static
    <3>4. Shape((ViewOf(w) \ loc[w].cand) \cup Handed(w, loc[w].cand))' =
            Shape((ViewOf(w) \ loc[w].cand) \cup Handed(w, loc[w].cand))
      BY <1>1, <3>3
    <3>5. /\ \A i, k, S : Past(w, i, k, S)' = Past(w, i, k, S)
          /\ \A i, S : Able(w, i, S)' <=> Able(w, i, S)
          /\ \A i, S : Effect(w, i, S)' = Effect(w, i, S)
      BY Static
    <3> QED BY <1>1, <2>3, <3>1, <3>2, <3>4, <3>5 DEF During
  <2>5. Counts(w, A, h[0])'
    <3>1. Shape(ViewOf(w))' = Shape(ViewOf(w)) BY <1>1
    <3>2. Shape(ViewOf(w) \ loc[w].cand)' = Shape(ViewOf(w) \ loc[w].cand) BY <1>1
    <3>3. \A i, s : Named(w, i, s)' <=> Named(w, i, s) BY Static
    <3> QED BY <1>1, <2>3, <3>1, <3>2, <3>3 DEF Counts
  <2>6. Trace(w, h)' BY <1>1, <2>2, <2>3, <2>4, <2>5, StillTraced
  <2>7. pc'[w] = pc[w] OBVIOUS
  <2>8. RowsWork(w)' BY <1>1, <2>1, <2>6, <2>7, RowsStay
  <2> QED BY <1>1, <1>2, <2>8 DEF Synced
<1>3. CASE Cmd(w) = "create_domain"
  <2>1. \A d, e : SameSide(w, d, e)' <=> SameSide(w, d, e) BY DEF SameSide, Fellows
  <2> QED BY <1>1, <1>3, <2>1 DEF Synced, ZoneWork, Fellows
<1> QED BY <1>2, <1>3

\* One step of the only handler.
LEMMA HandleSynced ==
  ASSUME IInv, Adjacent, NEW w \in Handler, Running(w), Tidy(w), Mine(w),
         \A v \in Handler \ {w} : ~Running(v), Matches(w, loc[w].db), Synced(w), Handle(w)
  PROVE  ~Panic(w) /\ IF Running(w)' THEN Matches(w, loc[w].db)' /\ Synced(w)' ELSE AllAlike'
<1>1. TypeOK /\ loc[w].db \in Orm BY DEF IInv, Control, Placed
<1>2. ~Panic(w)
  <2>1. Deletes(w) => Cmd(w) # "create_domain" BY DEF Deletes, AtRecord
  <2> QED BY <2>1, PlainIsCalm DEF Panic, Synced
<1>3. req' = req => Cmd(w)' = Cmd(w) BY DEF Cmd
<1>4. CASE Work(w)
  <2>1. Stays(w) /\ Synced(w)'
    BY <1>3, <1>4, StatementsTraced, ZoneStatements DEF Synced, Stays
  <2>2. Matches(w, loc[w].db)' BY <2>1 DEF Stays, Matches
  <2> QED BY <1>1, <1>2, <1>4, <2>1, <2>2, WorkRuns
<1>5. CASE Commit(w)
  <2>1. req' = req BY <1>5 DEF Commit, Apply
  <2> QED BY <1>2, <1>3, <1>5, <2>1, RowsAfterCommit, ZoneAfterCommit DEF Synced
<1>6. CASE Fail(w) /\ ~Later(w)
  <2>1. AllAlike BY <1>1, <1>6, FirstIsAlike, FirstZoneIsAlike DEF Synced
  <2>2. rows' = rows /\ zones' = zones /\ pc'[w] = "done" BY <1>1, <1>6, FailMeans
  <2>3. AllAlike' BY <2>1, <2>2 DEF AllAlike
  <2> QED BY <1>2, <2>2, <2>3 DEF Running
<1>7. ~DeadlockAbort(w)
  <2>1. \A v \in Handler \ {w} : tx[v].locked = {}
    BY DEF IInv, Control, Placed, NoTx
  <2>2. WaitsFor(w) = {} BY <2>1 DEF WaitsFor, LockedByOther
  <2>3. ~InCycle(w) BY <2>2 DEF InCycle
  <2> QED BY <2>3 DEF DeadlockAbort
<1>8. ASSUME Handle(w), ~Work(w), ~Commit(w) PROVE Fail(w) /\ ~Later(w)
  <2>1. CASE \/ CannotBegin(w) \/ EmptyData(w) \/ CreateConflict(w) \/ ReplaceMissing(w)
             \/ NothingOwned(w) \/ NoSoa(w) \/ InsertConflict(w)
    <3>1. Cmd(w) # "create_domain"
      BY <2>1 DEF CannotBegin, EmptyData, CreateConflict, ReplaceMissing, NothingOwned,
         NoSoa, InsertConflict, AtRecord, IInv, Control, Placed, Places
    <3>2. Fail(w)
      BY <2>1 DEF CannotBegin, EmptyData, CreateConflict, ReplaceMissing, NothingOwned,
         NoSoa, InsertConflict
    <3> QED BY <2>1, <3>1, <3>2, LaterTakes DEF Synced
  <2>2. CASE DomainConflict(w)
    <3>1. Cmd(w) = "create_domain"
      BY <2>2 DEF DomainConflict, IInv, Control, Placed, Places, Command, TypeOK
    <3> QED BY <2>2, <3>1, ZoneErrors DEF Synced, DomainConflict
  <2> QED BY <1>2, <1>7, <1>8, <2>1, <2>2 DEF Handle, Work
<1> QED BY <1>4, <1>5, <1>6, <1>8

\* Every step keeps the databases of a view as far as they have come.
LEMMA ReplicasStep ==
  ASSUME MaxInFlight = 1, MaxFaults = 0, Adjacent, PlainRequests,
         IInv, OInv, RInv, IInv', [Next]_vars
  PROVE  RInv'
<1>1. /\ TypeOK /\ Alone /\ \A v \in Handler : Running(v) => Tidy(v) /\ Mine(v)
      /\ (\A v \in Handler : ~Running(v)) => AllAlike
      /\ \A v \in Handler : Running(v) => Matches(v, loc[v].db) /\ Synced(v)
  BY DEF IInv, OInv, RInv
<1>2. ASSUME NEW w \in Handler, \A v \in Handler \ {w} : ~Running(v) /\ pc'[v] = pc[v],
             IF Running(w)' THEN Matches(w, loc[w].db)' /\ Synced(w)' ELSE AllAlike'
      PROVE  RInv'
  <2>1. \A v \in Handler \ {w} : ~Running(v)' BY <1>2 DEF Running
  <2>2. \A v \in Handler : Running(v)' => v = w BY <2>1
  <2> QED BY <1>2, <2>2 DEF RInv
<1>3. ASSUME NEW w \in Handler, Deliver(w) PROVE RInv'
  <2>1. \A v \in Handler : ~Running(v) BY <1>1, <1>3, TakenUpAlone DEF Deliver
  <2>2. \A v \in Handler \ {w} : pc'[v] = pc[v]
    BY <1>1, <1>3, NextDatabaseMeans DEF Deliver
  <2> QED BY <1>1, <1>2, <1>3, <2>1, <2>2, DeliverSynced
<1>4. ASSUME NEW w \in Handler, RejectSerial(w) PROVE RInv'
  <2>1. \A v \in Handler : ~Running(v) BY <1>1, <1>4, TakenUpAlone DEF RejectSerial
  <2>2. /\ rows' = rows /\ zones' = zones /\ pc'[w] = "done"
        /\ \A v \in Handler \ {w} : pc'[v] = pc[v]
    BY <1>1, <1>4, FailMeans DEF RejectSerial, OthersKeep
  <2>3. ~Running(w)' BY <2>2 DEF Running
  <2>4. AllAlike' BY <1>1, <2>1, <2>2 DEF AllAlike
  <2> QED BY <1>2, <2>1, <2>2, <2>3, <2>4
<1>5. ASSUME NEW w \in Handler, Handle(w) PROVE RInv'
  <2>1. Running(w)
    BY <1>5
    DEF Handle, FindDomain, InsertDomain, DomainConflict, BeginRecords, CannotBegin,
        EmptyData, CreateRecord, CreateConflict, StartDelete, Deletes, AtRecord, DeleteRow,
        DeleteNextItem, DeletedAll, ReplaceInsert, ReplaceMissing, SelectOwned,
        NothingOwned, UpdateOwner, EndOwner, EndOfRecords, ReadSoa, NoSoa, SaveSoa,
        SoaVanished, InsertSoa, InsertNothing, InsertConflict, Commit, DeadlockAbort,
        Panic, Running
  <2>2. \A v \in Handler \ {w} : ~Running(v) BY <1>1, <2>1 DEF Alone
  <2>3. ~Panic(w) /\ IF Running(w)' THEN Matches(w, loc[w].db)' /\ Synced(w)' ELSE AllAlike'
    BY <1>1, <1>5, <2>1, <2>2, HandleSynced
  <2>4. \A v \in Handler \ {w} : pc'[v] = pc[v] BY <1>5, <2>3, PlacedHandle DEF OthersKeep
  <2> QED BY <1>2, <2>2, <2>3, <2>4
<1>6. ~Fault BY <1>1 DEF Fault, TypeOK
<1>7. CASE Tick \/ UNCHANGED vars
  <2>1. UNCHANGED <<rows, zones, tx, req, recs, pc, loc>> BY <1>7 DEF Tick, vars, database
  <2>2. \A v \in Handler : Running(v)' <=> Running(v) BY <2>1 DEF Running
  <2>3. \A v \in Handler : Synced(v) => Synced(v)' BY <2>1, SyncedStays
  <2>4. \A v \in Handler : Matches(v, loc[v].db) => Matches(v, loc[v].db)'
    BY <2>1 DEF Matches
  <2>5. AllAlike => AllAlike' BY <2>1 DEF AllAlike
  <2> QED BY <1>1, <2>2, <2>3, <2>4, <2>5 DEF RInv
<1> QED
  BY <1>3, <1>4, <1>5, <1>6, <1>7
  DEF Next, Terminated, ConnectionLost, CommitLost, Crash

-----------------------------------------------------------------------------
(* What the databases of a view answer.                                    *)

\* A row's figure gives the row's answer.
LEMMA FigureAnswers ==
  ASSUME NEW x \in Row, x.type # "SOA" PROVE Answer(x) = Answer(Figure(x))
BY DEF Answer, Figure, Row

LEMMA AlikeAgree ==
  ASSUME TypeOK, NEW d \in Orm, NEW e \in Orm, Shape(rows[d]) \subseteq Shape(rows[e]),
         NEW n \in DomainName
  PROVE  Answers(d, n) \subseteq Answers(e, n)
<1> SUFFICES ASSUME NEW a \in Answers(d, n) PROVE a \in Answers(e, n) OBVIOUS
<1>1. PICK x \in rows[d] : x.domain = n /\ x.type # "SOA" /\ a = Answer(x)
  BY DEF Answers, Answer
<1>2. PICK y \in rows[e] : Figure(y) = Figure(x) BY DEF Shape
<1>3. x \in Row /\ y \in Row BY DEF TypeOK
<1>4. y.domain = n /\ y.type # "SOA" BY <1>1, <1>2, <1>3, FigureMeans
<1>5. a = Answer(y) BY <1>1, <1>2, <1>3, <1>4, FigureAnswers
<1> QED BY <1>4, <1>5 DEF Answers, Answer

\* README.md:10's "a few databases in one request": the databases of one view
\* hold the same zones and answer alike whenever no request is being handled.
\* Each database commits on its own (orm.go:544), so it takes requests that do
\* not overlap, nothing that fails by itself, and a view's databases side by
\* side in the configuration; and no delete may name, by its data, an MX or SRV,
\* which the first database strips (orm.go:383), or an SOA, whose serial every
\* database draws for itself (orm.go:484).
THEOREM ReplicasWithoutOverlap ==
  ASSUME MaxInFlight = 1, MaxFaults = 0, Adjacent, PlainRequests,
         \A s \in InitialStore :
           /\ \A d \in Orm : Single(s.rows[d])
           /\ \A d, e \in Orm : DbView[d] = DbView[e] =>
                s.zones[d] = s.zones[e] /\ Shape(s.rows[d]) = Shape(s.rows[e])
  PROVE  Spec => []ReplicasAgree
<1>1. Init => RInv
  <2> SUFFICES ASSUME Init PROVE RInv OBVIOUS
  <2>1. \A w \in Handler : ~Running(w) BY DEF Init, Running
  <2>2. PICK s \in InitialStore : zones = s.zones /\ rows = s.rows BY DEF Init
  <2>3. AllAlike BY <2>2 DEF AllAlike, Fellows
  <2> QED BY <2>1, <2>3 DEF RInv
<1>2. IInv /\ OInv /\ RInv /\ IInv' /\ [Next]_vars => RInv' BY ReplicasStep
<1>3. IInv /\ RInv => ReplicasAgree
  <2> SUFFICES ASSUME IInv, RInv, InFlight = {}, NEW d \in Orm, NEW e \in Orm,
                      DbView[d] = DbView[e], NEW n \in DomainName
               PROVE  zones[d][n] = zones[e][n] /\ Answers(d, n) = Answers(e, n)
    BY DEF ReplicasAgree
  <2>1. AllAlike BY DEF RInv, InFlight
  <2>2. zones[d] = zones[e] /\ Shape(rows[d]) = Shape(rows[e])
    BY <2>1 DEF AllAlike, Fellows
  <2>3. Answers(d, n) \subseteq Answers(e, n) /\ Answers(e, n) \subseteq Answers(d, n)
    BY <2>2, AlikeAgree DEF IInv
  <2> QED BY <2>2, <2>3
<1>4. Spec => [](IInv /\ OInv) BY OrderInvariance
<1> QED BY <1>1, <1>2, <1>3, <1>4, PTL DEF Spec
=============================================================================
