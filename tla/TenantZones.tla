---------------------------- MODULE TenantZones ----------------------------
(***************************************************************************)
(* What wunderdns keeps of README.md's "if you create a record, nobody     *)
(* else can change it", told of the committed contents of the databases    *)
(* and of the handovers that are being asked for.                          *)
(*                                                                         *)
(* A row disappears only in an edit by the token that owns it; a row that  *)
(* appears belongs to the token that made the edit; an edit changes none   *)
(* of the rows that stay but the content of one SOA, whose owner it keeps. *)
(* A row changes hands only as its owner has asked: to the token it named, *)
(* by a handover that makes or drops no row.  The promise is weaker than   *)
(* README.md's in one point: a token may have lost the row since it asked, *)
(* and its handover then takes the row from the token that has it now.     *)
(* A zone that is there is never made anew.                                *)
(***************************************************************************)
EXTENDS Integers

CONSTANTS
  Database,    \* the databases
  DomainName,  \* names of zones
  Token,       \* the tenants
  NoOwner      \* the owner of a row that was not created through the API

VARIABLES
  zones,       \* zones[d][z]: the kind of zone z in database d, or "absent"
  rows,        \* rows[d]: the set of rows of database d
  asked        \* the handovers asked for, and neither made nor given up

tzVars == <<zones, rows, asked>>

\* Token t asks that row id of database d be token u's.
Wish(d, id, t, u) == [db |-> d, id |-> id, from |-> t, to |-> u]

Vanished(d) == {r \in rows[d] : \A y \in rows'[d] : y.id # r.id}
Appeared(d) == {y \in rows'[d] : \A r \in rows[d] : r.id # y.id}
Changed(d)  == {c \in rows[d] \X rows'[d] : c[1].id = c[2].id /\ c[1] # c[2]}

OnlyIn(d) == \A e \in Database \ {d} : rows'[e] = rows[e] /\ zones'[e] = zones[e]

Restamped(r, y) == r.type = "SOA" /\ y = [r EXCEPT !.content = y.content]

TZInit ==
  /\ \A d \in Database : \A r, y \in rows[d] : r.id = y.id => r = y
  /\ asked = {}

\* A token asks for rows that are its own.
AskFor(d, t, u) ==
  /\ asked \subseteq asked'
  /\ \A a \in asked' \ asked :
       \E r \in rows[d] : r.owner = t /\ a = Wish(d, r.id, t, u)
  /\ UNCHANGED <<zones, rows>>

\* Token t edits zone z.  gorm may insert an SOA that was replaced meanwhile.
Edit(d, t, z) ==
  /\ \A r \in Vanished(d) : r.domain = z /\ r.owner = t
  /\ \A y \in Appeared(d) :
       /\ y.domain = z
       /\ \/ y.owner = t
          \/ y.type = "SOA" /\ y.owner = NoOwner
  /\ \A c \in Changed(d) : c[1].domain = z /\ Restamped(c[1], c[2])
  /\ \A c, b \in Changed(d) : c = b
  /\ OnlyIn(d) /\ zones' = zones

\* Token t's rows become token u's, as t has asked; their owners may be others
\* by now.
Handover(d, t, u) ==
  /\ Vanished(d) = {} /\ Appeared(d) = {}
  /\ \A c \in Changed(d) :
       /\ Wish(d, c[1].id, t, u) \in asked
       /\ c[1].owner # NoOwner
       /\ \/ c[2] = [c[1] EXCEPT !.owner = u]
          \/ Restamped([c[1] EXCEPT !.owner = u], c[2])
  /\ OnlyIn(d) /\ zones' = zones

AddZone(d, z) ==
  /\ zones[d][z] = "absent" /\ zones' = [zones EXCEPT ![d][z] = "NATIVE"]
  /\ rows' = rows

\* In any other step nothing more is asked for; what was may be given up.
NoMoreAsked == asked' \subseteq asked

TZNext ==
  \/ \E d \in Database, t, u \in Token : AskFor(d, t, u)
  \/ /\ NoMoreAsked
     /\ \/ UNCHANGED <<zones, rows>>
        \/ \E d \in Database :
             \/ \E t \in Token, z \in DomainName : Edit(d, t, z)
             \/ \E t, u \in Token : Handover(d, t, u)
             \/ \E z \in DomainName : AddZone(d, z)

TZSpec == TZInit /\ [][TZNext]_tzVars
=============================================================================
