--------------------------- MODULE SignatureWindow ---------------------------
(***************************************************************************)
(* The time in a request's signature.  A client signs the start of the     *)
(* period it is in (30 seconds); auth.go's checkAuthentication looks for   *)
(* that start among those up to Window periods around its own: it tries    *)
(* one shift after another, and reads the clock anew for each of them, so  *)
(* that a period may begin between two tries.                              *)
(*                                                                         *)
(* The secret is right: a wrong one matches no shift.                      *)
(***************************************************************************)
EXTENDS Integers

CONSTANTS
  Window,    \* how many periods a clock may be off (900 s: 30)
  MaxTime    \* bound: the last period

ASSUME WindowAssumption == Window \in Nat /\ MaxTime \in Nat

VARIABLES
  now,       \* the period of the server's clock
  stamp,     \* the period that was signed
  shift,     \* the shift the loop tries next
  verdict,   \* what the check has come to
  began      \* history: the period in which the check began

vars == <<now, stamp, shift, verdict, began>>

TypeOK ==
  /\ now \in Nat /\ stamp \in Nat /\ began \in Nat
  /\ shift \in -Window .. Window + 1
  /\ verdict \in {"none", "accepted", "rejected"}

Init ==
  /\ now \in 0 .. MaxTime /\ stamp \in 0 .. MaxTime
  /\ began = now
  /\ shift = -Window
  /\ verdict = "none"

\* createVariodicHash(request, shift), compared with the request's sum.
Matches == now + shift = stamp

\* Variant of Try: the loop runs one shift too far.
TryPastLast ==
  /\ verdict = "none" /\ shift <= Window + 1
  /\ IF Matches THEN verdict' = "accepted" /\ shift' = shift
     ELSE shift' = shift + 1 /\ verdict' = verdict
  /\ UNCHANGED <<now, stamp, began>>

Try ==
  /\ verdict = "none" /\ shift <= Window
  /\ IF Matches THEN verdict' = "accepted" /\ shift' = shift
     ELSE shift' = shift + 1 /\ verdict' = verdict
  /\ UNCHANGED <<now, stamp, began>>

\* Variant of GiveUp: the loop ends before its last shift.
GiveUpEarly ==
  /\ verdict = "none" /\ shift >= Window
  /\ verdict' = "rejected"
  /\ UNCHANGED <<now, stamp, shift, began>>

GiveUp ==
  /\ verdict = "none" /\ shift > Window
  /\ verdict' = "rejected"
  /\ UNCHANGED <<now, stamp, shift, began>>

\* Only what happens during the check matters to it.
Tick ==
  /\ verdict = "none" /\ now < MaxTime /\ now' = now + 1
  /\ UNCHANGED <<stamp, shift, verdict, began>>

Next == Try \/ GiveUp \/ Tick

Spec == Init /\ [][Next]_vars

Around(t) == stamp - t \in -Window .. Window

\* A request is accepted only if it was signed within the window around some
\* moment of its check, however the clock moves meanwhile.
AcceptsOnlyFresh ==
  verdict = "accepted" => \E t \in began .. now : Around(t)

\* A request that was signed within the window is turned down only if a new
\* period began during its check, which makes the loop skip one.
RejectsOnlyStale ==
  verdict = "rejected" => ~Around(began) \/ now > began

\* The shifts tried in the first period have not matched.
Tried == now = began /\ verdict # "accepted" => \A i \in -Window .. shift - 1 : now + i # stamp

IInv ==
  /\ TypeOK /\ now >= began /\ Tried
  /\ verdict = "rejected" => shift > Window
  /\ AcceptsOnlyFresh
=============================================================================
