----------------------------- MODULE HttpPromise -----------------------------
(***************************************************************************)
(* What the HTTP gateway promises.  A call is taken apart into the parts   *)
(* that are sent to the server, and answered once: the answer names as     *)
(* done only parts that were applied, and all of them when it is SUCCESS;  *)
(* of a call that is turned away nothing is ever applied.  A part may be   *)
(* applied after the answer: an ERROR does not say that nothing was done.  *)
(***************************************************************************)
CONSTANTS
  Http,      \* calls of the HTTP interface
  Part,      \* what a call may be taken apart into
  NoAnswer

VARIABLES
  parts,     \* parts[h]: what call h asks for
  applied,   \* applied[h]: the parts that the server has applied
  told       \* told[h]: the answer, [status |-> ..., good |-> <parts it says are done>]

TurnedAway == {"refused", "null", "aborted"}
Answer == [status : TurnedAway \cup {"SUCCESS", "MERGED", "ERROR"}, good : SUBSET Part]

Init ==
  /\ parts = [h \in Http |-> {}] /\ applied = [h \in Http |-> {}]
  /\ told = [h \in Http |-> NoAnswer]

Ask(h, P) ==
  /\ parts[h] = {} /\ told[h] = NoAnswer
  /\ parts' = [parts EXCEPT ![h] = P]
  /\ UNCHANGED <<applied, told>>

Apply(h, p) ==
  /\ p \in parts[h]
  /\ told[h] # NoAnswer => told[h].status \notin TurnedAway
  /\ applied' = [applied EXCEPT ![h] = @ \cup {p}]
  /\ UNCHANGED <<parts, told>>

Tell(h, a) ==
  /\ told[h] = NoAnswer /\ told' = [told EXCEPT ![h] = a]
  /\ a.good \subseteq applied[h]
  /\ a.status = "SUCCESS" => a.good = parts[h]
  /\ a.status = "MERGED" => a.good # {} /\ a.good # parts[h]
  /\ a.status \in TurnedAway => applied[h] = {}
  /\ UNCHANGED <<parts, applied>>

Next ==
  \E h \in Http :
    \/ \E P \in SUBSET Part : Ask(h, P)
    \/ \E p \in parts[h] : Apply(h, p)
    \/ \E a \in Answer : Tell(h, a)

Spec == Init /\ [][Next]_<<parts, applied, told>>
=============================================================================
