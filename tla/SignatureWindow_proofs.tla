----------------------- MODULE SignatureWindow_proofs -----------------------
(***************************************************************************)
(* SignatureWindow keeps its promises for every window and every clock.    *)
(***************************************************************************)
EXTENDS SignatureWindow, TLAPS

\* The inductive invariant holds when a check begins.
LEMMA InitWindow == Init => IInv
BY WindowAssumption DEF Init, IInv, TypeOK, Tried, AcceptsOnlyFresh

\* It outlives every step of the check and of the clock.
LEMMA StepWindow == IInv /\ [Next]_vars => IInv'
<1> SUFFICES ASSUME IInv, [Next]_vars PROVE IInv'
  OBVIOUS
<1> USE WindowAssumption DEF IInv, TypeOK
<1>1. CASE Try
  <2>1. CASE Matches
    <3>1. Around(now)
      BY <1>1, <2>1 DEF Try, Matches, Around
    <3> QED BY <1>1, <2>1, <3>1 DEF Try, Tried, AcceptsOnlyFresh, Around
  <2>2. CASE ~Matches
    <3>1. Tried'
      BY <1>1, <2>2 DEF Try, Tried, Matches
    <3> QED BY <1>1, <2>2, <3>1 DEF Try, AcceptsOnlyFresh
  <2> QED BY <2>1, <2>2
<1>2. CASE GiveUp
  BY <1>2 DEF GiveUp, Tried, AcceptsOnlyFresh
<1>3. CASE Tick
  <2>1. verdict = "accepted" => \E t \in began .. now' : Around(t)
    BY <1>3 DEF Tick, AcceptsOnlyFresh
  <2> QED BY <1>3, <2>1 DEF Tick, Tried, AcceptsOnlyFresh, Around
<1>4. CASE UNCHANGED vars
  BY <1>4 DEF vars, Tried, AcceptsOnlyFresh, Around
<1> QED BY <1>1, <1>2, <1>3, <1>4 DEF Next

\* The loop of checkAuthentication never tries a period past its last one.
THEOREM WindowTypeCorrect == Spec => []TypeOK
<1>1. IInv => TypeOK
  BY DEF IInv
<1> QED BY <1>1, InitWindow, StepWindow, PTL DEF Spec

\* checkAuthentication accepts no request that was signed outside the window.
THEOREM Freshness == Spec => []AcceptsOnlyFresh
<1>1. IInv => AcceptsOnlyFresh
  BY DEF IInv
<1> QED BY <1>1, InitWindow, StepWindow, PTL DEF Spec

\* Only a period that begins during the check makes it miss a fresh request.
THEOREM Rejections == Spec => []RejectsOnlyStale
<1>1. IInv => RejectsOnlyStale
  <2> SUFFICES ASSUME IInv, verdict = "rejected", Around(began), ~(now > began)
               PROVE FALSE
    BY DEF RejectsOnlyStale
  <2>1. now = began /\ shift > Window
    BY DEF IInv, TypeOK
  <2>2. stamp - began \in -Window .. shift - 1
    BY <2>1, WindowAssumption DEF IInv, TypeOK, Around
  <2> QED BY <2>1, <2>2, WindowAssumption DEF IInv, TypeOK, Tried
<1> QED BY <1>1, InitWindow, StepWindow, PTL DEF Spec
=============================================================================
