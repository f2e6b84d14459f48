------------------------- MODULE HttpGateway_proofs -------------------------
(***************************************************************************)
(* Proofs about HttpGateway, for any number of calls, parts and consumers, *)
(* whatever the calls ask for: the gateway keeps what HttpPromise says.    *)
(***************************************************************************)
EXTENDS HttpGateway, AmqpServer_proofs

-----------------------------------------------------------------------------
(* What a call takes.                                                      *)

\* A call takes no more parts than there are.
LEMMA PartsBounded == ASSUME NEW r \in Asked PROVE PartsOf(r) \in 0 .. MaxParts
<1>1. r \in Request /\ MaxParts \in Nat
  BY GatewayAssumption
<1>2. CASE r.cmd \in RecordCmds
  BY <1>1, <1>2, GatewayAssumption DEF PartsOf, Request
<1>3. CASE r.cmd \notin RecordCmds
  <2>1. r.cmd \in ViewCmds BY <1>1, <1>3 DEF Request
  <2> QED BY <1>1, <1>3, <2>1, GatewayAssumption DEF PartsOf
<1> QED BY <1>2, <1>3

\* The client of a part is a client, and of that part only.
LEMMA PartClients == ASSUME NEW h \in Http, NEW i \in 1 .. MaxParts
                     PROVE  <<h, i>> \in Client
BY GatewayAssumption DEF Parts

\* Some part of every call that is not finished is a client.
LEMMA NextPart == ASSUME InTurn, NEW h \in Http, asked[h] # None, at[h] < PartsOf(asked[h])
                  PROVE  at[h] + 1 \in 1 .. MaxParts /\ <<h, at[h] + 1>> \in Client
<1>1. asked[h] \in Asked /\ at[h] \in 0 .. MaxParts /\ MaxParts \in Nat
  BY GatewayAssumption DEF InTurn, GTypeOK
<1>2. PartsOf(asked[h]) \in 0 .. MaxParts
  BY <1>1, PartsBounded
<1>3. at[h] + 1 \in 1 .. MaxParts
  BY <1>1, <1>2
<1> QED BY <1>3, PartClients

-----------------------------------------------------------------------------
(* What the steps do to the state of AmqpServer.                           *)

\* A step of the server, or of what the gateway waits for, sends nothing.
LEMMA OthersSendNothing ==
  ASSUME TypeOK, Others
  PROVE  \A k \in Client : \/ call'[k] = call[k]
                           \/ call[k] = "waits" /\ call'[k] \notin {"new", "waits"}
<1>1. CASE RunMain \/ (\E g \in Consumer : Consume(g) \/ Lose(g)) \/ \E h \in handlers : Handle(h)
  <2>1. call' = call
    BY <1>1 DEF RunMain, OpenDatabases, CannotOpen, StartConsumer, StartedAll, CheckQueues,
         Consume, Call, Bind, CannotBind, Fatal, Register, MapRace, Take, Lose, Handle, Process,
         Panic, Reply, Ends, clients
  <2> QED BY <2>1
<1>2. ASSUME NEW p \in Parts, LoseClient(p) PROVE call' = call
  BY <1>2 DEF LoseClient
<1>3. ASSUME NEW p \in Parts, Receive(p) \/ Timeout(p)
      PROVE  \A k \in Client : \/ call'[k] = call[k]
                               \/ call[k] = "waits" /\ call'[k] \notin {"new", "waits"}
  <2>1. p \in Client /\ replies[p] \subseteq {"SUCCESS", "ERROR"}
    BY GatewayAssumption DEF TypeOK
  <2>2. PICK s \in replies[p] \cup {"timeout"} : Returns(p, s)
    BY <1>3 DEF Receive, Timeout
  <2> QED BY <2>1, <2>2 DEF Returns, TypeOK
<1> QED BY <1>1, <1>2, <1>3 DEF Others, Waiting

\* Only the handling of a message adds an outcome, and only to that message.
LEMMA OthersApply ==
  ASSUME Delivery, Others
  PROVE  \/ \A k : Outcomes(k)' = Outcomes(k)
         \/ \E h \in handlers, o \in DOMAIN Status :
              /\ call[h.client] \notin {"new", "unsent"} /\ h.client \in Client
              /\ \A k \in Client :
                   Outcomes(k)' = IF k = h.client THEN Outcomes(k) \cup {o} ELSE Outcomes(k)
<1>1. CASE \E h \in handlers : Process(h)
  <2>1. PICK h \in handlers : Process(h)
    BY <1>1
  <2>2. PICK o \in DOMAIN Status :
          outcomes' = [outcomes EXCEPT ![h.client][h.via] = Append(@, o)]
    BY <2>1 DEF Process
  <2>3. h.client \in Client /\ h.via \in Consumer
    BY DEF Delivery, TypeOK, Handler
  <2>4. call[h.client] \notin {"new", "unsent"}
    BY <2>3 DEF Delivery, OnePlace, Handled
  <2>5. \A k \in Client, g \in Consumer :
          Range(outcomes'[k][g]) = IF k = h.client /\ g = h.via
                                   THEN Range(outcomes[k][g]) \cup {o} ELSE Range(outcomes[k][g])
    <3>1. outcomes \in [Client -> [Consumer -> Seq(DOMAIN Status)]]
      BY DEF Delivery, TypeOK
    <3>2. Range(Append(outcomes[h.client][h.via], o)) = Range(outcomes[h.client][h.via]) \cup {o}
      BY <3>1, <2>3, RangeAppend
    <3>3. \A k \in Client, g \in Consumer :
            outcomes'[k][g] = IF k = h.client /\ g = h.via
                              THEN Append(outcomes[h.client][h.via], o) ELSE outcomes[k][g]
      BY <3>1, <2>2, <2>3
    <3> QED BY <3>2, <3>3
  <2>6. \A k \in Client :
          Outcomes(k)' = IF k = h.client THEN Outcomes(k) \cup {o} ELSE Outcomes(k)
    <3>1. ASSUME NEW k \in Client, k # h.client PROVE Outcomes(k)' = Outcomes(k)
      BY <3>1, <2>5 DEF Outcomes
    <3>2. \A x : x \in Outcomes(h.client)' <=> x \in Outcomes(h.client) \/ x = o
      <4>1. \A x : x \in Outcomes(h.client)' <=>
                     \E g \in Consumer : x \in Range(outcomes'[h.client][g])
        BY DEF Outcomes
      <4>2. \A x : x \in Outcomes(h.client) <=>
                     \E g \in Consumer : x \in Range(outcomes[h.client][g])
        BY DEF Outcomes
      <4> QED BY <4>1, <4>2, <2>3, <2>5
    <3>3. Outcomes(h.client)' = Outcomes(h.client) \cup {o}
      BY <3>2
    <3> QED BY <3>1, <3>3
  <2> QED BY <2>3, <2>4, <2>6
<1>2. CASE \/ RunMain \/ (\E g \in Consumer : Consume(g) \/ Lose(g))
           \/ (\E h \in handlers : Panic(h) \/ Reply(h))
           \/ \E p \in Parts : Waiting(p) \/ LoseClient(p)
  <2>1. outcomes' = outcomes
    BY <1>2 DEF RunMain, OpenDatabases, CannotOpen, StartConsumer, StartedAll, CheckQueues,
         Consume, Call, Bind, CannotBind, Fatal, Register, MapRace, Take, Lose, Panic, Reply,
         Ends, Waiting, Receive, Timeout, Returns, LoseClient
  <2> QED BY <2>1 DEF Outcomes
<1> QED BY <1>1, <1>2 DEF Others, Handle

\* Sending a part is a step of its client, and of none else.
LEMMA SendCalls ==
  ASSUME TypeOK, InTurn, NEW h \in Http, Send(h)
  PROVE  /\ <<h, at[h] + 1>> \in Client /\ at[h] + 1 \in 1 .. MaxParts
         /\ at[h] + 1 <= PartsOf(asked[h]) /\ asked[h] # None /\ answer[h] = NoAnswer
         /\ Push(<<h, at[h] + 1>>) \/ CannotPush(<<h, at[h] + 1>>)
         /\ \A k \in Client : IF k = <<h, at[h] + 1>> THEN call'[k] # "new"
                              ELSE call'[k] = call[k]
         /\ at' = [at EXCEPT ![h] = @ + 1] /\ UNCHANGED <<api, asked, answer, outcomes>>
         /\ at[h] > 0 => call[<<h, at[h]>>] \notin {"new", "waits"}
<1>1. /\ asked[h] # None /\ at[h] < PartsOf(asked[h]) /\ answer[h] = NoAnswer
      /\ at' = [at EXCEPT ![h] = @ + 1] /\ UNCHANGED <<api, asked, answer>>
      /\ Push(<<h, at[h] + 1>>) \/ CannotPush(<<h, at[h] + 1>>)
      /\ at[h] > 0 => call[<<h, at[h]>>] \notin {"new", "waits"}
  BY DEF Send, Continues, Ready
<1>2. <<h, at[h] + 1>> \in Client /\ at[h] + 1 \in 1 .. MaxParts
  BY <1>1, NextPart
<1>3. asked[h] \in Asked /\ at[h] \in Nat /\ PartsOf(asked[h]) \in Nat
  BY <1>1, PartsBounded, GatewayAssumption DEF InTurn, GTypeOK
<1>4. \A k \in Client : IF k = <<h, at[h] + 1>> THEN call'[k] # "new" ELSE call'[k] = call[k]
  BY <1>1, <1>2 DEF Push, CannotPush, TypeOK
<1>5. UNCHANGED outcomes
  BY <1>1 DEF Push, CannotPush
<1> QED BY <1>1, <1>2, <1>3, <1>4, <1>5

\* The checks of a call, a panic amid its records and its end answer it.
LEMMA AnswerSteps ==
  ASSUME NEW h \in Http, Begin(h) \/ PanicAmid(h) \/ Finish(h)
  PROVE  /\ asked[h] # None /\ answer[h] = NoAnswer /\ UNCHANGED <<vars, api, asked, at>>
         /\ \E a : answer' = [answer EXCEPT ![h] = a]
BY DEF Begin, Refuse, RejectFields, RejectItems, AbortMigration, PanicAmid, Finish, Answers,
       Continues, Ready

\* The statuses of the answers.
Told == Promise!TurnedAway \cup {"SUCCESS", "MERGED", "ERROR"}

\* What they answer names parts that returned SUCCESS, all of them when it is
\* SUCCESS; a call that is turned away has sent nothing.
LEMMA AnswerIs ==
  ASSUME InTurn, NEW h \in Http, Begin(h) \/ PanicAmid(h) \/ Finish(h)
  PROVE  \E s \in Told, good \in SUBSET (1 .. MaxParts) :
           /\ answer' = [answer EXCEPT ![h] = [status |-> s, good |-> good]]
           /\ s \in Promise!TurnedAway => at[h] = 0
           /\ good \subseteq {i \in 1 .. PartsOf(asked[h]) : call[<<h, i>>] = "SUCCESS"}
           /\ s = "SUCCESS" => good = 1 .. PartsOf(asked[h])
           /\ s = "MERGED" => good # {} /\ good # 1 .. PartsOf(asked[h])
<1>1. CASE Begin(h) \/ PanicAmid(h)
  <2>1. PICK s \in {"refused", "null", "aborted", "ERROR"} :
           /\ answer' = [answer EXCEPT ![h] = [status |-> s, good |-> {}]]
           /\ s # "ERROR" => at[h] = 0
    BY <1>1 DEF Begin, Refuse, RejectFields, RejectItems, AbortMigration, PanicAmid, Answers
  <2>2. s \in Told /\ {} \in SUBSET (1 .. MaxParts) /\ s \notin {"SUCCESS", "MERGED"}
    BY <2>1 DEF Told, Promise!TurnedAway
  <2>3. s \in Promise!TurnedAway => at[h] = 0
    BY <2>1 DEF Promise!TurnedAway
  <2>4. \A S : {} \subseteq S OBVIOUS
  <2>5. \E good \in SUBSET (1 .. MaxParts) :
           /\ answer' = [answer EXCEPT ![h] = [status |-> s, good |-> good]]
           /\ good \subseteq {i \in 1 .. PartsOf(asked[h]) : call[<<h, i>>] = "SUCCESS"}
    BY <2>1, <2>2, <2>4
  <2> QED BY <2>2, <2>3, <2>5
<1>2. CASE Finish(h)
  <2> DEFINE s == Merged(asked[h], at[h], Done(h))
  <2>1. /\ answer' = [answer EXCEPT ![h] = [status |-> s, good |-> Done(h)]]
        /\ at[h] = PartsOf(asked[h]) /\ at[h] \in 0 .. MaxParts /\ MaxParts \in Nat
    BY <1>2, GatewayAssumption DEF Finish, Answers, InTurn, GTypeOK
  <2>2. Done(h) = {i \in 1 .. at[h] : call[<<h, i>>] = "SUCCESS"}
    BY DEF Done, Returned
  <2>3. Done(h) \in SUBSET (1 .. MaxParts)
    BY <2>1, <2>2
  <2>4. /\ s \in {"SUCCESS", "ERROR", "MERGED"}
        /\ s = "SUCCESS" => Done(h) = 1 .. at[h]
        /\ s = "MERGED" => Done(h) # {} /\ Done(h) # 1 .. at[h]
    <3>1. CASE Done(h) = 1 .. at[h] BY <3>1 DEF Merged
    <3>2. CASE Done(h) # 1 .. at[h] BY <3>2 DEF Merged
    <3> QED BY <3>1, <3>2
  <2> QED BY <2>1, <2>2, <2>3, <2>4 DEF Told, Promise!TurnedAway
<1> QED BY <1>1, <1>2

-----------------------------------------------------------------------------
(* The invariant.                                                          *)

\* Requests are delivered as without the gateway, and calls are in turn.
GInv == Delivery /\ InTurn

\* The server's steps keep the invariant.
LEMMA OthersKeep == ASSUME GInv, Others, UNCHANGED gateway PROVE GInv'
<1>1. Delivery'
  BY ServerKeeps, HandlerKeeps, ClientKeeps, GatewayAssumption DEF GInv, Others, Waiting
<1>2. \A k \in Client : \/ call'[k] = call[k]
                        \/ call[k] = "waits" /\ call'[k] \notin {"new", "waits"}
  BY OthersSendNothing DEF GInv, Delivery
<1>3. InTurn'
  BY <1>2, PartClients DEF GInv, InTurn, GTypeOK, gateway
<1> QED BY <1>1, <1>3 DEF GInv

\* A part is sent when those before it have returned.
LEMMA SendKeeps == ASSUME GInv, NEW h \in Http, Send(h) PROVE GInv'
<1> USE DEF GInv
<1>0. TypeOK BY DEF Delivery
<1>1. Delivery' BY <1>0, SendCalls, ClientKeeps
<1>2. /\ at' = [at EXCEPT ![h] = @ + 1] /\ at[h] + 1 \in 1 .. MaxParts
      /\ at \in [Http -> 0 .. MaxParts] /\ MaxParts \in Nat
      /\ at[h] + 1 <= PartsOf(asked[h]) /\ asked[h] # None
      /\ answer[h] = NoAnswer /\ UNCHANGED <<api, asked, answer>>
  BY <1>0, SendCalls, GatewayAssumption DEF InTurn, GTypeOK
<1>3. GTypeOK' BY <1>2 DEF InTurn, GTypeOK
<1>7. /\ \A k \in Client : k # <<h, at[h] + 1>> => call'[k] = call[k]
      /\ at[h] > 0 => call[<<h, at[h]>>] \notin {"new", "waits"}
  BY <1>0, SendCalls
<1>8. \A j \in Http : \A i \in 1 .. MaxParts :
         /\ i > at[j] => call[<<j, i>>] = "new"
         /\ i < at[j] => call[<<j, i>>] \notin {"new", "waits"}
  BY DEF InTurn
<1>4. ASSUME NEW j \in Http, NEW i \in 1 .. MaxParts
      PROVE  /\ i > at'[j] => call'[<<j, i>>] = "new"
             /\ i < at'[j] => call'[<<j, i>>] \notin {"new", "waits"}
  <2>1. <<j, i>> \in Client BY PartClients
  <2>2. CASE j = h
    <3>1. at'[j] = at[h] + 1 /\ at[h] \in Nat BY <2>2, <1>2
    <3>2. CASE i > at'[j]
      <4>1. i > at[h] /\ i # at[h] + 1 BY <3>1, <3>2
      <4> QED BY <3>1, <3>2, <4>1, <2>1, <2>2, <1>7, <1>8
    <3>3. CASE i < at'[j]
      <4>1. i <= at[h] /\ i # at[h] + 1 BY <3>1, <3>3
      <4>2. call'[<<j, i>>] = call[<<h, i>>] BY <4>1, <2>1, <2>2, <1>7
      <4>3. CASE i = at[h] BY <4>2, <4>3, <3>1, <1>2, <1>7
      <4>4. CASE i < at[h] BY <3>1, <3>3, <4>2, <4>4, <1>8
      <4> QED BY <4>1, <4>3, <4>4, <3>1
    <3> QED BY <3>2, <3>3
  <2>3. CASE j # h
    <3>1. at'[j] = at[j] /\ <<j, i>> # <<h, at[h] + 1>> BY <2>3, <1>2
    <3>2. call'[<<j, i>>] = call[<<j, i>>] BY <3>1, <2>1, <1>7
    <3> QED BY <3>1, <3>2, <1>8
  <2> QED BY <2>2, <2>3
<1>5. ASSUME NEW j \in Http
      PROVE  /\ IF asked'[j] = None THEN at'[j] = 0 /\ answer'[j] = NoAnswer
                ELSE at'[j] <= PartsOf(asked'[j])
             /\ answer'[j] # NoAnswer => (answer'[j].status \in Promise!TurnedAway => at'[j] = 0)
  <2>1. CASE j = h BY <2>1, <1>2
  <2>2. CASE j # h BY <2>2, <1>2 DEF InTurn
  <2> QED BY <2>1, <2>2
<1>6. InTurn' BY <1>3, <1>4, <1>5 DEF InTurn
<1> QED BY <1>1, <1>6

\* The steps that answer a call leave everything else alone.
LEMMA AnswerKeeps == ASSUME GInv, NEW h \in Http, Begin(h) \/ PanicAmid(h) \/ Finish(h)
                     PROVE  GInv'
<1> USE DEF GInv
<1>1. asked[h] # None /\ UNCHANGED <<vars, api, asked, at>>
  BY AnswerSteps
<1>2. Delivery' BY <1>1, StutterKeeps
<1>3. PICK s \in Told, good \in SUBSET (1 .. MaxParts) :
         /\ answer' = [answer EXCEPT ![h] = [status |-> s, good |-> good]]
         /\ s \in Promise!TurnedAway => at[h] = 0
  BY AnswerIs
<1>4. [status |-> s, good |-> good] \in Promise!Answer
  BY DEF Promise!Answer, Promise!TurnedAway, Told
<1>5. GTypeOK' BY <1>1, <1>3, <1>4 DEF InTurn, GTypeOK
<1>6. InTurn' BY <1>1, <1>3, <1>5 DEF InTurn, GTypeOK, vars, clients
<1> QED BY <1>2, <1>6

\* A call arrives, or the gateway starts.
LEMMA StartKeeps ==
  ASSUME GInv, Serve \/ CannotServe \/ \E h \in Http, r \in Asked : Ask(h, r)
  PROVE  GInv'
<1> USE DEF GInv
<1>1. call' = call /\ UNCHANGED <<at, answer>>
  BY DEF Serve, CannotServe, Ask, Ends, vars, clients
<1>2. Delivery'
  <2>1. CASE Ends
    <3>1. TypeOK' BY <2>1 DEF Delivery, TypeOK, Ends, clients
    <3> QED BY <2>1, <3>1, QuietKeeps DEF Ends, clients
  <2>2. CASE UNCHANGED vars BY <2>2, StutterKeeps
  <2> QED BY <2>1, <2>2 DEF Serve, CannotServe, Ask
<1>3. CASE Serve \/ CannotServe
  <2>1. asked' = asked /\ api' \in {"serves", "failed"} BY <1>3 DEF Serve, CannotServe
  <2> QED BY <2>1, <1>1, <1>2 DEF InTurn, GTypeOK
<1>4. ASSUME NEW h \in Http, NEW r \in Asked, Ask(h, r) PROVE InTurn'
  <2>1. /\ asked' = [asked EXCEPT ![h] = r] /\ asked[h] = None /\ api' = api
        /\ r # None /\ PartsOf(r) \in 0 .. MaxParts /\ at[h] = 0 /\ MaxParts \in Nat
    BY <1>4, PartsBounded, GatewayAssumption DEF Ask, InTurn
  <2>2. GTypeOK' BY <2>1, <1>1 DEF InTurn, GTypeOK
  <2>3. ASSUME NEW j \in Http
        PROVE  IF asked'[j] = None THEN at'[j] = 0 /\ answer'[j] = NoAnswer
               ELSE at'[j] <= PartsOf(asked'[j])
    <3>1. CASE j = h BY <3>1, <2>1, <1>1 DEF InTurn, GTypeOK
    <3>2. CASE j # h BY <3>2, <2>1, <1>1 DEF InTurn, GTypeOK
    <3> QED BY <3>1, <3>2
  <2> QED BY <2>2, <2>3, <1>1 DEF InTurn
<1> QED BY <1>2, <1>3, <1>4

\* The invariant holds at first, and every step keeps it.
LEMMA GInvHolds == GSpec => []GInv
<1>1. GInit => GInv
  <2> SUFFICES ASSUME GInit PROVE GInv
    OBVIOUS
  <2>1. Delivery BY InitDelivers DEF GInit
  <2>2. GTypeOK BY GatewayAssumption DEF GInit, GTypeOK
  <2>3. InTurn BY <2>2, PartClients DEF GInit, Init, InTurn
  <2> QED BY <2>1, <2>3 DEF GInv
<1>2. GInv /\ [GNext]_gvars => GInv'
  <2> SUFFICES ASSUME GInv, [GNext]_gvars PROVE GInv'
    OBVIOUS
  <2>1. CASE UNCHANGED gvars
    <3>1. Delivery' BY <2>1, StutterKeeps DEF GInv, gvars
    <3>2. InTurn' BY <2>1 DEF GInv, InTurn, GTypeOK, gvars, gateway, vars, clients
    <3> QED BY <3>1, <3>2 DEF GInv
  <2> QED BY <2>1, OthersKeep, SendKeeps, AnswerKeeps, StartKeeps DEF GNext, HandleCall
<1> QED BY <1>1, <1>2, PTL DEF GSpec

\* The gateway disturbs nothing of what AmqpServer promises (queue.go, producer.go).
THEOREM GatewayDelivers == GSpec => []Delivery
<1>1. GInv => Delivery BY DEF GInv
<1> QED BY GInvHolds, <1>1, PTL

\* The parts of a call are sent in turn, and none of one that is turned away
\* (record.go, api.go:129-144).
THEOREM PartsInTurn == GSpec => []InTurn
<1>1. GInv => InTurn BY DEF GInv
<1> QED BY GInvHolds, <1>1, PTL

-----------------------------------------------------------------------------
(* The refinement.                                                         *)

\* What is wanted of a call are parts.
LEMMA WantedParts == ASSUME InTurn, NEW h \in Http PROVE Wanted[h] \subseteq 1 .. MaxParts
<1>1. CASE asked[h] = None BY <1>1 DEF Wanted
<1>2. CASE asked[h] # None
  <2>1. PartsOf(asked[h]) \in 0 .. MaxParts /\ MaxParts \in Nat
    BY <1>2, PartsBounded, GatewayAssumption DEF InTurn, GTypeOK
  <2> QED BY <2>1, <1>2 DEF Wanted
<1> QED BY <1>1, <1>2

\* Nothing of a part that was not sent has been applied.
LEMMA UnsentUndone == ASSUME GInv, NEW h \in Http, at[h] = 0, NEW i \in 1 .. MaxParts
                      PROVE  "applied" \notin Outcomes(<<h, i>>)
<1>1. call[<<h, i>>] = "new" /\ <<h, i>> \in Client
  BY PartClients DEF GInv, InTurn
<1>2. \A g \in Consumer : outcomes[<<h, i>>][g] = <<>>
  BY <1>1 DEF GInv, Delivery, AtMostOnce
<1> QED BY <1>2 DEF Outcomes, Range

\* What is wanted and applied is a function of two variables.
LEMMA SameState == ASSUME UNCHANGED <<asked, answer, outcomes>>
                   PROVE  UNCHANGED <<Wanted, Applied, answer>>
BY DEF Wanted, Applied, Outcomes

\* A step of the server applies a wanted part, or nothing that is wanted.
LEMMA OthersRefine == ASSUME GInv, Others, UNCHANGED gateway
                      PROVE  Promise!Next \/ UNCHANGED <<Wanted, Applied, answer>>
<1>1. UNCHANGED <<Wanted, answer>> BY DEF Wanted, gateway
<1>2. CASE \A k : Outcomes(k)' = Outcomes(k)
  BY <1>1, <1>2 DEF Applied
<1>3. ASSUME NEW f \in handlers, NEW o \in DOMAIN Status,
             call[f.client] \notin {"new", "unsent"}, f.client \in Client,
             \A k \in Client : Outcomes(k)' = IF k = f.client THEN Outcomes(k) \cup {o}
                                              ELSE Outcomes(k)
      PROVE  Promise!Next \/ UNCHANGED <<Wanted, Applied, answer>>
  <2>1. PICK h \in Http, i \in 1 .. MaxParts : f.client = <<h, i>>
    BY <1>3, GatewayAssumption DEF Parts
  <2>2. \A j \in Http : Wanted[j] \subseteq 1 .. MaxParts
    BY WantedParts DEF GInv
  <2>3. \A j \in Http, n \in 1 .. MaxParts :
           Outcomes(<<j, n>>)' = IF j = h /\ n = i THEN Outcomes(<<j, n>>) \cup {o}
                                 ELSE Outcomes(<<j, n>>)
    <3>1. ASSUME NEW j \in Http, NEW n \in 1 .. MaxParts
          PROVE  Outcomes(<<j, n>>)' = IF j = h /\ n = i THEN Outcomes(<<j, n>>) \cup {o}
                                       ELSE Outcomes(<<j, n>>)
      <4>1. <<j, n>> \in Client /\ (<<j, n>> = <<h, i>> <=> j = h /\ n = i)
        BY PartClients
      <4> QED BY <4>1, <1>3, <2>1
    <3> QED BY <3>1
  <2>4. CASE i \in Wanted[h] /\ o = "applied"
    <3>1. ASSUME NEW j \in Http PROVE Applied'[j] = IF j = h THEN Applied[j] \cup {i} ELSE Applied[j]
      BY <3>1, <1>1, <2>2, <2>3, <2>4 DEF Applied
    <3>2. Applied' = [Applied EXCEPT ![h] = @ \cup {i}]
      BY <3>1 DEF Applied
    <3>3. answer[h] # NoAnswer => answer[h].status \notin Promise!TurnedAway
      <4>1. at[h] = 0 => call[<<h, i>>] = "new"
        BY DEF GInv, InTurn
      <4> QED BY <4>1, <1>3, <2>1 DEF GInv, InTurn
    <3>4. Promise!Apply(h, i)
      BY <1>1, <2>4, <3>2, <3>3 DEF Promise!Apply
    <3> QED BY <3>4, <2>4 DEF Promise!Next
  <2>5. CASE ~(i \in Wanted[h] /\ o = "applied")
    <3>1. ASSUME NEW j \in Http, NEW n \in Wanted[j]
          PROVE  "applied" \in Outcomes(<<j, n>>)' <=> "applied" \in Outcomes(<<j, n>>)
      BY <2>2, <2>3, <2>5
    <3>2. ASSUME NEW j \in Http
          PROVE  {n \in Wanted[j] : "applied" \in Outcomes(<<j, n>>)'}
                   = {n \in Wanted[j] : "applied" \in Outcomes(<<j, n>>)}
      BY <3>1
    <3>3. Applied' = Applied BY <3>2, <1>1 DEF Applied
    <3> QED BY <3>3, <1>1
  <2> QED BY <2>4, <2>5
<1> QED BY <1>2, <1>3, OthersApply DEF GInv

\* A call arrives: what it wants is told, and nothing of it is done.
LEMMA AskRefines == ASSUME GInv, NEW h \in Http, NEW r \in Asked, Ask(h, r)
                    PROVE  Promise!Next
<1>1. /\ asked[h] = None /\ asked' = [asked EXCEPT ![h] = r] /\ UNCHANGED <<vars, at, answer>>
      /\ answer[h] = NoAnswer /\ at[h] = 0 /\ DOMAIN asked = Http
      /\ r # None /\ PartsOf(r) \in 0 .. MaxParts /\ MaxParts \in Nat
  BY PartsBounded, GatewayAssumption DEF Ask, GInv, InTurn, GTypeOK
<1>2. Wanted' = [Wanted EXCEPT ![h] = 1 .. PartsOf(r)] /\ Wanted[h] = {}
  BY <1>1 DEF Wanted
<1>3. \A k : Outcomes(k)' = Outcomes(k) BY <1>1 DEF Outcomes, vars
<1>4. Applied' = Applied
  <2>1. \A i \in 1 .. PartsOf(r) : "applied" \notin Outcomes(<<h, i>>)
    BY <1>1, UnsentUndone
  <2>2. ASSUME NEW j \in Http PROVE Applied'[j] = Applied[j]
    <3>1. CASE j = h BY <3>1, <1>2, <1>3, <2>1 DEF Applied, Wanted
    <3>2. CASE j # h
      <4>1. Wanted'[j] = Wanted[j] BY <3>2, <1>2 DEF Wanted
      <4> QED BY <4>1, <1>3 DEF Applied
    <3> QED BY <3>1, <3>2
  <2> QED BY <2>2 DEF Applied
<1>5. 1 .. PartsOf(r) \in SUBSET (1 .. MaxParts) BY <1>1
<1>6. Promise!Ask(h, 1 .. PartsOf(r)) BY <1>1, <1>2, <1>4 DEF Promise!Ask
<1> QED BY <1>5, <1>6 DEF Promise!Next

\* An answer is what HttpPromise allows.
LEMMA AnswerRefines == ASSUME GInv, NEW h \in Http, Begin(h) \/ PanicAmid(h) \/ Finish(h)
                       PROVE  Promise!Next
<1>1. asked[h] # None /\ answer[h] = NoAnswer /\ UNCHANGED <<vars, api, asked, at>>
  BY AnswerSteps
<1>2. PICK s \in Told, good \in SUBSET (1 .. MaxParts) :
         /\ answer' = [answer EXCEPT ![h] = [status |-> s, good |-> good]]
         /\ s \in Promise!TurnedAway => at[h] = 0
         /\ good \subseteq {i \in 1 .. PartsOf(asked[h]) : call[<<h, i>>] = "SUCCESS"}
         /\ s = "SUCCESS" => good = 1 .. PartsOf(asked[h])
         /\ s = "MERGED" => good # {} /\ good # 1 .. PartsOf(asked[h])
  BY AnswerIs DEF GInv
<1> DEFINE a == [status |-> s, good |-> good]
<1>3. UNCHANGED <<Wanted, Applied>> BY <1>1 DEF Wanted, Applied, Outcomes, vars
<1>4. Wanted[h] = 1 .. PartsOf(asked[h]) BY <1>1 DEF Wanted
<1>5. good \subseteq Applied[h]
  <2>1. ASSUME NEW i \in good PROVE i \in Applied[h]
    <3>1. call[<<h, i>>] = "SUCCESS" /\ i \in Wanted[h] /\ i \in 1 .. MaxParts
      BY <1>2, <1>4
    <3>2. "applied" \in Outcomes(<<h, i>>)
      BY <3>1, PartClients DEF GInv, Delivery, TrueAnswers
    <3> QED BY <3>1, <3>2 DEF Applied
  <2> QED BY <2>1
<1>6. s \in Promise!TurnedAway => Applied[h] = {}
  <2>1. ASSUME s \in Promise!TurnedAway PROVE Applied[h] = {}
    <3>1. at[h] = 0 /\ Wanted[h] \subseteq 1 .. MaxParts
      BY <2>1, <1>2, WantedParts DEF GInv
    <3>2. \A i \in 1 .. MaxParts : "applied" \notin Outcomes(<<h, i>>)
      BY <3>1, UnsentUndone
    <3> QED BY <3>1, <3>2 DEF Applied
  <2> QED BY <2>1
<1>7. a \in Promise!Answer BY DEF Promise!Answer, Told
<1>8. Promise!Tell(h, a)
  BY <1>1, <1>2, <1>3, <1>4, <1>5, <1>6 DEF Promise!Tell
<1> QED BY <1>7, <1>8 DEF Promise!Next

\* The gateway, with the server and the broker behind it, keeps what
\* HttpPromise says of its answers (api.go:102-144, record.go:70-322).
THEOREM GatewayKeepsPromise == GSpec => PromiseKept
<1>1. GInit => Promise!Init
  <2> SUFFICES ASSUME GInit PROVE Promise!Init
    OBVIOUS
  <2>1. Wanted = [h \in Http |-> {}] BY GatewayAssumption DEF GInit, Wanted
  <2>2. Applied = [h \in Http |-> {}] BY <2>1 DEF Applied
  <2> QED BY <2>1, <2>2 DEF GInit, Promise!Init
<1>2. GInv /\ [GNext]_gvars => [Promise!Next]_<<Wanted, Applied, answer>>
  <2> SUFFICES ASSUME GInv, [GNext]_gvars
               PROVE  Promise!Next \/ UNCHANGED <<Wanted, Applied, answer>>
    OBVIOUS
  <2>1. CASE Serve \/ CannotServe \/ UNCHANGED gvars
    <3>1. UNCHANGED <<asked, answer, outcomes>>
      BY <2>1 DEF Serve, CannotServe, Ends, gvars, vars, gateway
    <3> QED BY <3>1, SameState
  <2>2. ASSUME NEW h \in Http, Send(h) PROVE UNCHANGED <<Wanted, Applied, answer>>
    <3>1. UNCHANGED <<asked, answer, outcomes>>
      BY <2>2, SendCalls DEF GInv, Delivery
    <3> QED BY <3>1, SameState
  <2> QED BY <2>1, <2>2, OthersRefine, AskRefines, AnswerRefines DEF GNext, HandleCall
<1> QED BY <1>1, <1>2, GInvHolds, PTL DEF GSpec, PromiseKept, Promise!Spec
=============================================================================
