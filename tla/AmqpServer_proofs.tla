------------------------- MODULE AmqpServer_proofs -------------------------
(***************************************************************************)
(* Proofs about AmqpServer, for any number of consumers and clients, any   *)
(* exchanges, and however many connections are lost.                       *)
(***************************************************************************)
EXTENDS AmqpServer, TLAPS

-----------------------------------------------------------------------------
(* Lemmas about the operators.                                             *)

\* Appending to a sequence adds just the new element to its range.
LEMMA RangeAppend == ASSUME NEW S, NEW s \in Seq(S), NEW o \in S
                     PROVE  /\ Append(s, o) \in Seq(S) /\ Range(Append(s, o)) = Range(s) \cup {o}
                            /\ Len(Append(s, o)) = Len(s) + 1
<1>1. Append(s, o) \in Seq(S) /\ Len(Append(s, o)) = Len(s) + 1
  OBVIOUS
<1>2. \A i \in 1 .. Len(s) : Append(s, o)[i] = s[i]
  OBVIOUS
<1>3. Append(s, o)[Len(s) + 1] = o
  OBVIOUS
<1>4. DOMAIN Append(s, o) = 1 .. (Len(s) + 1) /\ DOMAIN s = 1 .. Len(s) /\ Len(s) \in Nat
  OBVIOUS
<1>5. 1 .. (Len(s) + 1) = (1 .. Len(s)) \cup {Len(s) + 1}
  BY <1>4
<1> QED BY <1>1, <1>2, <1>3, <1>4, <1>5 DEF Range

\* What a handler may reply, and what each reply stands for.
LEMMA Statuses == /\ DOMAIN Status = {"applied", "erred"}
                  /\ Status["applied"] = "SUCCESS" /\ Status["erred"] = "ERROR"
BY DEF Status

-----------------------------------------------------------------------------
(* Type correctness.                                                       *)

\* A step of Run or of a consumer leaves every variable its type.
LEMMA ServerTyped == ASSUME TypeOK, RunMain \/ \E g \in Consumer : Consume(g) \/ Lose(g)
                     PROVE  TypeOK'
<1> USE DEF TypeOK, Moves, Ends, clients, Capacity
<1>1. CASE OpenDatabases BY <1>1 DEF OpenDatabases
<1>2. CASE CannotOpen BY <1>2 DEF CannotOpen
<1>3. CASE \E g \in Consumer : StartConsumer(g) BY <1>3 DEF StartConsumer
<1>4. CASE StartedAll BY <1>4 DEF StartedAll
<1>5. CASE CheckQueues BY <1>5 DEF CheckQueues
<1>6. ASSUME NEW g \in Consumer, Call(g) PROVE TypeOK' BY <1>6 DEF Call
<1>7. ASSUME NEW g \in Consumer, Bind(g) PROVE TypeOK' BY <1>7 DEF Bind
<1>8. ASSUME NEW g \in Consumer, CannotBind(g) PROVE TypeOK' BY <1>8 DEF CannotBind
<1>9. ASSUME NEW g \in Consumer, Fatal(g) PROVE TypeOK' BY <1>9 DEF Fatal
<1>10. ASSUME NEW g \in Consumer, Register(g) PROVE TypeOK' BY <1>10 DEF Register
<1>11. ASSUME NEW g \in Consumer, MapRace(g) PROVE TypeOK' BY <1>11 DEF MapRace
<1>12. ASSUME NEW g \in Consumer, NEW k \in Client, Take(g, k) PROVE TypeOK'
  <2>1. [client |-> k, via |-> g, status |-> "none"] \in Handler
    BY DEF Handler
  <2> QED BY <1>12, <2>1 DEF Take
<1>13. ASSUME NEW g \in Consumer, Lose(g) PROVE TypeOK' BY <1>13 DEF Lose
<1> HIDE DEF TypeOK, Moves, Ends, clients, Capacity
<1> QED BY <1>1, <1>2, <1>3, <1>4, <1>5, <1>6, <1>7, <1>8, <1>9, <1>10, <1>11, <1>12, <1>13
        DEF RunMain, Consume

\* So does a step of a goroutine that handles a request.
LEMMA HandlerTyped == ASSUME TypeOK, NEW h \in handlers, Handle(h) PROVE TypeOK'
<1> USE DEF TypeOK, Ends, clients
<1>1. CASE Process(h)
  <2>1. PICK o \in DOMAIN Status :
          /\ handlers' = (handlers \ {h}) \cup {[h EXCEPT !.status = Status[o]]}
          /\ outcomes' = [outcomes EXCEPT ![h.client][h.via] = Append(@, o)]
    BY <1>1 DEF Process
  <2>2. h \in Handler /\ Status[o] \in {"SUCCESS", "ERROR"}
    BY Statuses
  <2>3. [h EXCEPT !.status = Status[o]] \in Handler
    BY <2>2 DEF Handler
  <2>4. h.client \in Client /\ h.via \in Consumer
    BY DEF Handler
  <2>5. Append(outcomes[h.client][h.via], o) \in Seq(DOMAIN Status)
    BY <2>4, RangeAppend
  <2>6. outcomes' \in [Client -> [Consumer -> Seq(DOMAIN Status)]]
    BY <2>1, <2>4, <2>5
  <2> QED BY <1>1, <2>1, <2>3, <2>6 DEF Process
<1>2. CASE Panic(h) BY <1>2 DEF Panic
<1>3. CASE Reply(h)
  <2>1. h.client \in Client /\ (h.status # "none" => h.status \in {"SUCCESS", "ERROR"})
    BY DEF Handler
  <2> QED BY <1>3, <2>1 DEF Reply
<1> QED BY <1>1, <1>2, <1>3 DEF Handle

\* So does a step of a client.
LEMMA ClientTyped == ASSUME TypeOK, NEW k \in Client,
                            Push(k) \/ CannotPush(k) \/ LoseClient(k) \/ Receive(k) \/ Timeout(k)
                     PROVE  TypeOK'
<1> USE DEF TypeOK, server
<1>1. CASE Push(k) BY <1>1 DEF Push
<1>2. CASE CannotPush(k) BY <1>2 DEF CannotPush
<1>3. CASE LoseClient(k)
  <2>1. PICK received \in SUBSET replies[k] : replies' = [replies EXCEPT ![k] = received]
    BY <1>3 DEF LoseClient
  <2>2. received \subseteq {"SUCCESS", "ERROR"}
    BY <2>1
  <2>3. replies' \in [Client -> SUBSET {"SUCCESS", "ERROR"}]
    BY <2>1, <2>2
  <2> QED BY <1>3, <2>3 DEF LoseClient
<1>4. ASSUME NEW s \in {"SUCCESS", "ERROR", "timeout"}, Returns(k, s) PROVE TypeOK'
  BY <1>4 DEF Returns
<1> QED BY <1>1, <1>2, <1>3, <1>4 DEF Receive, Timeout

-----------------------------------------------------------------------------
(* What a step leaves of the promises.                                     *)

\* The initial state keeps them.
LEMMA InitDelivers == Init => Delivery
<1> SUFFICES ASSUME Init PROVE Delivery
  OBVIOUS
<1>1. TypeOK BY DEF Init, TypeOK, Capacity
<1>2. TrueAnswers BY DEF Init, TrueAnswers
<1>3. AtMostOnce BY DEF Init, AtMostOnce
<1>4. OnePlace BY DEF Init, OnePlace, Handled
<1>5. Backed BY DEF Init, Backed
<1> QED BY <1>1, <1>2, <1>3, <1>4, <1>5 DEF Delivery

\* They are about five variables only.
LEMMA QuietKeeps == ASSUME Delivery, TypeOK', UNCHANGED <<inbox, handlers, outcomes, call, replies>>
                    PROVE  Delivery'
<1>1. \A k : Outcomes(k)' = Outcomes(k) BY DEF Outcomes
<1>2. \A k, g : Handled(k, g)' = Handled(k, g) BY DEF Handled
<1>3. TrueAnswers' BY <1>1 DEF Delivery, TrueAnswers
<1>4. AtMostOnce' BY DEF Delivery, AtMostOnce
<1>5. OnePlace' BY <1>2 DEF Delivery, OnePlace
<1>6. Backed' BY <1>1 DEF Delivery, Backed
<1> QED BY <1>3, <1>4, <1>5, <1>6 DEF Delivery

\* The queue of a consumer that loses its connection only shrinks.
LEMMA LoseKeeps == ASSUME Delivery, TypeOK', NEW g \in Consumer, Lose(g) PROVE Delivery'
<1> USE DEF clients
<1>1. /\ UNCHANGED <<handlers, outcomes, call, replies>>
      /\ \A h \in Consumer : inbox'[h] \subseteq inbox[h]
  BY DEF Lose, Delivery, TypeOK
<1>2. \A k : Outcomes(k)' = Outcomes(k) BY <1>1 DEF Outcomes
<1>3. \A k, h : Handled(k, h)' = Handled(k, h) BY <1>1 DEF Handled
<1>4. TrueAnswers' BY <1>1, <1>2 DEF Delivery, TrueAnswers
<1>5. AtMostOnce' BY <1>1 DEF Delivery, AtMostOnce
<1>6. OnePlace' BY <1>1, <1>3 DEF Delivery, OnePlace
<1>7. Backed' BY <1>1, <1>2 DEF Delivery, Backed
<1> QED BY <1>4, <1>5, <1>6, <1>7 DEF Delivery

\* A message that is taken leaves the queue for its goroutine.
LEMMA TakeKeeps == ASSUME Delivery, TypeOK', NEW g \in Consumer, NEW k \in Client, Take(g, k)
                   PROVE  Delivery'
<1> DEFINE new == [client |-> k, via |-> g, status |-> "none"]
<1>1. /\ k \in inbox[g] /\ inbox' = [inbox EXCEPT ![g] = @ \ {k}]
      /\ handlers' = handlers \cup {new} /\ UNCHANGED <<outcomes, call, replies>>
  BY DEF Take, clients
<1>2. \A j : Outcomes(j)' = Outcomes(j) BY <1>1 DEF Outcomes
<1>3. \A j \in Client, i \in Consumer :
         Handled(j, i)' = IF j = k /\ i = g THEN {new} ELSE Handled(j, i)
  <2>1. Handled(k, g) = {} BY <1>1 DEF Delivery, OnePlace
  <2> QED BY <1>1, <2>1 DEF Handled
<1>4. \A i \in Consumer : inbox'[i] = IF i = g THEN inbox[i] \ {k} ELSE inbox[i]
  BY <1>1 DEF Delivery, TypeOK
<1>5. outcomes[k][g] = <<>> /\ call[k] \notin {"new", "unsent"}
  BY <1>1 DEF Delivery, OnePlace
<1>6. TrueAnswers' BY <1>1, <1>2 DEF Delivery, TrueAnswers
<1>7. AtMostOnce' BY <1>1 DEF Delivery, AtMostOnce
<1>8. OnePlace'
  <2> SUFFICES ASSUME NEW j \in Client, NEW i \in Consumer
               PROVE  /\ j \in inbox'[i] => Handled(j, i)' = {} /\ outcomes'[j][i] = <<>>
                      /\ \A h \in Handled(j, i)' :
                           /\ Handled(j, i)' = {h}
                           /\ h.status = "none" => outcomes'[j][i] = <<>>
                      /\ call'[j] \in {"new", "unsent"} => j \notin inbox'[i] /\ Handled(j, i)' = {}
    BY DEF OnePlace
  <2>1. CASE j = k /\ i = g
    <3>1. Handled(j, i)' = {new} /\ j \notin inbox'[i]
      BY <2>1, <1>3, <1>4
    <3>2. outcomes'[j][i] = <<>> /\ call'[j] \notin {"new", "unsent"}
      BY <2>1, <1>1, <1>5
    <3> QED BY <3>1, <3>2
  <2>2. CASE ~(j = k /\ i = g)
    BY <2>2, <1>1, <1>3, <1>4 DEF Delivery, OnePlace
  <2> QED BY <2>1, <2>2
<1>9. Backed'
  <2>1. \A o \in DOMAIN Status : Status[o] # "none" BY Statuses
  <2> QED BY <1>1, <1>2, <2>1 DEF Delivery, Backed
<1> QED BY <1>6, <1>7, <1>8, <1>9 DEF Delivery

\* A goroutine that handles its request is the only one that ever does.
LEMMA ProcessKeeps == ASSUME Delivery, TypeOK', NEW h \in handlers, Process(h) PROVE Delivery'
<1> DEFINE k == h.client
           g == h.via
<1>1. PICK o \in DOMAIN Status :
        /\ handlers' = (handlers \ {h}) \cup {[h EXCEPT !.status = Status[o]]}
        /\ outcomes' = [outcomes EXCEPT ![k][g] = Append(@, o)]
  BY DEF Process
<1> DEFINE new == [h EXCEPT !.status = Status[o]]
<1>2. UNCHANGED <<inbox, call, replies>> /\ h.status = "none"
  BY DEF Process, clients
<1>3. h \in Handler /\ k \in Client /\ g \in Consumer
  BY DEF Delivery, TypeOK, Handler
<1>4. new.client = k /\ new.via = g /\ new.status = Status[o] /\ Status[o] # "none"
  BY <1>3, Statuses DEF Handler
<1>5. Handled(k, g) = {h} /\ outcomes[k][g] = <<>> /\ k \notin inbox[g]
      /\ call[k] \notin {"new", "unsent"}
  BY <1>2, <1>3 DEF Delivery, OnePlace, Handled
<1>6. \A j \in Client, i \in Consumer :
         Handled(j, i)' = IF j = k /\ i = g THEN {new} ELSE Handled(j, i)
  BY <1>1, <1>4, <1>5 DEF Handled
<1>7. \A j \in Client, i \in Consumer :
         outcomes'[j][i] = IF j = k /\ i = g THEN Append(<<>>, o) ELSE outcomes[j][i]
  BY <1>1, <1>3, <1>5 DEF Delivery, TypeOK
<1>8. Range(Append(<<>>, o)) = {o} /\ Len(Append(<<>>, o)) = 1
  <2>1. Append(<<>>, o) = <<o>> OBVIOUS
  <2>2. Len(<<o>>) = 1 /\ DOMAIN <<o>> = {1} /\ <<o>>[1] = o OBVIOUS
  <2> QED BY <2>1, <2>2 DEF Range
<1>9. \A j \in Client, i \in Consumer : Range(outcomes[j][i]) \subseteq Range(outcomes'[j][i])
  <2>1. Range(<<>>) = {} BY DEF Range
  <2> QED BY <1>5, <1>7, <2>1
<1>10. \A j \in Client : \A p \in Outcomes(j) : p \in Outcomes(j)'
  BY <1>9 DEF Outcomes
<1>11. TrueAnswers' BY <1>2, <1>10 DEF Delivery, TrueAnswers
<1>12. AtMostOnce'
  <2> SUFFICES ASSUME NEW j \in Client, NEW i \in Consumer
               PROVE  /\ Len(outcomes'[j][i]) <= 1
                      /\ call'[j] \in {"new", "unsent"} => outcomes'[j][i] = <<>>
    BY DEF AtMostOnce
  <2>1. CASE j = k /\ i = g
    <3>1. outcomes'[j][i] = Append(<<>>, o) BY <2>1, <1>7
    <3>2. call'[j] \notin {"new", "unsent"} BY <2>1, <1>2, <1>5
    <3> QED BY <3>1, <3>2, <1>8
  <2>2. CASE ~(j = k /\ i = g)
    <3>1. outcomes'[j][i] = outcomes[j][i] BY <2>2, <1>7
    <3> QED BY <3>1, <1>2 DEF Delivery, AtMostOnce
  <2> QED BY <2>1, <2>2
<1>13. OnePlace'
  <2> SUFFICES ASSUME NEW j \in Client, NEW i \in Consumer
               PROVE  /\ j \in inbox'[i] => Handled(j, i)' = {} /\ outcomes'[j][i] = <<>>
                      /\ \A f \in Handled(j, i)' :
                           /\ Handled(j, i)' = {f}
                           /\ f.status = "none" => outcomes'[j][i] = <<>>
                      /\ call'[j] \in {"new", "unsent"} => j \notin inbox'[i] /\ Handled(j, i)' = {}
    BY DEF OnePlace
  <2>1. CASE j = k /\ i = g
    <3>1. Handled(j, i)' = {new} /\ new.status # "none" BY <2>1, <1>4, <1>6
    <3>2. j \notin inbox'[i] /\ call'[j] \notin {"new", "unsent"} BY <2>1, <1>2, <1>5
    <3> QED BY <3>1, <3>2
  <2>2. CASE ~(j = k /\ i = g)
    BY <2>2, <1>2, <1>6, <1>7 DEF Delivery, OnePlace
  <2> QED BY <2>1, <2>2
<1>14. Backed'
  <2> SUFFICES ASSUME NEW p \in DOMAIN Status
               PROVE  /\ \A f \in handlers' :
                           f.status = Status[p] => p \in Range(outcomes'[f.client][f.via])
                      /\ \A j \in Client : Status[p] \in replies'[j] => p \in Outcomes(j)'
    BY DEF Backed
  <2>1. ASSUME NEW f \in handlers', f.status = Status[p]
        PROVE  p \in Range(outcomes'[f.client][f.via])
    <3>1. CASE f = new
      <4>1. p = o BY <3>1, <2>1, <1>4, Statuses
      <4> QED BY <4>1, <3>1, <1>3, <1>4, <1>7, <1>8
    <3>2. CASE f \in handlers
      <4>1. p \in Range(outcomes[f.client][f.via]) BY <3>2, <2>1 DEF Delivery, Backed
      <4>2. f.client \in Client /\ f.via \in Consumer
        BY <3>2 DEF Delivery, TypeOK, Handler
      <4> QED BY <4>1, <4>2, <1>9
    <3> QED BY <3>1, <3>2, <1>1
  <2>2. ASSUME NEW j \in Client, Status[p] \in replies'[j] PROVE p \in Outcomes(j)'
    BY <2>2, <1>2, <1>10 DEF Delivery, Backed
  <2> QED BY <2>1, <2>2
<1> QED BY <1>11, <1>12, <1>13, <1>14 DEF Delivery

\* A reply says what handling came to, and its goroutine ends.
LEMMA ReplyKeeps == ASSUME Delivery, TypeOK', NEW h \in handlers, Reply(h) PROVE Delivery'
<1>1. /\ handlers' = handlers \ {h} /\ UNCHANGED <<inbox, outcomes, call>> /\ h.status # "none"
      /\ replies' \in {replies, [replies EXCEPT ![h.client] = @ \cup {h.status}]}
  BY DEF Reply
<1>2. \A j : Outcomes(j)' = Outcomes(j) BY <1>1 DEF Outcomes
<1>3. h.client \in Client /\ h.via \in Consumer
  BY DEF Delivery, TypeOK, Handler
<1>4. TrueAnswers' BY <1>1, <1>2 DEF Delivery, TrueAnswers
<1>5. AtMostOnce' BY <1>1 DEF Delivery, AtMostOnce
<1>6. OnePlace'
  <2>1. \A j, i : Handled(j, i)' = Handled(j, i) \ {h} BY <1>1 DEF Handled
  <2> QED BY <1>1, <2>1 DEF Delivery, OnePlace
<1>7. Backed'
  <2>1. ASSUME NEW p \in DOMAIN Status, NEW j \in Client, Status[p] \in replies'[j]
        PROVE  p \in Outcomes(j)
    <3>1. CASE Status[p] \in replies[j] BY <3>1 DEF Delivery, Backed
    <3>2. CASE j = h.client /\ Status[p] = h.status
      <4>1. p \in Range(outcomes[j][h.via]) BY <3>2 DEF Delivery, Backed
      <4> QED BY <4>1, <1>3 DEF Outcomes
    <3> QED BY <3>1, <3>2, <2>1, <1>1 DEF Delivery, TypeOK
  <2> QED BY <1>1, <1>2, <2>1 DEF Delivery, Backed
<1> QED BY <1>4, <1>5, <1>6, <1>7 DEF Delivery

\* A message is sent once, when nothing of it is anywhere.
LEMMA PushKeeps == ASSUME Delivery, TypeOK', NEW k \in Client, Push(k) PROVE Delivery'
<1>1. /\ call[k] = "new" /\ call' = [call EXCEPT ![k] = "waits"]
      /\ UNCHANGED <<handlers, outcomes, replies>>
      /\ \A g \in Consumer : inbox'[g] \in {inbox[g], inbox[g] \cup {k}}
  BY DEF Push
<1>2. \A j : Outcomes(j)' = Outcomes(j) BY <1>1 DEF Outcomes
<1>3. \A j, i : Handled(j, i)' = Handled(j, i) BY <1>1 DEF Handled
<1>4. \A j \in Client : call'[j] = IF j = k THEN "waits" ELSE call[j]
  BY <1>1 DEF Delivery, TypeOK
<1>5. \A g \in Consumer : outcomes[k][g] = <<>> /\ Handled(k, g) = {}
  BY <1>1 DEF Delivery, AtMostOnce, OnePlace
<1>6. TrueAnswers' BY <1>2, <1>4 DEF Delivery, TrueAnswers
<1>7. AtMostOnce' BY <1>1, <1>4 DEF Delivery, AtMostOnce
<1>8. OnePlace'
  <2> SUFFICES ASSUME NEW j \in Client, NEW i \in Consumer
               PROVE  /\ j \in inbox'[i] => Handled(j, i)' = {} /\ outcomes'[j][i] = <<>>
                      /\ \A h \in Handled(j, i)' :
                           /\ Handled(j, i)' = {h}
                           /\ h.status = "none" => outcomes'[j][i] = <<>>
                      /\ call'[j] \in {"new", "unsent"} => j \notin inbox'[i] /\ Handled(j, i)' = {}
    BY DEF OnePlace
  <2>1. CASE j = k BY <2>1, <1>1, <1>3, <1>4, <1>5
  <2>2. CASE j # k
    <3>1. j \in inbox'[i] => j \in inbox[i] BY <2>2, <1>1
    <3>2. call'[j] = call[j] /\ outcomes'[j][i] = outcomes[j][i] BY <2>2, <1>1, <1>4
    <3> QED BY <3>1, <3>2, <1>3 DEF Delivery, OnePlace
  <2> QED BY <2>1, <2>2
<1>9. Backed' BY <1>1, <1>2 DEF Delivery, Backed
<1> QED BY <1>6, <1>7, <1>8, <1>9 DEF Delivery

\* The other steps of a client: what it returns is what it was told.
LEMMA ReturnKeeps == ASSUME Delivery, TypeOK', NEW k \in Client,
                            CannotPush(k) \/ LoseClient(k) \/ Receive(k) \/ Timeout(k)
                     PROVE  Delivery'
<1>1. /\ UNCHANGED <<inbox, handlers, outcomes>>
      /\ \A j \in Client : replies'[j] \subseteq replies[j]
      /\ \A j \in Client : \/ call'[j] = call[j]
                           \/ call[j] = "new" /\ call'[j] = "unsent"
                           \/ call[j] = "waits" /\ call'[j] \in replies[j] \cup {"timeout"}
  <2>0. call \in [Client -> {"new", "waits", "SUCCESS", "ERROR", "timeout", "unsent"}]
        /\ replies \in [Client -> SUBSET {"SUCCESS", "ERROR"}]
    BY DEF Delivery, TypeOK
  <2>1. CASE CannotPush(k) BY <2>1, <2>0 DEF CannotPush, server
  <2>2. CASE LoseClient(k)
    <3>1. PICK received \in SUBSET replies[k] : replies' = [replies EXCEPT ![k] = received]
      BY <2>2 DEF LoseClient
    <3>2. UNCHANGED <<inbox, handlers, outcomes, call>> BY <2>2 DEF LoseClient, server
    <3> QED BY <3>1, <3>2, <2>0
  <2>3. CASE Receive(k) \/ Timeout(k)
    <3>1. PICK s \in replies[k] \cup {"timeout"} : Returns(k, s)
      BY <2>3 DEF Receive, Timeout
    <3>2. /\ UNCHANGED <<inbox, handlers, outcomes>> /\ call[k] = "waits"
          /\ call' = [call EXCEPT ![k] = s] /\ replies' = [replies EXCEPT ![k] = {}]
      BY <3>1 DEF Returns, server
    <3> QED BY <3>2, <2>0
  <2> QED BY <2>1, <2>2, <2>3
<1>2. \A j : Outcomes(j)' = Outcomes(j) BY <1>1 DEF Outcomes
<1>3. \A j, i : Handled(j, i)' = Handled(j, i) BY <1>1 DEF Handled
<1>4. \A j \in Client : /\ "SUCCESS" \in replies[j] => "applied" \in Outcomes(j)
                        /\ "ERROR" \in replies[j] => "erred" \in Outcomes(j)
  BY Statuses DEF Delivery, Backed
<1>5. \A j \in Client : /\ replies[j] \subseteq {"SUCCESS", "ERROR"}
                        /\ call'[j] \in {"new", "unsent"} => call[j] \in {"new", "unsent"}
  BY <1>1 DEF Delivery, TypeOK
<1>6. TrueAnswers'
  <2> SUFFICES ASSUME NEW j \in Client
               PROVE  /\ call'[j] = "SUCCESS" => "applied" \in Outcomes(j)
                      /\ call'[j] = "ERROR" => "erred" \in Outcomes(j)
    BY <1>2 DEF TrueAnswers
  <2> QED BY <1>1, <1>4 DEF Delivery, TrueAnswers
<1>7. AtMostOnce' BY <1>1, <1>5 DEF Delivery, AtMostOnce
<1>8. OnePlace' BY <1>1, <1>3, <1>5 DEF Delivery, OnePlace
<1>9. Backed' BY <1>1, <1>2 DEF Delivery, Backed
<1> QED BY <1>6, <1>7, <1>8, <1>9 DEF Delivery

-----------------------------------------------------------------------------
(* The theorems.                                                           *)

\* Every step of the server, of what befalls it, and of its clients.
LEMMA ServerKeeps == ASSUME Delivery, RunMain \/ \E g \in Consumer : Consume(g) \/ Lose(g)
                     PROVE  Delivery'
<1>1. TypeOK' BY ServerTyped DEF Delivery
<1>2. CASE RunMain
  BY <1>1, <1>2, QuietKeeps DEF RunMain, OpenDatabases, CannotOpen, StartConsumer, StartedAll,
       CheckQueues, Ends, clients
<1>3. ASSUME NEW g \in Consumer, Lose(g) PROVE Delivery' BY <1>1, <1>3, LoseKeeps
<1>4. ASSUME NEW g \in Consumer, NEW k \in Client, Take(g, k) PROVE Delivery'
  BY <1>1, <1>4, TakeKeeps
<1>5. ASSUME NEW g \in Consumer,
             Call(g) \/ Bind(g) \/ CannotBind(g) \/ Fatal(g) \/ Register(g) \/ MapRace(g)
      PROVE  Delivery'
  BY <1>1, <1>5, QuietKeeps DEF Call, Bind, CannotBind, Fatal, Register, MapRace, Ends, clients
<1> QED BY <1>2, <1>3, <1>4, <1>5 DEF Consume

LEMMA HandlerKeeps == ASSUME Delivery, NEW h \in handlers, Handle(h) PROVE Delivery'
<1>1. TypeOK' BY HandlerTyped DEF Delivery
<1>2. CASE Panic(h) BY <1>1, <1>2, QuietKeeps DEF Panic, Ends, clients
<1> QED BY <1>1, <1>2, ProcessKeeps, ReplyKeeps DEF Handle

LEMMA ClientKeeps == ASSUME Delivery, NEW k \in Client,
                            Push(k) \/ CannotPush(k) \/ LoseClient(k) \/ Receive(k) \/ Timeout(k)
                     PROVE  Delivery'
<1>1. TypeOK' BY ClientTyped DEF Delivery
<1> QED BY <1>1, PushKeeps, ReturnKeeps

LEMMA StutterKeeps == ASSUME Delivery, UNCHANGED vars PROVE Delivery'
<1>1. TypeOK' BY DEF Delivery, TypeOK, vars, server, clients
<1> QED BY <1>1, QuietKeeps DEF vars, server, clients

\* The invariant by which requests are delivered (queue.go, producer.go).
THEOREM Delivered == Spec => []Delivery
<1>1. ASSUME Delivery, [Next]_vars PROVE Delivery'
  BY <1>1, ServerKeeps, HandlerKeeps, ClientKeeps, StutterKeeps DEF Next
<1> QED BY InitDelivers, <1>1, PTL DEF Spec

\* Every variable of the server and its clients keeps its type.
THEOREM ServerTypeCorrect == Spec => []TypeOK
<1>1. Delivery => TypeOK BY DEF Delivery
<1> QED BY Delivered, <1>1, PTL

\* A client is told what handling its request came to (queue.go:162-205).
THEOREM AnswersTrue == Spec => []TrueAnswers
<1>1. Delivery => TrueAnswers BY DEF Delivery
<1> QED BY Delivered, <1>1, PTL

\* No consumer handles a request twice, or one that was not published.
THEOREM HandledAtMostOnce == Spec => []AtMostOnce
<1>1. Delivery => AtMostOnce BY DEF Delivery
<1> QED BY Delivered, <1>1, PTL
=============================================================================
