----------------------------- MODULE AmqpServer -----------------------------
(***************************************************************************)
(* The way of a request: a client's pushMessage publishes it to an         *)
(* exchange and waits for the reply; a consumer, one goroutine per section *)
(* [amqp.*], gets it from the queue it has bound to an exchange and starts *)
(* a goroutine that handles it and replies; Run starts the consumers and   *)
(* waits for the last of them to end.                                      *)
(*                                                                         *)
(* How a request is handled is the subject of OrmCommands: here it is      *)
(* applied, or meets an error after any part of its effect, or panics.     *)
(* Nothing ever sends on a consumer's exitChannel, so its loop has no end; *)
(* when its connection is lost, msgs is closed and every turn of the loop  *)
(* handles an empty message, to no effect.                                 *)
(***************************************************************************)
EXTENDS Integers, Sequences, Functions

CONSTANTS
  Consumer,     \* the sections [amqp.*], and the goroutines started for them
  ExchangeOf,   \* ExchangeOf[s]: the exchange of section s, at its URL
  Client,       \* calls of pushMessage
  Publishes,    \* Publishes[k]: the exchange of k's configuration
  None,
  MaxLosses     \* bound: connections that are lost

ASSUME AmqpAssumption == None \notin Consumer /\ DOMAIN ExchangeOf = Consumer

VARIABLES
  main,         \* Run: "opens" the databases, "starts" consumers, "waits" or has
                \* "ended", with the process
  unstarted,    \* the sections its loop has still to come to
  c,            \* the loop's variable, which the goroutines share
  con,          \* con[g]: where consumer g is
  section,      \* section[g]: the section it was called with
  connected,    \* connected[g]: whether it has a connection
  inbox,        \* inbox[g]: the requests in its queue
  queues,       \* the consumers in the map queues
  signals,      \* how many values checkChannel holds
  handlers,     \* the goroutines that handle requests
  call,         \* call[k]: where client k is, and what it has returned ("timeout" and
                \* "unsent" are the errors that pushMessage makes up itself)
  listens,      \* listens[k]: whether k's reply queue exists
  replies,      \* replies[k]: what it holds
  losses,
  outcomes      \* history: outcomes[k][g]: what handling k's request for g came to

server == <<main, unstarted, c, con, section, connected, inbox, queues, signals, handlers>>
clients == <<call, listens, replies>>
vars == <<server, clients, losses, outcomes>>

Capacity == 2     \* of checkChannel
Status   == [applied |-> "SUCCESS", erred |-> "ERROR"]
Handler  == [client : Client, via : Consumer, status : {"none", "SUCCESS", "ERROR"}]

TypeOK ==
  /\ main \in {"opens", "starts", "waits", "ended"} /\ unstarted \subseteq Consumer
  /\ c \in Consumer \cup {None}
  /\ con \in [Consumer -> {"none", "starts", "dials", "bound", "consumes", "failed"}]
  /\ section \in [Consumer -> Consumer \cup {None}]
  /\ connected \in [Consumer -> BOOLEAN]
  /\ inbox \in [Consumer -> SUBSET Client] /\ queues \subseteq Consumer
  /\ signals \in 0 .. Capacity /\ handlers \subseteq Handler
  /\ call \in [Client -> {"new", "waits", "SUCCESS", "ERROR", "timeout", "unsent"}]
  /\ listens \in [Client -> BOOLEAN]
  /\ replies \in [Client -> SUBSET {"SUCCESS", "ERROR"}]
  /\ losses \in Nat
  /\ outcomes \in [Client -> [Consumer -> Seq(DOMAIN Status)]]

Init ==
  /\ main = "opens" /\ unstarted = Consumer /\ c = None
  /\ con = [g \in Consumer |-> "none"] /\ section = [g \in Consumer |-> None]
  /\ connected = [g \in Consumer |-> FALSE] /\ inbox = [g \in Consumer |-> {}]
  /\ queues = {} /\ signals = 0 /\ handlers = {}
  /\ call = [k \in Client |-> "new"] /\ listens = [k \in Client |-> FALSE]
  /\ replies = [k \in Client |-> {}]
  /\ losses = 0 /\ outcomes = [k \in Client |-> [g \in Consumer |-> <<>>]]

Running == main # "ended"
\* The process ends: a fatal error, a panic that nothing recovers.
Ends ==
  /\ main' = "ended"
  /\ UNCHANGED <<unstarted, c, con, section, connected, inbox, queues, signals, handlers>>
  /\ UNCHANGED <<clients, losses, outcomes>>
Moves(g, from, to) == Running /\ con[g] = from /\ con' = [con EXCEPT ![g] = to]

-----------------------------------------------------------------------------
(* Run.                                                                    *)

OpenDatabases ==
  /\ main = "opens" /\ main' = "starts"
  /\ UNCHANGED <<unstarted, c, con, section, connected, inbox, queues, signals, handlers>>
  /\ UNCHANGED <<clients, losses, outcomes>>

\* initORMs fails.
CannotOpen == main = "opens" /\ Ends

StartConsumer(g) ==
  /\ main = "starts" /\ g \in unstarted
  /\ unstarted' = unstarted \ {g} /\ c' = g
  /\ Moves(g, "none", "starts")
  /\ UNCHANGED <<main, section, connected, inbox, queues, signals, handlers>>
  /\ UNCHANGED <<clients, losses, outcomes>>

StartedAll ==
  /\ main = "starts" /\ unstarted = {} /\ main' = "waits"
  /\ UNCHANGED <<unstarted, c, con, section, connected, inbox, queues, signals, handlers>>
  /\ UNCHANGED <<clients, losses, outcomes>>

\* Variant of CheckQueues: it does not wait for a signal.
CheckAtOnce ==
  /\ main = "waits"
  /\ signals' = signals - 1
  /\ main' = IF queues = {} THEN "ended" ELSE main
  /\ UNCHANGED <<unstarted, c, con, section, connected, inbox, queues, handlers>>
  /\ UNCHANGED <<clients, losses, outcomes>>

CheckQueues ==
  /\ main = "waits" /\ signals > 0
  /\ signals' = signals - 1
  /\ main' = IF queues = {} THEN "ended" ELSE main
  /\ UNCHANGED <<unstarted, c, con, section, connected, inbox, queues, handlers>>
  /\ UNCHANGED <<clients, losses, outcomes>>

-----------------------------------------------------------------------------
(* startAMQPQueue.                                                         *)

\* The goroutine reads c only now: go.mod's language version is 1.13.
Call(g) ==
  /\ Moves(g, "starts", "dials")
  /\ section' = [section EXCEPT ![g] = c]
  /\ UNCHANGED <<main, unstarted, c, connected, inbox, queues, signals, handlers>>
  /\ UNCHANGED <<clients, losses, outcomes>>

\* Dial, Channel, ExchangeDeclare, QueueDeclare, QueueBind and Consume.
Bind(g) ==
  /\ Moves(g, "dials", "bound")
  /\ connected' = [connected EXCEPT ![g] = TRUE]
  /\ UNCHANGED <<main, unstarted, c, section, inbox, queues, signals, handlers>>
  /\ UNCHANGED <<clients, losses, outcomes>>

\* One of them fails, and then the goroutine tells Run.
CannotBind(g) ==
  /\ Moves(g, "dials", "failed")
  /\ signals < Capacity /\ signals' = signals + 1
  /\ UNCHANGED <<main, unstarted, c, section, connected, inbox, queues, handlers>>
  /\ UNCHANGED <<clients, losses, outcomes>>

Fatal(g) == Running /\ con[g] = "failed" /\ Ends

Register(g) ==
  /\ Moves(g, "bound", "consumes")
  /\ queues' = queues \cup {g}
  /\ UNCHANGED <<main, unstarted, c, section, connected, inbox, signals, handlers>>
  /\ UNCHANGED <<clients, losses, outcomes>>

\* The map queues has no lock: a write beside another access of it may be
\* noticed by Go's runtime, which ends the process.
MapRace(g) ==
  /\ Running /\ con[g] = "bound"
  /\ (\E h \in Consumer \ {g} : con[h] = "bound") \/ (\E h \in handlers : h.status # "none")
  /\ Ends

\* Variant of Take: a message that is handled stays in the queue.
TakeAndKeep(g, k) ==
  /\ Moves(g, "consumes", "consumes") /\ k \in inbox[g]
  /\ Len(outcomes[k][g]) < 2
  /\ inbox' = inbox
  /\ handlers' = handlers \cup {[client |-> k, via |-> g, status |-> "none"]}
  /\ UNCHANGED <<main, unstarted, c, section, connected, queues, signals>>
  /\ UNCHANGED <<clients, losses, outcomes>>

\* Messages are acknowledged when they are delivered.
Take(g, k) ==
  /\ Moves(g, "consumes", "consumes") /\ k \in inbox[g]
  /\ inbox' = [inbox EXCEPT ![g] = @ \ {k}]
  /\ handlers' = handlers \cup {[client |-> k, via |-> g, status |-> "none"]}
  /\ UNCHANGED <<main, unstarted, c, section, connected, queues, signals>>
  /\ UNCHANGED <<clients, losses, outcomes>>

\* The broker deletes the exclusive queue; the AMQP library still delivers
\* what it had received.
Lose(g) ==
  /\ Running /\ connected[g] /\ losses < MaxLosses
  /\ connected' = [connected EXCEPT ![g] = FALSE] /\ losses' = losses + 1
  /\ \E received \in SUBSET inbox[g] : inbox' = [inbox EXCEPT ![g] = received]
  /\ UNCHANGED <<main, unstarted, c, con, section, queues, signals, handlers>>
  /\ UNCHANGED <<clients, outcomes>>

-----------------------------------------------------------------------------
(* processMessage.                                                         *)

\* Variant of Process: the reply does not tell what handling came to.
ReplyOnly(h) ==
  /\ Running /\ h \in handlers /\ h.status = "none"
  /\ handlers' = (handlers \ {h}) \cup {[h EXCEPT !.status = "SUCCESS"]}
  /\ UNCHANGED <<main, unstarted, c, con, section, connected, inbox, queues, signals>>
  /\ UNCHANGED <<clients, losses, outcomes>>

Process(h) ==
  /\ Running /\ h \in handlers /\ h.status = "none"
  /\ \E o \in DOMAIN Status :
       /\ handlers' = (handlers \ {h}) \cup {[h EXCEPT !.status = Status[o]]}
       /\ outcomes' = [outcomes EXCEPT ![h.client][h.via] = Append(@, o)]
  /\ UNCHANGED <<main, unstarted, c, con, section, connected, inbox, queues, signals>>
  /\ UNCHANGED <<clients, losses>>

Panic(h) == Running /\ h \in handlers /\ h.status = "none" /\ Ends

\* replyError or replySuccessData: the reply is lost when the consumer's
\* connection is, or when nobody waits for it any more.
Reply(h) ==
  /\ Running /\ h \in handlers /\ h.status # "none"
  /\ handlers' = handlers \ {h}
  /\ replies' = IF h.via \in queues /\ connected[h.via] /\ listens[h.client]
                THEN [replies EXCEPT ![h.client] = @ \cup {h.status}] ELSE replies
  /\ UNCHANGED <<main, unstarted, c, con, section, connected, inbox, queues, signals>>
  /\ UNCHANGED <<call, listens, losses, outcomes>>

-----------------------------------------------------------------------------
(* pushMessage.                                                            *)

\* A fanout exchange has a copy for each queue that is bound to it.
Receives(g, k) == connected[g] /\ ExchangeOf[section[g]] = Publishes[k]

Push(k) ==
  /\ call[k] = "new" /\ call' = [call EXCEPT ![k] = "waits"]
  /\ listens' = [listens EXCEPT ![k] = TRUE]
  /\ inbox' = [g \in Consumer |-> IF Receives(g, k) THEN inbox[g] \cup {k} ELSE inbox[g]]
  /\ UNCHANGED <<main, unstarted, c, con, section, connected, queues, signals, handlers>>
  /\ UNCHANGED <<replies, losses, outcomes>>

\* Variant of CannotPush: what fails comes after the publication.
CannotPushLate(k) ==
  /\ call[k] = "new" /\ call' = [call EXCEPT ![k] = "unsent"]
  /\ inbox' = [g \in Consumer |-> IF Receives(g, k) THEN inbox[g] \cup {k} ELSE inbox[g]]
  /\ UNCHANGED <<main, unstarted, c, con, section, connected, queues, signals, handlers>>
  /\ UNCHANGED <<listens, replies, losses, outcomes>>

\* Some call before the publication fails.
CannotPush(k) ==
  /\ call[k] = "new" /\ call' = [call EXCEPT ![k] = "unsent"]
  /\ UNCHANGED <<server, listens, replies, losses, outcomes>>

\* The client goes on waiting, but only for what has arrived already.
LoseClient(k) ==
  /\ listens[k] /\ losses < MaxLosses
  /\ listens' = [listens EXCEPT ![k] = FALSE] /\ losses' = losses + 1
  /\ \E received \in SUBSET replies[k] : replies' = [replies EXCEPT ![k] = received]
  /\ UNCHANGED <<server, call, outcomes>>

Returns(k, result) ==
  /\ call[k] = "waits" /\ call' = [call EXCEPT ![k] = result]
  /\ listens' = [listens EXCEPT ![k] = FALSE] /\ replies' = [replies EXCEPT ![k] = {}]
  /\ UNCHANGED <<server, losses, outcomes>>

Receive(k) == \E s \in replies[k] : Returns(k, s)
Timeout(k) == Returns(k, "timeout")

-----------------------------------------------------------------------------
Consume(g) ==
  \/ Call(g) \/ Bind(g) \/ CannotBind(g) \/ Fatal(g) \/ Register(g) \/ MapRace(g)
  \/ \E k \in Client : Take(g, k)
Handle(h) == Process(h) \/ Panic(h) \/ Reply(h)
RunMain ==
  \/ OpenDatabases \/ CannotOpen
  \/ (\E g \in Consumer : StartConsumer(g)) \/ StartedAll \/ CheckQueues

Next ==
  \/ RunMain
  \/ \E g \in Consumer : Consume(g) \/ Lose(g)
  \/ \E h \in handlers : Handle(h)
  \/ \E k \in Client : Push(k) \/ CannotPush(k) \/ LoseClient(k) \/ Receive(k) \/ Timeout(k)

Spec == Init /\ [][Next]_vars
FairSpec ==
  /\ Spec /\ WF_vars(RunMain)
  /\ \A g \in Consumer : WF_vars(Consume(g))
  /\ \A h \in Handler : WF_vars(Handle(h))
  /\ \A k \in Client : WF_vars(Receive(k) \/ Timeout(k))

-----------------------------------------------------------------------------
(* Properties.                                                             *)

Outcomes(k) == UNION {Range(outcomes[k][g]) : g \in Consumer}

\* What a client is told is what handling its request came to: for one of
\* the consumers, where several serve its exchange.
TrueAnswers ==
  \A k \in Client :
    /\ call[k] = "SUCCESS" => "applied" \in Outcomes(k)
    /\ call[k] = "ERROR" => "erred" \in Outcomes(k)

\* Whatever is lost and however late a reply, no consumer handles a request
\* twice, nor at all one whose publication was reported to fail.
AtMostOnce ==
  \A k \in Client, g \in Consumer :
    /\ Len(outcomes[k][g]) <= 1
    /\ call[k] \in {"new", "unsent"} => outcomes[k][g] = <<>>

\* For each consumer a request is in one place: unsent or not received, in
\* the queue, with the one goroutine that is to handle it, or handled.
Handled(k, g) == {h \in handlers : h.client = k /\ h.via = g}
OnePlace ==
  \A k \in Client, g \in Consumer :
    /\ k \in inbox[g] => Handled(k, g) = {} /\ outcomes[k][g] = <<>>
    /\ \A h \in Handled(k, g) :
         Handled(k, g) = {h} /\ (h.status = "none" => outcomes[k][g] = <<>>)
    /\ call[k] \in {"new", "unsent"} => k \notin inbox[g] /\ Handled(k, g) = {}

\* No reply is on its way, or has arrived, that handling did not come to.
Backed ==
  \A o \in DOMAIN Status :
    /\ \A h \in handlers : h.status = Status[o] => o \in Range(outcomes[h.client][h.via])
    /\ \A k \in Client : Status[o] \in replies[k] => o \in Outcomes(k)

Delivery == TypeOK /\ TrueAnswers /\ AtMostOnce /\ OnePlace /\ Backed

\* wunderdns.ini gives the server two exchanges to serve: once every
\* consumer has started, each exchange has one.
EveryExchangeServed ==
  (\A g \in Consumer : con[g] = "consumes") =>
    \A s \in Consumer : \E g \in Consumer : ExchangeOf[section[g]] = ExchangeOf[s]

\* run.go says "Zero queues left - exiting": a server whose every consumer
\* has lost its connection ends.
ExitsWithoutQueues ==
  (\A g \in Consumer : con[g] = "consumes" /\ ~connected[g]) ~> main = "ended"
=============================================================================
