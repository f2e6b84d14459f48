----------------------------- MODULE HttpGateway -----------------------------
(***************************************************************************)
(* The HTTP interface before the AMQP server: a handler checks a call,     *)
(* takes it apart, sends the parts to the server one after another, each   *)
(* when the one before it has returned, and makes one answer of what they  *)
(* have returned.  The record endpoints send a message for each record,    *)
(* whatever became of those before; the others one for each view, "*"      *)
(* being "private" and then "public".                                      *)
(*                                                                         *)
(* By default main.go runs the gateway in the server's process, and they   *)
(* end together.  The client of a part is the pair <<call, part>>; other   *)
(* programs that publish to the server are AmqpServer's clients.           *)
(***************************************************************************)
EXTENDS AmqpServer

CONSTANTS
  Http,       \* calls of the HTTP interface
  Asked,      \* what they may ask: [cmd, flaw, view, items], see Request
  MaxParts,   \* bound: parts of a call
  Together,   \* whether the server and the gateway share a process
  NoAnswer

VARIABLES
  api,        \* StartAPI: "starts", "serves" or has "failed"
  asked,      \* asked[h]: what call h asks, None before it arrives
  at,         \* at[h]: how many of its parts have been sent
  answer      \* answer[h]: what it was answered, and the parts reported as done

gateway == <<api, asked, at, answer>>
gvars == <<vars, gateway>>

RecordCmds == {"create_record", "replace_record", "delete_record"}
ViewCmds   == {"create_domain", "replace_owner", "list_domains", "list_records",
               "search_record", "list_own"}
\* A record of the call has all it needs, lacks its target or type, has one
\* that is not a string, or is no JSON object.
Item    == {"whole", "incomplete", "untyped", "no hash"}
Flaw    == {"none", "headers", "request", "fields"}
Request == [cmd : RecordCmds \cup ViewCmds, flaw : Flaw,
            view : {"private", "public", "*", "other"}, items : Seq(Item)]
Parts   == Http \X (1 .. MaxParts)

ASSUME GatewayAssumption ==
  /\ MaxParts \in Nat /\ Client = Parts /\ Together \in BOOLEAN
  /\ Asked \subseteq Request /\ None \notin Asked
  /\ \A r \in Asked : r.cmd \in RecordCmds => Len(r.items) <= MaxParts
  /\ (\E r \in Asked : r.cmd \in ViewCmds) => MaxParts >= 2

GInit ==
  /\ Init
  /\ api = "starts" /\ asked = [h \in Http |-> None] /\ at = [h \in Http |-> 0]
  /\ answer = [h \in Http |-> NoAnswer]

\* getDomainView, and what the endpoints without a view ask for.
View(r) == IF r.cmd \in {"create_domain", "search_record", "list_own"} \/ r.view = "other"
           THEN "*" ELSE r.view

\* How many messages a call takes: the loops of record.go, and signAndPush.
PartsOf(r) == IF r.cmd \in RecordCmds THEN Len(r.items)
              ELSE IF View(r) = "*" THEN 2 ELSE 1

\* The process the gateway runs in has not ended.
Alive == Together => Running
\* The call is being handled, and the part sent last has returned.
Ready(h) ==
  /\ Alive /\ asked[h] # None /\ answer[h] = NoAnswer
  /\ at[h] > 0 => call[<<h, at[h]>>] \notin {"new", "waits"}

Answers(h, status, good) ==
  /\ answer' = [answer EXCEPT ![h] = [status |-> status, good |-> good]]
  /\ UNCHANGED <<vars, api, asked, at>>

-----------------------------------------------------------------------------
(* StartAPI.                                                               *)

Serve == Alive /\ api = "starts" /\ api' = "serves" /\ UNCHANGED <<vars, asked, at, answer>>

\* The configuration is wrong, or the port is taken: log.Fatal.
CannotServe ==
  /\ Alive /\ api = "starts" /\ api' = "failed"
  /\ IF Together THEN Ends ELSE UNCHANGED vars
  /\ UNCHANGED <<asked, at, answer>>

-----------------------------------------------------------------------------
(* A call: its checks.                                                     *)

Ask(h, r) ==
  /\ Alive /\ api = "serves" /\ asked[h] = None
  /\ asked' = [asked EXCEPT ![h] = r]
  /\ UNCHANGED <<vars, api, at, answer>>

\* Status 403, 422, 501 or 503.
Refusable(r) ==
  \/ r.flaw \in {"headers", "request"}
  \/ r.flaw = "fields" /\ r.cmd \in {"replace_owner", "list_records", "search_record"}
  \/ r.cmd = "replace_owner" /\ r.view = "other"

Refuse(h) ==
  /\ Ready(h) /\ at[h] = 0 /\ Refusable(asked[h])
  /\ Answers(h, "refused", {})

\* A record request without its fields; a domain that is no string, of which
\* the handler recovers with a reply of nil that writeJson sends as "null".
RejectFields(h) ==
  /\ Ready(h) /\ at[h] = 0 /\ asked[h].flaw = "fields"
  /\ \/ asked[h].cmd \in RecordCmds /\ Answers(h, "ERROR", {})
     \/ asked[h].cmd = "create_domain" /\ Answers(h, "null", {})

Passed(r) == ~Refusable(r) /\ ~(r.flaw = "fields" /\ r.cmd \in RecordCmds \cup {"create_domain"})
ItemsOf(r) == {r.items[i] : i \in DOMAIN r.items}

\* records2records and checkRecord.
Unusable(r) == r.cmd \in RecordCmds /\ ItemsOf(r) \cap {"incomplete", "no hash"} # {}
RejectItems(h) ==
  /\ Ready(h) /\ at[h] = 0 /\ Passed(asked[h]) /\ Unusable(asked[h])
  /\ Answers(h, "ERROR", {})

\* In the handler of /migrate nothing recovers: net/http drops the connection.
Aborts(r) == r.cmd = "replace_owner" /\ ItemsOf(r) # {} /\ ItemsOf(r) # {"whole"}
AbortMigration(h) ==
  /\ Ready(h) /\ at[h] = 0 /\ Passed(asked[h]) /\ Aborts(asked[h])
  /\ Answers(h, "aborted", {})

-----------------------------------------------------------------------------
(* A call: its parts.                                                      *)

Sendable(r) == Passed(r) /\ ~Unusable(r) /\ ~Aborts(r)
Panics(r, i) == r.cmd \in RecordCmds /\ r.items[i] = "untyped"
Continues(h) == Ready(h) /\ Sendable(asked[h]) /\ at[h] < PartsOf(asked[h])

\* Variant of Send: the next message does not wait for the reply.
SendAtOnce(h) ==
  /\ Alive /\ asked[h] # None /\ answer[h] = NoAnswer
  /\ Sendable(asked[h]) /\ at[h] < PartsOf(asked[h]) /\ ~Panics(asked[h], at[h] + 1)
  /\ at' = [at EXCEPT ![h] = @ + 1]
  /\ Push(<<h, at[h] + 1>>) \/ CannotPush(<<h, at[h] + 1>>)
  /\ UNCHANGED <<api, asked, answer>>

\* signRequest and pushMessage.
Send(h) ==
  /\ Continues(h) /\ ~Panics(asked[h], at[h] + 1)
  /\ at' = [at EXCEPT ![h] = @ + 1]
  /\ Push(<<h, at[h] + 1>>) \/ CannotPush(<<h, at[h] + 1>>)
  /\ UNCHANGED <<api, asked, answer>>

\* A type assertion fails on a record after others were sent: the handler
\* recovers, and its answer forgets their replies.
PanicAmid(h) ==
  /\ Continues(h) /\ Panics(asked[h], at[h] + 1)
  /\ Answers(h, "ERROR", {})

\* pushMessage returns its own errors as replies.
Returned(h, i) == IF call[<<h, i>>] = "SUCCESS" THEN "SUCCESS" ELSE "ERROR"
Done(h) == {i \in 1 .. at[h] : Returned(h, i) = "SUCCESS"}

\* Variant of Merged: the first reply's status stands.
MergedByFirst(r, n, good) ==
  IF 1 \in good \/ n = 0 THEN "SUCCESS" ELSE "ERROR"

\* mergeReply, and the counters of the record endpoints.
Merged(r, n, good) ==
  CASE good = 1 .. n -> "SUCCESS"
    [] good # 1 .. n /\ (good = {} \/ r.cmd \in RecordCmds) -> "ERROR"
    [] OTHER -> "MERGED"

\* Variant of Finish: the handler waits for a reply that came too late.
FinishHeard(h) ==
  /\ Ready(h) /\ Sendable(asked[h]) /\ at[h] = PartsOf(asked[h])
  /\ \A i \in 1 .. at[h] : call[<<h, i>>] # "timeout"
  /\ Answers(h, Merged(asked[h], at[h], Done(h)), Done(h))

Finish(h) ==
  /\ Ready(h) /\ Sendable(asked[h]) /\ at[h] = PartsOf(asked[h])
  /\ Answers(h, Merged(asked[h], at[h], Done(h)), Done(h))

-----------------------------------------------------------------------------
(* The gateway, the server and the broker.                                 *)

Begin(h)  == Refuse(h) \/ RejectFields(h) \/ RejectItems(h) \/ AbortMigration(h)
HandleCall(h) == Begin(h) \/ Send(h) \/ PanicAmid(h) \/ Finish(h)
Waiting(p) == Alive /\ (Receive(p) \/ Timeout(p))

\* The server, and what the gateway waits for.
Others ==
  \/ RunMain
  \/ \E g \in Consumer : Consume(g) \/ Lose(g)
  \/ \E h \in handlers : Handle(h)
  \/ \E p \in Parts : Waiting(p) \/ (Alive /\ LoseClient(p))

GNext ==
  \/ Others /\ UNCHANGED gateway
  \/ Serve \/ CannotServe
  \/ \E h \in Http : (\E r \in Asked : Ask(h, r)) \/ HandleCall(h)

GSpec == GInit /\ [][GNext]_gvars
\* The goroutine of a call goes on: its waits have an end, and the server
\* need do nothing.
Goroutine(h) == HandleCall(h) \/ \E i \in 1 .. MaxParts : Waiting(<<h, i>>) /\ UNCHANGED gateway
GFairSpec == GSpec /\ \A h \in Http : WF_gvars(Goroutine(h))

-----------------------------------------------------------------------------
(* Properties.                                                             *)

Wanted  == [h \in Http |-> IF asked[h] = None THEN {} ELSE 1 .. PartsOf(asked[h])]
Applied == [h \in Http |-> {i \in Wanted[h] : "applied" \in Outcomes(<<h, i>>)}]
Promise == INSTANCE HttpPromise WITH Part <- 1 .. MaxParts,
                                     parts <- Wanted, applied <- Applied, told <- answer

\* The answers of the HTTP handlers say what became of a call's parts as
\* HttpPromise has it: SUCCESS only if all of them were applied, and a call
\* that is turned away leaves no trace.
PromiseKept == Promise!Spec

GTypeOK ==
  /\ api \in {"starts", "serves", "failed"} /\ asked \in [Http -> Asked \cup {None}]
  /\ at \in [Http -> 0 .. MaxParts] /\ answer \in [Http -> Promise!Answer \cup {NoAnswer}]

\* The parts of a call are sent in turn, the ones before have returned, one
\* way or another; and nothing of a call is sent that is turned away.
InTurn ==
  /\ GTypeOK
  /\ \A h \in Http :
       /\ \A i \in 1 .. MaxParts :
            /\ i > at[h] => call[<<h, i>>] = "new"
            /\ i < at[h] => call[<<h, i>>] \notin {"new", "waits"}
       /\ IF asked[h] = None THEN at[h] = 0 /\ answer[h] = NoAnswer
          ELSE at[h] <= PartsOf(asked[h])
       /\ answer[h] # NoAnswer => (answer[h].status \in Promise!TurnedAway => at[h] = 0)

\* A call is answered, whatever is lost, unless the process ends: a handler
\* waits 15 minutes for each part, and no longer.
EventuallyAnswered ==
  \A h \in Http : asked[h] # None ~> answer[h] # NoAnswer \/ main = "ended"
=============================================================================
