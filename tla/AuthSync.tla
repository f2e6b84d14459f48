------------------------------ MODULE AuthSync ------------------------------
(***************************************************************************)
(* Who may do what, and when that changes: the auth database of auth.go,   *)
(* which the goroutines that handle requests read under authDataLock, and  *)
(* which vault.go's syncVaultData rewrites from HashiCorp Vault while it   *)
(* holds that lock for writing.                                            *)
(*                                                                         *)
(* A handler takes the read lock twice at most: in securityProcessRequest, *)
(* and, for replace_owner, again in every database's transaction, where it *)
(* keeps the lock while it waits for a row that another handler has        *)
(* locked.  The lock is Go's RWMutex: a writer that waits keeps new        *)
(* readers out, and lets all that have come by then in when it unlocks.    *)
(*                                                                         *)
(* What the transactions do to the rows is the subject of OrmCommands;     *)
(* here a database has one row, that every edit of it locks.               *)
(***************************************************************************)
EXTENDS Integers, SequencesExt

CONSTANTS
  Handler,       \* the goroutines: each handles one request
  Token,         \* names of tokens
  Secret,        \* what a token's requests are signed with
  NoEntry,       \* what the auth database and Vault hold for other tokens
  Char,          \* what domain names and masks are made of
  Configured,    \* Configured[t]: the section [auth.t] of the configuration
  VaultSecret,   \* what may be stored in Vault under a token
  Request,       \* the requests that clients may send
  Databases,     \* how many databases a request goes to
  MaxChanges,    \* bound: changes of what Vault holds
  MaxFaults      \* bound: calls to Vault that fail

View     == {"public", "private", "*"}
Command  == {"create_record", "list_records", "delete_record", "create_domain",
             "list_domains", "replace_record", "search_record", "replace_owner"}
Name     == Seq(Char)

(***************************************************************************)
(* A key of an auth section or of a Vault secret, with the comma-separated *)
(* commands it permits, and what the parsers make of it.  Its parts are    *)
(* "mask" alone, "view,mask" or more, of which they keep none.  Views they *)
(* do not know drop the key, and commands the command.                     *)
(***************************************************************************)
Key        == [parts : Nat \ {0}, view : STRING, name : Name, cmds : SUBSET STRING]
Domain     == [view : View \cup {""}, name : Name]
Permission == [domain : Domain, cmds : SUBSET (Command \cup {"*"})]
Section    == [secret : Secret, keys : SUBSET Key]
Entry      == [secret : Secret, perms : SUBSET Permission, isVault : BOOLEAN]

KeyDomain(k) == CASE k.parts = 1 -> [view |-> "*", name |-> k.name]
                  [] k.parts = 2 -> [view |-> k.view, name |-> k.name]
                  [] OTHER       -> [view |-> "", name |-> <<>>]
Permissions(keys) ==
  {[domain |-> KeyDomain(k), cmds |-> k.cmds \cap (Command \cup {"*"})] :
     k \in {x \in keys : x.parts = 2 => x.view \in View}}
EntryOf(s, isVault) ==
  [secret |-> s.secret, perms |-> Permissions(s.keys), isVault |-> isVault]

RequestType ==
  [token : Token, secret : Secret, fresh : BOOLEAN, cmd : Command \cup {"list_own"},
   view : View, name : Name, newToken : Token]

ASSUME AuthAssumption ==
  /\ NoEntry \notin Entry /\ NoEntry \notin Section
  /\ Configured \in [Token -> Section \cup {NoEntry}]
  /\ VaultSecret \subseteq Section
  /\ Request \subseteq RequestType
  /\ Databases \in Nat \ {0}

Config(t) == IF Configured[t] = NoEntry THEN NoEntry ELSE EntryOf(Configured[t], FALSE)

VARIABLES
  auth,      \* auth[t]: the entry of token t in globalConfig.Auth
  readers,   \* the handlers that hold authDataLock for reading
  queued,    \* the handlers that wait for that behind a writer
  writer,    \* what the sync does with the lock: "no", "waits" or "holds"
  pc,        \* pc[w]: where handler w is
  req,       \* req[w]: its request
  db,        \* db[w]: the database its transaction is in
  row,       \* row[d]: the handler that has locked database d's row (a set)
  sync,      \* where the sync is
  first,     \* whether it is the first one, in Run before the consumers start
  listed,    \* the tokens of Vault's LIST it still has to GET
  fetched,   \* fetched[t]: tempTokens
  deleted,   \* the tokens whose deletion it has deferred
  vault,     \* vault[t]: what Vault holds for token t
  changes, faults,
  since,     \* history: since[t] is what Vault held for t since the last LIST
  dropped    \* history: the tokens whose GET has failed since then

lock     == <<readers, queued, writer>>
handlers == <<pc, req, db, row>>
syncing  == <<sync, first, listed, fetched, deleted>>
outside  == <<vault, changes, faults, since, dropped>>
vars == <<auth, lock, handlers, syncing, outside>>

Pc == {"new", "authenticate", "permit", "begin", "migrate", "update", "updated",
       "commit", "done", "rejected"}
SyncPc == {"sleep", "lock", "list", "get", "add", "delete", "unlock", "fail", "off"}

TypeOK ==
  /\ auth \in [Token -> Entry \cup {NoEntry}]
  /\ readers \subseteq Handler /\ queued \subseteq Handler
  /\ writer \in {"no", "waits", "holds"}
  /\ pc \in [Handler -> Pc] /\ req \in [Handler -> Request]
  /\ db \in [Handler -> 1 .. Databases] /\ row \in [1 .. Databases -> SUBSET Handler]
  /\ sync \in SyncPc /\ first \in BOOLEAN
  /\ listed \subseteq Token /\ fetched \in [Token -> Entry \cup {NoEntry}]
  /\ deleted \subseteq Token
  /\ vault \in [Token -> VaultSecret \cup {NoEntry}]
  /\ changes \in Nat /\ faults \in Nat
  /\ since \in [Token -> SUBSET (VaultSecret \cup {NoEntry})] /\ dropped \subseteq Token

Init ==
  /\ auth = [t \in Token |-> Config(t)]
  /\ readers = {} /\ queued = {} /\ writer = "no"
  /\ pc = [w \in Handler |-> "new"] /\ req \in [Handler -> Request]
  /\ db = [w \in Handler |-> 1] /\ row = [d \in 1 .. Databases |-> {}]
  /\ sync = "sleep" /\ first = TRUE
  /\ listed = {} /\ fetched = [t \in Token |-> NoEntry] /\ deleted = {}
  /\ vault \in [Token -> VaultSecret \cup {NoEntry}]
  /\ changes = 0 /\ faults = 0
  /\ since = [t \in Token |-> {}] /\ dropped = {}

-----------------------------------------------------------------------------
(* authDataLock.                                                           *)

At(w, p) == pc' = [pc EXCEPT ![w] = p]

\* RLock: w is at p, where it first waits until it is a reader.
RLock(w, p) ==
  /\ At(w, p)
  /\ IF writer = "no" THEN readers' = readers \cup {w} /\ queued' = queued
     ELSE queued' = queued \cup {w} /\ readers' = readers
  /\ UNCHANGED writer

RUnlock(w, p) ==
  /\ At(w, p)
  /\ readers' = readers \ {w}
  /\ UNCHANGED <<queued, writer>>

-----------------------------------------------------------------------------
(* securityProcessRequest.                                                 *)

Arrive(w) ==
  /\ pc[w] = "new" /\ ~first
  /\ RLock(w, "authenticate")
  /\ UNCHANGED <<auth, req, db, row, syncing, outside>>

\* The signature is of the token's secret, and not too old.
Authentic(q) == auth[q.token] # NoEntry /\ auth[q.token].secret = q.secret /\ q.fresh

Authenticate(w) ==
  /\ pc[w] = "authenticate" /\ w \in readers /\ Authentic(req[w])
  /\ At(w, "permit")
  /\ UNCHANGED <<auth, lock, req, db, row, syncing, outside>>

\* checkDomainMatch: one is a permission's domain, q a request.
DomainMatches(one, q) ==
  /\ one.view \in {q.view, "*"}
  /\ \/ one.name \in {q.name, <<"*">>}
     \/ one.name # <<>> /\ Head(one.name) = "*" /\ IsSuffix(Tail(one.name), q.name)

\* isPermitted, of a token that the auth database has.
Permitted(q) ==
  \/ q.cmd = "list_own"
  \/ \E p \in auth[q.token].perms : DomainMatches(p.domain, q) /\ p.cmds \cap {q.cmd, "*"} # {}

Accept(w) ==
  /\ pc[w] = "permit" /\ auth[req[w].token] # NoEntry /\ Permitted(req[w])
  /\ RUnlock(w, "begin")
  /\ UNCHANGED <<auth, req, db, row, syncing, outside>>

\* Variant of Reject: the lock is not released.
RejectHolding(w) ==
  /\ pc[w] = "authenticate" /\ w \in readers /\ ~Authentic(req[w])
  /\ At(w, "rejected")
  /\ UNCHANGED <<auth, lock, req, db, row, syncing, outside>>

Reject(w) ==
  /\ \/ pc[w] = "authenticate" /\ w \in readers /\ ~Authentic(req[w])
     \/ pc[w] = "permit" /\ (auth[req[w].token] = NoEntry \/ ~Permitted(req[w]))
  /\ RUnlock(w, "rejected")
  /\ UNCHANGED <<auth, req, db, row, syncing, outside>>

-----------------------------------------------------------------------------
(* The transactions, one per database.                                     *)

Migrates(w) == req[w].cmd = "replace_owner"
Edits(w)    == req[w].cmd \in {"create_record", "delete_record", "replace_record",
                               "replace_owner"}

Begin(w) ==
  /\ pc[w] = "begin"
  /\ IF Migrates(w) THEN RLock(w, "migrate") ELSE At(w, "update") /\ UNCHANGED lock
  /\ UNCHANGED <<auth, req, db, row, syncing, outside>>

\* Variant of Migrate: the lock is released after the check.
MigrateAndUnlock(w) ==
  /\ pc[w] = "migrate" /\ w \in readers /\ auth[req[w].newToken] # NoEntry
  /\ RUnlock(w, "update")
  /\ UNCHANGED <<auth, req, db, row, syncing, outside>>

Migrate(w) ==
  /\ pc[w] = "migrate" /\ w \in readers /\ auth[req[w].newToken] # NoEntry
  /\ At(w, "update")
  /\ UNCHANGED <<auth, lock, req, db, row, syncing, outside>>

CannotMigrate(w) ==
  /\ pc[w] = "migrate" /\ w \in readers /\ auth[req[w].newToken] = NoEntry
  /\ RUnlock(w, "done")
  /\ UNCHANGED <<auth, req, db, row, syncing, outside>>

\* The first statement that locks a row waits for its holder.
Update(w) ==
  /\ pc[w] = "update" /\ (Edits(w) => row[db[w]] = {})
  /\ row' = [row EXCEPT ![db[w]] = IF Edits(w) THEN {w} ELSE @]
  /\ At(w, "updated")
  /\ UNCHANGED <<auth, lock, req, db, syncing, outside>>

\* The deferred RUnlock runs before the transaction is committed.
Return(w) ==
  /\ pc[w] = "updated"
  /\ IF Migrates(w) THEN RUnlock(w, "commit") ELSE At(w, "commit") /\ UNCHANGED lock
  /\ UNCHANGED <<auth, req, db, row, syncing, outside>>

Commit(w) ==
  /\ pc[w] = "commit"
  /\ row' = [row EXCEPT ![db[w]] = @ \ {w}]
  /\ IF db[w] < Databases THEN db' = [db EXCEPT ![w] = @ + 1] /\ At(w, "begin")
     ELSE db' = db /\ At(w, "done")
  /\ UNCHANGED <<auth, lock, req, syncing, outside>>

-----------------------------------------------------------------------------
(* syncVaultData, in Run for the first time and then in a goroutine that   *)
(* repeats it after every ttl.  Each of its calls ends: the HTTP client    *)
(* has a timeout.                                                          *)

StartSync ==
  /\ sync = "sleep" /\ sync' = "lock"
  /\ writer' = "waits"
  /\ UNCHANGED <<auth, readers, queued, handlers, first, listed, fetched, deleted, outside>>

\* Variant of LockAuth: the sync does not wait for the readers.
LockAtOnce ==
  /\ sync = "lock"
  /\ sync' = "list" /\ writer' = "holds"
  /\ UNCHANGED <<auth, readers, queued, handlers, first, listed, fetched, deleted, outside>>

LockAuth ==
  /\ sync = "lock" /\ readers = {}
  /\ sync' = "list" /\ writer' = "holds"
  /\ UNCHANGED <<auth, readers, queued, handlers, first, listed, fetched, deleted, outside>>

InVault == {t \in Token : vault[t] # NoEntry}

List ==
  /\ sync = "list" /\ InVault # {} /\ sync' = "get"
  /\ listed' = InVault
  /\ fetched' = [t \in Token |-> NoEntry]
  /\ since' = [t \in Token |-> {vault[t]}] /\ dropped' = {}
  /\ UNCHANGED <<auth, lock, handlers, first, deleted, vault, changes, faults>>

\* The call fails or its answer has no "data", as that of an empty path.
ListFails ==
  /\ sync = "list" /\ sync' = "fail"
  /\ \/ InVault = {} /\ UNCHANGED faults
     \/ faults < MaxFaults /\ faults' = faults + 1
  /\ UNCHANGED <<auth, lock, handlers, first, listed, fetched, deleted, vault, changes,
                 since, dropped>>

VaultEntry(t) == IF vault[t] = NoEntry THEN NoEntry ELSE EntryOf(vault[t], TRUE)

\* The GET of a token that Vault has lost meanwhile has no "data".
Get(t) ==
  /\ sync = "get" /\ t \in listed
  /\ listed' = listed \ {t}
  /\ fetched' = [fetched EXCEPT ![t] = VaultEntry(t)]
  /\ UNCHANGED <<auth, lock, handlers, sync, first, deleted, outside>>

GetFails(t) ==
  /\ sync = "get" /\ t \in listed /\ faults < MaxFaults
  /\ listed' = listed \ {t}
  /\ faults' = faults + 1 /\ dropped' = dropped \cup {t}
  /\ UNCHANGED <<auth, lock, handlers, sync, first, fetched, deleted, vault, changes, since>>

VaultTokens == {t \in Token : auth[t] # NoEntry /\ auth[t].isVault}

\* Variant of UpdateTokens: a token that is there already stays as it is.
KeepTokens ==
  /\ sync = "get" /\ listed = {} /\ sync' = "add"
  /\ deleted' = {t \in VaultTokens : fetched[t] = NoEntry}
  /\ UNCHANGED <<auth, lock, handlers, first, listed, fetched, outside>>

UpdateTokens ==
  /\ sync = "get" /\ listed = {} /\ sync' = "add"
  /\ auth' = [t \in Token |-> IF t \in VaultTokens /\ fetched[t] # NoEntry
                              THEN fetched[t] ELSE auth[t]]
  /\ deleted' = {t \in VaultTokens : fetched[t] = NoEntry}
  /\ UNCHANGED <<lock, handlers, first, listed, fetched, outside>>

\* Variant of AddTokens: Vault's tokens replace those of the configuration.
AddAllTokens ==
  /\ sync = "add" /\ sync' = "delete"
  /\ auth' = [t \in Token |-> IF fetched[t] # NoEntry THEN fetched[t] ELSE auth[t]]
  /\ UNCHANGED <<lock, handlers, first, listed, fetched, deleted, outside>>

AddTokens ==
  /\ sync = "add" /\ sync' = "delete"
  /\ auth' = [t \in Token |-> IF auth[t] = NoEntry THEN fetched[t] ELSE auth[t]]
  /\ UNCHANGED <<lock, handlers, first, listed, fetched, deleted, outside>>

\* Variant of DeleteTokens: the tokens that Vault has lost stay.
DeleteNoTokens ==
  /\ sync = "delete" /\ sync' = "unlock"
  /\ fetched' = [t \in Token |-> NoEntry] /\ deleted' = {}
  /\ UNCHANGED <<auth, lock, handlers, first, listed, outside>>

\* The deferred deletions run before the deferred Unlock.
DeleteTokens ==
  /\ sync = "delete" /\ sync' = "unlock"
  /\ auth' = [t \in Token |-> IF t \in deleted THEN NoEntry ELSE auth[t]]
  /\ fetched' = [t \in Token |-> NoEntry] /\ deleted' = {}
  /\ UNCHANGED <<lock, handlers, first, listed, outside>>

\* Run gives the synchronisation up when its first attempt fails.
UnlockAuth ==
  /\ sync \in {"unlock", "fail"}
  /\ sync' = IF sync = "fail" /\ first THEN "off" ELSE "sleep"
  /\ first' = FALSE
  /\ writer' = "no" /\ readers' = queued /\ queued' = {}
  /\ since' = [t \in Token |-> {}] /\ dropped' = {}
  /\ UNCHANGED <<auth, handlers, listed, fetched, deleted, vault, changes, faults>>

-----------------------------------------------------------------------------
\* Somebody stores a token in Vault, changes it or removes it.
ChangeVault(t) ==
  /\ changes < MaxChanges /\ changes' = changes + 1
  /\ \E s \in (VaultSecret \cup {NoEntry}) \ {vault[t]} :
       /\ vault' = [vault EXCEPT ![t] = s]
       /\ since' = [since EXCEPT ![t] = IF sync \in {"get", "add", "delete", "unlock"}
                                        THEN @ \cup {s} ELSE @]
  /\ UNCHANGED <<auth, lock, handlers, syncing, faults, dropped>>

Ended(w) == pc[w] \in {"done", "rejected"}
Terminated == sync = "off" /\ (\A w \in Handler : Ended(w)) /\ UNCHANGED vars

Handle(w) ==
  \/ Arrive(w) \/ Authenticate(w) \/ Accept(w) \/ Reject(w)
  \/ Begin(w) \/ Migrate(w) \/ CannotMigrate(w) \/ Update(w) \/ Return(w) \/ Commit(w)
Synchronise ==
  \/ StartSync \/ LockAuth \/ List \/ ListFails
  \/ \E t \in Token : Get(t) \/ GetFails(t)
  \/ UpdateTokens \/ AddTokens \/ DeleteTokens \/ UnlockAuth

Next ==
  \/ \E w \in Handler : Handle(w)
  \/ Synchronise
  \/ \E t \in Token : ChangeVault(t)
  \/ Terminated

Spec     == Init /\ [][Next]_vars
FairSpec == Spec /\ WF_vars(Synchronise) /\ \A w \in Handler : WF_vars(Handle(w))

-----------------------------------------------------------------------------
(* Properties.                                                             *)

\* Whatever Vault holds, a token of the configuration keeps the secret and
\* the permissions it was configured with.
ConfigKept == \A t \in Token : Configured[t] # NoEntry => auth[t] = Config(t)

\* e is what Vault has held for t since the LIST, or t's GET has failed.
Seen(t, e) ==
  \/ \E s \in since[t] \ {NoEntry} : e = EntryOf(s, TRUE)
  \/ e = NoEntry /\ (NoEntry \in since[t] \/ t \in dropped)

\* A sync that succeeds leaves no token but with what Vault has held since
\* its LIST: a revocation, or a new secret, takes effect; and none is lost
\* that Vault held all along, unless its GET failed.
Refreshed ==
  sync = "unlock" => \A t \in Token : Configured[t] = NoEntry => Seen(t, auth[t])

\* What a handler has read of the auth database holds for as long as it has
\* the lock: a verdict is never about two versions of a token.
StableForReaders == [][readers # {} => auth' = auth]_vars

\* replace_owner hands rows to a token that exists when it does.
MigrateTarget ==
  \A w \in Handler : pc[w] = "updated" /\ Migrates(w) => auth[req[w].newToken] # NoEntry

\* Every request is answered: neither Vault nor the row locks that
\* replace_owner waits for under the lock block the handlers for good.
EventuallyAnswered == \A w \in Handler : <>Ended(w)

\* Once Vault is left alone, the auth database comes to agree with it,
\* unless the synchronisation was given up or Vault's path is empty.
Converges ==
  <>[](\/ sync = "off" \/ InVault = {}
       \/ \A t \in Token : Configured[t] = NoEntry => auth[t] = VaultEntry(t))
-----------------------------------------------------------------------------
(* The inductive invariant.                                                *)

Holding == {"list", "get", "add", "delete", "unlock", "fail"}

\* The lock is where the sync and the handlers take it to be.
Locking ==
  /\ writer = IF sync \in Holding THEN "holds" ELSE IF sync = "lock" THEN "waits" ELSE "no"
  /\ writer = "holds" => readers = {}
  /\ writer = "no" => queued = {}
  /\ \A w \in Handler :
       pc[w] = "permit" \/ (pc[w] \in {"update", "updated"} /\ Migrates(w)) => w \in readers

\* A handler that migrates has seen the token that it migrates to.
Targets ==
  \A w \in Handler :
    pc[w] \in {"update", "updated"} /\ Migrates(w) => auth[req[w].newToken] # NoEntry

\* The configuration's tokens are not Vault's, and the others are.
Origins ==
  /\ \A t \in deleted : Configured[t] = NoEntry
  /\ \A t \in Token : Configured[t] = NoEntry /\ auth[t] # NoEntry => auth[t].isVault

\* What the sync has fetched is that, and so is what it has merged.
Fetching ==
  /\ sync \in {"get", "add", "delete", "unlock"} => \A t \in Token : vault[t] \in since[t]
  /\ sync \in {"get", "add", "delete"} => \A t \in Token \ listed : Seen(t, fetched[t])
  /\ sync = "get" => \A t \in listed : fetched[t] = NoEntry
  /\ sync \in {"add", "delete"} => listed = {}

Merging ==
  sync \in {"add", "delete"} => \A t \in Token : Configured[t] = NoEntry =>
    \/ t \in deleted /\ fetched[t] = NoEntry
    \/ t \notin deleted /\ (auth[t] = fetched[t] \/ (sync = "add" /\ auth[t] = NoEntry))

IInv ==
  /\ TypeOK /\ ConfigKept /\ Locking /\ Targets /\ Origins
  /\ Fetching /\ Merging /\ Refreshed
=============================================================================
