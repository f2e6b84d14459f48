--------------------------- MODULE AuthSync_proofs ---------------------------
(***************************************************************************)
(* Proofs about AuthSync, for every configuration, every content of Vault, *)
(* and any number of handlers, tokens and databases.                       *)
(***************************************************************************)
EXTENDS AuthSync, TLAPS

-----------------------------------------------------------------------------
(* Lemmas about the operators.                                             *)

\* What the parsers make of a section is an entry of the auth database.
LEMMA EntryTyped == ASSUME NEW s \in Section, NEW v \in BOOLEAN
                    PROVE  EntryOf(s, v) \in Entry /\ EntryOf(s, v).isVault = v
<1>1. ASSUME NEW k \in Key, k.parts = 2 => k.view \in View PROVE KeyDomain(k) \in Domain
  <2>1. "*" \in View /\ k.name \in Name /\ <<>> \in Name BY DEF Key, View, Name
  <2>2. CASE k.parts = 1 BY <2>1, <2>2 DEF KeyDomain, Domain
  <2>3. CASE k.parts = 2 BY <1>1, <2>1, <2>3 DEF KeyDomain, Domain
  <2>4. CASE k.parts \notin {1, 2} BY <2>1, <2>4 DEF KeyDomain, Domain
  <2> QED BY <2>2, <2>3, <2>4
<1>2. Permissions(s.keys) \subseteq Permission
  BY <1>1 DEF Permissions, Section, Permission
<1> QED BY <1>2 DEF EntryOf, Entry, Section

\* The configuration gives its tokens entries that are not Vault's.
LEMMA ConfigTyped == ASSUME NEW t \in Token, Configured[t] # NoEntry
                     PROVE  Config(t) \in Entry /\ Config(t) # NoEntry /\ ~Config(t).isVault
<1>1. Configured[t] \in Section
  BY AuthAssumption DEF AuthAssumption
<1> QED BY <1>1, EntryTyped, AuthAssumption DEF AuthAssumption, Config

\* Vault's tokens get entries that are.
LEMMA VaultTyped == ASSUME NEW s \in VaultSecret
                    PROVE  /\ EntryOf(s, TRUE) \in Entry /\ EntryOf(s, TRUE) # NoEntry
                           /\ EntryOf(s, TRUE).isVault /\ s # NoEntry
BY EntryTyped, AuthAssumption DEF AuthAssumption

\* The requests of an instance are records of the request type.
LEMMA RequestTyped == ASSUME NEW q \in Request PROVE q.newToken \in Token /\ q.token \in Token
BY AuthAssumption DEF AuthAssumption, RequestType

-----------------------------------------------------------------------------
(* Type correctness.                                                       *)

\* Every variable has its type at first.
LEMMA InitTyped == Init => TypeOK
<1> SUFFICES ASSUME Init PROVE TypeOK
  OBVIOUS
<1>1. auth \in [Token -> Entry \cup {NoEntry}]
  BY ConfigTyped DEF Init, Config
<1> QED BY <1>1, AuthAssumption DEF Init, TypeOK, AuthAssumption, Pc, SyncPc

\* A step of a handler leaves every variable its type.
LEMMA HandleTyped == ASSUME TypeOK, NEW w \in Handler, Handle(w) PROVE TypeOK'
<1> USE DEF TypeOK, Pc, RLock, RUnlock, At, lock, handlers, syncing, outside
<1>1. CASE Arrive(w) BY <1>1 DEF Arrive
<1>2. CASE Authenticate(w) BY <1>2 DEF Authenticate
<1>3. CASE Accept(w) BY <1>3 DEF Accept
<1>4. CASE Reject(w) BY <1>4 DEF Reject
<1>5. CASE Begin(w) BY <1>5 DEF Begin
<1>6. CASE Migrate(w) BY <1>6 DEF Migrate
<1>7. CASE CannotMigrate(w) BY <1>7 DEF CannotMigrate
<1>8. CASE Update(w) BY <1>8 DEF Update
<1>9. CASE Return(w) BY <1>9 DEF Return
<1>10. CASE Commit(w)
  <2>1. db[w] \in 1 .. Databases /\ Databases \in Nat
    BY AuthAssumption DEF AuthAssumption
  <2>2. row' \in [1 .. Databases -> SUBSET Handler]
    BY <1>10, <2>1 DEF Commit
  <2>3. CASE db[w] < Databases
    <3>1. db' \in [Handler -> 1 .. Databases]
      BY <1>10, <2>1, <2>3 DEF Commit
    <3> QED BY <1>10, <2>2, <2>3, <3>1 DEF Commit
  <2>4. CASE ~(db[w] < Databases)
    BY <1>10, <2>2, <2>4 DEF Commit
  <2> QED BY <2>3, <2>4
<1> QED BY <1>1, <1>2, <1>3, <1>4, <1>5, <1>6, <1>7, <1>8, <1>9, <1>10 DEF Handle

\* What Vault holds for a token makes an entry, or none.
LEMMA VaultEntryTyped == ASSUME TypeOK, NEW t \in Token
                         PROVE  VaultEntry(t) \in Entry \cup {NoEntry}
BY VaultTyped DEF VaultEntry, TypeOK

\* A step of the sync leaves every variable its type.
LEMMA SyncTyped == ASSUME TypeOK, Synchronise PROVE TypeOK'
<1> USE DEF TypeOK, SyncPc, lock, handlers, syncing, outside
<1>1. CASE StartSync BY <1>1 DEF StartSync
<1>2. CASE LockAuth BY <1>2 DEF LockAuth
<1>3. CASE List BY <1>3 DEF List, InVault
<1>4. CASE ListFails BY <1>4 DEF ListFails
<1>5. ASSUME NEW t \in Token, Get(t) PROVE TypeOK'
  BY <1>5, VaultEntryTyped DEF Get
<1>6. ASSUME NEW t \in Token, GetFails(t) PROVE TypeOK'
  BY <1>6 DEF GetFails
<1>7. CASE UpdateTokens BY <1>7 DEF UpdateTokens, VaultTokens
<1>8. CASE AddTokens BY <1>8 DEF AddTokens
<1>9. CASE DeleteTokens BY <1>9 DEF DeleteTokens
<1>10. CASE UnlockAuth BY <1>10 DEF UnlockAuth
<1> QED BY <1>1, <1>2, <1>3, <1>4, <1>5, <1>6, <1>7, <1>8, <1>9, <1>10 DEF Synchronise

\* A change of Vault leaves every variable its type.
LEMMA ChangeTyped == ASSUME TypeOK, NEW t \in Token, ChangeVault(t) PROVE TypeOK'
BY DEF ChangeVault, TypeOK, lock, handlers, syncing, outside

-----------------------------------------------------------------------------
(* The inductive invariant.                                                *)

\* It holds at first.
LEMMA InitInvariant == Init => IInv
<1> SUFFICES ASSUME Init PROVE IInv
  OBVIOUS
<1>1. ConfigKept /\ Origins
  BY DEF Init, ConfigKept, Origins, Config
<1>2. Locking /\ Targets
  BY DEF Init, Locking, Targets, Holding
<1>3. Fetching /\ Merging /\ Refreshed
  BY DEF Init, Fetching, Merging, Refreshed
<1> QED BY <1>1, <1>2, <1>3, InitTyped DEF IInv

\* A handler's step keeps it: it changes neither the auth database nor what
\* the sync has done, and takes the read lock only where nobody writes.
LEMMA HandleInvariant == ASSUME IInv, NEW w \in Handler, Handle(w) PROVE IInv'
<1> USE DEF lock, handlers, syncing, outside
<1>1. /\ UNCHANGED <<auth, writer, req, syncing, outside>>
      /\ \A v \in Handler \ {w} : pc'[v] = pc[v]
  BY DEF IInv, TypeOK, Handle, Arrive, Authenticate, Accept, Reject, Begin, Migrate,
         CannotMigrate, Update, Return, Commit, RLock, RUnlock, At
<1>2. TypeOK'
  BY HandleTyped DEF IInv
<1>3. ConfigKept' /\ Origins'
  BY <1>1 DEF IInv, ConfigKept, Origins
<1>4. Fetching' /\ Merging' /\ Refreshed'
  BY <1>1 DEF IInv, Fetching, Merging, Refreshed, Seen
<1>5. Locking' /\ Targets'
  <2> USE DEF IInv, TypeOK, Locking, Targets, Migrates, Holding, RLock, RUnlock, At
  <2>1. CASE Arrive(w) BY <2>1 DEF Arrive
  <2>2. CASE Authenticate(w) BY <2>2 DEF Authenticate
  <2>3. CASE Accept(w) BY <2>3 DEF Accept
  <2>4. CASE Reject(w) BY <2>4 DEF Reject
  <2>5. CASE Begin(w) BY <2>5 DEF Begin
  <2>6. CASE Migrate(w) BY <2>6 DEF Migrate
  <2>7. CASE CannotMigrate(w) BY <2>7 DEF CannotMigrate
  <2>8. CASE Update(w) BY <2>8 DEF Update
  <2>9. CASE Return(w) BY <2>9 DEF Return
  <2>10. CASE Commit(w) BY <2>10 DEF Commit
  <2> QED BY <2>1, <2>2, <2>3, <2>4, <2>5, <2>6, <2>7, <2>8, <2>9, <2>10 DEF Handle
<1> QED BY <1>2, <1>3, <1>4, <1>5 DEF IInv

\* What Vault has held since the LIST only grows until the lock is released.
LEMMA SeenGrows ==
  ASSUME NEW t \in Token, NEW e, Seen(t, e), since[t] \subseteq since'[t], dropped \subseteq dropped'
  PROVE  Seen(t, e)'
BY DEF Seen

\* A step of the sync keeps it.
LEMMA SyncInvariant == ASSUME IInv, Synchronise PROVE IInv'
<1> USE DEF lock, handlers, syncing, outside
<1>1. TypeOK'
  BY SyncTyped DEF IInv
<1> USE DEF IInv
<1>2. Locking'
  <2> USE DEF Locking, Holding, Migrates, TypeOK
  <2>1. CASE StartSync BY <2>1 DEF StartSync
  <2>2. CASE LockAuth BY <2>2 DEF LockAuth
  <2>3. CASE List BY <2>3 DEF List
  <2>4. CASE ListFails BY <2>4 DEF ListFails
  <2>5. ASSUME NEW t \in Token, Get(t) \/ GetFails(t) PROVE Locking'
    BY <2>5 DEF Get, GetFails
  <2>6. CASE UpdateTokens BY <2>6 DEF UpdateTokens
  <2>7. CASE AddTokens BY <2>7 DEF AddTokens
  <2>8. CASE DeleteTokens BY <2>8 DEF DeleteTokens
  <2>9. CASE UnlockAuth BY <2>9 DEF UnlockAuth
  <2> QED BY <2>1, <2>2, <2>3, <2>4, <2>5, <2>6, <2>7, <2>8, <2>9 DEF Synchronise
<1>3. Targets'
  \* The auth database changes only while no handler reads it.
  <2>1. auth' = auth \/ readers = {}
    BY DEF Synchronise, StartSync, LockAuth, List, ListFails, Get, GetFails, UpdateTokens,
           AddTokens, DeleteTokens, UnlockAuth, Locking, Holding
  <2>2. UNCHANGED <<pc, req>>
    BY DEF Synchronise, StartSync, LockAuth, List, ListFails, Get, GetFails, UpdateTokens,
           AddTokens, DeleteTokens, UnlockAuth
  <2> QED BY <2>1, <2>2 DEF Targets, Locking, Migrates
<1>4. ConfigKept' /\ Origins'
  <2> USE DEF ConfigKept, Origins, TypeOK
  <2>1. CASE auth' = auth /\ deleted' \subseteq deleted
    BY <2>1
  <2>2. CASE UpdateTokens
    <3>1. \A t \in Token : Configured[t] # NoEntry => t \notin VaultTokens
      BY ConfigTyped DEF VaultTokens
    <3>2. \A t \in Token : fetched[t] # NoEntry /\ Configured[t] = NoEntry => fetched[t].isVault
      BY <2>2, VaultTyped DEF UpdateTokens, Fetching, Seen
    <3> QED BY <2>2, <3>1, <3>2 DEF UpdateTokens, VaultTokens
  <2>3. CASE AddTokens
    <3>1. \A t \in Token : fetched[t] # NoEntry /\ Configured[t] = NoEntry => fetched[t].isVault
      BY <2>3, VaultTyped DEF AddTokens, Fetching, Seen
    <3> QED BY <2>3, <3>1, ConfigTyped DEF AddTokens
  <2>4. CASE DeleteTokens BY <2>4 DEF DeleteTokens
  <2> QED BY <2>1, <2>2, <2>3, <2>4
          DEF Synchronise, StartSync, LockAuth, List, ListFails, Get, GetFails, UnlockAuth
<1>5. Fetching'
  <2> USE DEF Fetching, TypeOK
  <2>1. CASE List
    BY <2>1 DEF List, InVault, Seen
  <2>2. ASSUME NEW t \in Token, Get(t) PROVE Fetching'
    <3>1. Seen(t, VaultEntry(t))
      BY <2>2, VaultTyped DEF Get, Seen, VaultEntry
    <3>2. \A u \in Token \ listed : Seen(u, fetched[u])
      BY <2>2 DEF Get
    <3>3. \A u \in Token \ listed' : Seen(u, fetched'[u])
      BY <2>2, <3>1, <3>2 DEF Get
    <3>4. \A u \in Token \ listed' : Seen(u, fetched[u])'
      BY <2>2, <3>3 DEF Get, Seen
    <3> QED BY <2>2, <3>4 DEF Get
  <2>3. ASSUME NEW t \in Token, GetFails(t) PROVE Fetching'
    <3>1. fetched[t] = NoEntry /\ t \in dropped'
      BY <2>3 DEF GetFails
    <3>2. \A u \in Token \ listed' : Seen(u, fetched[u])'
      BY <2>3, <3>1 DEF GetFails, Seen
    <3> QED BY <2>3, <3>2 DEF GetFails
  <2>4. CASE UpdateTokens BY <2>4 DEF UpdateTokens, Seen
  <2>5. CASE AddTokens BY <2>5 DEF AddTokens, Seen
  <2>6. CASE DeleteTokens BY <2>6 DEF DeleteTokens
  <2> QED BY <2>1, <2>2, <2>3, <2>4, <2>5, <2>6
          DEF Synchronise, StartSync, LockAuth, ListFails, UnlockAuth
<1>6. Merging'
  <2> USE DEF Merging, TypeOK
  <2>1. CASE UpdateTokens
    BY <2>1 DEF UpdateTokens, VaultTokens, Origins
  <2>2. CASE AddTokens BY <2>2 DEF AddTokens
  <2> QED BY <2>1, <2>2 DEF Synchronise, StartSync, LockAuth, List, ListFails, Get, GetFails,
                            DeleteTokens, UnlockAuth
<1>7. Refreshed'
  <2>1. CASE DeleteTokens
    BY <2>1 DEF DeleteTokens, Refreshed, Merging, Fetching, Seen, TypeOK
  <2> QED BY <2>1 DEF Synchronise, StartSync, LockAuth, List, ListFails, Get, GetFails,
                      UpdateTokens, AddTokens, UnlockAuth, Refreshed
<1> QED BY <1>1, <1>2, <1>3, <1>4, <1>5, <1>6, <1>7

\* A change of Vault keeps it: what Vault holds now is among what it has held.
LEMMA ChangeInvariant == ASSUME IInv, NEW t \in Token, ChangeVault(t) PROVE IInv'
<1> USE DEF lock, handlers, syncing, outside, IInv
<1>1. TypeOK'
  BY ChangeTyped
<1>2. UNCHANGED <<auth, lock, handlers, syncing, dropped>>
  BY DEF ChangeVault
<1>3. \A u \in Token : since[u] \subseteq since'[u]
  BY DEF ChangeVault, TypeOK
<1>4. Locking' /\ Targets' /\ ConfigKept' /\ Origins' /\ Merging'
  BY <1>2 DEF Locking, Targets, ConfigKept, Origins, Merging, Migrates
<1>5. Fetching'
  <2>1. sync \in {"get", "add", "delete", "unlock"} => \A u \in Token : vault'[u] \in since'[u]
    BY DEF ChangeVault, TypeOK, Fetching
  <2> QED BY <1>2, <1>3, <2>1, SeenGrows DEF Fetching
<1>6. Refreshed'
  BY <1>2, <1>3, SeenGrows DEF Refreshed
<1> QED BY <1>1, <1>2, <1>4, <1>5, <1>6

-----------------------------------------------------------------------------
(* What every behaviour of the specification satisfies.                    *)

\* Every step keeps the inductive invariant.
LEMMA StepInvariant == IInv /\ [Next]_vars => IInv'
<1> SUFFICES ASSUME IInv, [Next]_vars PROVE IInv'
  OBVIOUS
<1>1. CASE UNCHANGED vars
  <2>1. TypeOK'
    BY <1>1 DEF IInv, TypeOK, vars, lock, handlers, syncing, outside
  <2> QED BY <1>1, <2>1 DEF vars, lock, handlers, syncing, outside, IInv, ConfigKept, Locking,
             Targets, Migrates, Origins, Fetching, Merging, Refreshed, Seen
<1>2. CASE Terminated
  BY <1>1, <1>2 DEF Terminated
<1> QED BY <1>1, <1>2, HandleInvariant, SyncInvariant, ChangeInvariant DEF Next

\* The inductive invariant holds in every reachable state.
THEOREM AuthInvariance == Spec => []IInv
BY InitInvariant, StepInvariant, PTL DEF Spec

\* Every variable keeps its type.
THEOREM AuthTypeCorrect == Spec => []TypeOK
<1>1. IInv => TypeOK
  BY DEF IInv
<1> QED BY <1>1, AuthInvariance, PTL

\* No sync changes a token of the configuration.
THEOREM ConfigurationKept == Spec => []ConfigKept
<1>1. IInv => ConfigKept
  BY DEF IInv
<1> QED BY <1>1, AuthInvariance, PTL

\* A sync that succeeds leaves Vault's tokens with what Vault has held since
\* its LIST.
THEOREM Freshened == Spec => []Refreshed
<1>1. IInv => Refreshed
  BY DEF IInv
<1> QED BY <1>1, AuthInvariance, PTL

\* A record changes hands only to a token that exists at the time.
THEOREM HandoverTarget == Spec => []MigrateTarget
<1>1. IInv => MigrateTarget
  BY DEF IInv, Targets, MigrateTarget
<1> QED BY <1>1, AuthInvariance, PTL

\* No step changes the auth database under a handler that reads it.
THEOREM ReadersUndisturbed == Spec => StableForReaders
<1>1. IInv /\ [Next]_vars => [readers # {} => auth' = auth]_vars
  <2> SUFFICES ASSUME IInv, Next, readers # {} PROVE auth' = auth
    OBVIOUS
  <2> USE DEF lock, handlers, syncing, outside, vars
  <2>1. ASSUME NEW w \in Handler, Handle(w) PROVE auth' = auth
    BY <2>1 DEF Handle, Arrive, Authenticate, Accept, Reject, Begin, Migrate, CannotMigrate,
               Update, Return, Commit
  <2>2. CASE Synchronise
    BY <2>2 DEF IInv, Locking, Holding, Synchronise, StartSync, LockAuth, List, ListFails, Get,
               GetFails, UpdateTokens, AddTokens, DeleteTokens, UnlockAuth
  <2>3. ASSUME NEW t \in Token, ChangeVault(t) PROVE auth' = auth
    BY <2>3 DEF ChangeVault
  <2> QED BY <2>1, <2>2, <2>3 DEF Next, Terminated
<1> QED BY <1>1, AuthInvariance, PTL DEF Spec, StableForReaders
=============================================================================
