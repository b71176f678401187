----------------------------- MODULE Versioning -----------------------------
(***************************************************************************)
(* versioning/engine.py: MemoryVersioning over a memory store that other   *)
(* callers write to.  commit and rollback await the store: commit lists    *)
(* the rows and records the commit when the answer is there, rollback      *)
(* lists them and then puts back the missing ones one await at a time.     *)
(*                                                                         *)
(* A commit id is the position in commits: ids are never reused.  A        *)
(* definition introduced by "Fault:" is a deliberately wrong variant of    *)
(* the one after it; no specification uses it.                             *)
(***************************************************************************)
EXTENDS MemoryStore, Sequences

CONSTANTS
    Callers, Branches,
    Limit,       \* the limit commit and rollback list with, 4096 in the code
    MaxCommits   \* bound: commits recorded in a behaviour

ASSUME LimitAssumption == Limit \in Nat \ {0} /\ MaxCommits \in Nat

VARIABLES
    table,     \* the rows of the store
    commits,   \* every Commit recorded, with the scope it was made in
    heads,     \* per tenant, the head of each branch; None if unset
    pc,        \* what each caller is doing
    ctx,       \* the SecurityContext of its call, NoScope between calls
    snap,      \* the rows it commits
    target,    \* the commit it rolls back to, None unless it is doing so
    todo       \* the rows it has yet to put back

vars == <<table, commits, heads, pc, ctx, snap, target, todo>>

None == 0
NoScope == <<>>

TypeOK ==
    /\ table \subseteq Row
    /\ commits \in Seq([scope : Scope, snapshot : SUBSET Row])
    /\ heads \in [Tenants -> [Branches -> Nat]]
    /\ pc \in [Callers -> {"idle", "commit", "rollback"}]
    /\ ctx \in [Callers -> Scope \cup {NoScope}]
    /\ snap \in [Callers -> SUBSET Row]
    /\ target \in [Callers -> Nat]
    /\ todo \in [Callers -> SUBSET Row]

Init ==
    /\ table = {}
    /\ commits = <<>>
    /\ heads = [t \in Tenants |-> [b \in Branches |-> None]]
    /\ pc = [c \in Callers |-> "idle"]
    /\ ctx = [c \in Callers |-> NoScope]
    /\ snap = [c \in Callers |-> {}]
    /\ target = [c \in Callers |-> None]
    /\ todo = [c \in Callers |-> {}]

\* c is in an operation called with s, or has returned from it.
Enter(c, label, s) == pc' = [pc EXCEPT ![c] = label] /\ ctx' = [ctx EXCEPT ![c] = s]
Leave(c)           == Enter(c, "idle", NoScope)

-----------------------------------------------------------------------------
(* commit                                                                  *)

\* The store answers with the rows to snapshot.  A commit that is cancelled after
\* this records nothing; a listing that raises changes nothing, here and below.
CommitRead(c) ==
    /\ pc[c] = "idle"
    /\ \E s \in Scope :
         /\ Enter(c, "commit", s)
         /\ \E rows \in Listings(table, s, Limit) : snap' = [snap EXCEPT ![c] = rows]
    /\ UNCHANGED <<table, commits, heads, target, todo>>

\* The commit is recorded under a new id and becomes the head of the branch it
\* was called with, which nothing has read until now.
CommitRecord(c) ==
    /\ pc[c] = "commit" /\ Len(commits) < MaxCommits
    /\ commits' = Append(commits, [scope |-> ctx[c], snapshot |-> snap[c]])
    /\ \E b \in Branches : heads' = [heads EXCEPT ![ctx[c].tenant][b] = Len(commits) + 1]
    /\ snap' = [snap EXCEPT ![c] = {}]
    /\ Leave(c)
    /\ UNCHANGED <<table, target, todo>>

\* branch: the new name gets the other's head, set or not; no await.
Branch(t, name, from) ==
    /\ heads' = [heads EXCEPT ![t][name] = heads[t][from]]
    /\ UNCHANGED <<table, commits, pc, ctx, snap, target, todo>>

-----------------------------------------------------------------------------
(* rollback                                                                *)

\* get: a commit is found under its tenant only.
Found(s, cid) == cid \in 1 .. Len(commits) /\ commits[cid].scope.tenant = s.tenant

\* The loop goes on while rows are to be put back.
Restoring(c, s, cid, rows) ==
    /\ todo' = [todo EXCEPT ![c] = rows]
    /\ target' = [target EXCEPT ![c] = IF rows = {} THEN None ELSE cid]
    /\ IF rows = {} THEN Leave(c) ELSE Enter(c, "rollback", s)

\* Fault: what is missing is worked out against the branch's head, not the store.
RollbackReadHead(c, cid) ==
    /\ pc[c] = "idle"
    /\ \E s \in Scope, b \in Branches :
         /\ Found(s, cid) /\ heads[s.tenant][b] # None
         /\ Restoring(c, s, cid, commits[cid].snapshot \ commits[heads[s.tenant][b]].snapshot)
    /\ UNCHANGED <<table, commits, heads, snap>>

\* The store answers with the rows present; those of the snapshot that are not
\* among them are to be put back.  An id not found raises and changes nothing.
RollbackRead(c, cid) ==
    /\ pc[c] = "idle"
    /\ \E s \in Scope :
         /\ Found(s, cid)
         /\ \E present \in Listings(table, s, Limit) :
              Restoring(c, s, cid, commits[cid].snapshot \ present)
    /\ UNCHANGED <<table, commits, heads, snap>>

\* One missing row is put back as it was.
RestoreOne(c) ==
    /\ pc[c] = "rollback"
    /\ \E m \in todo[c] :
         /\ Accepts(table, ctx[c], m)
         /\ table' = AddRow(table, m)
         /\ Restoring(c, ctx[c], target[c], todo[c] \ {m})
    /\ UNCHANGED <<commits, heads, snap>>

\* Fault: a refused row is passed over.
RestorePassesOver(c) ==
    /\ pc[c] = "rollback"
    /\ \E m \in todo[c] : ~Accepts(table, ctx[c], m) /\ Restoring(c, ctx[c], target[c], todo[c] \ {m})
    /\ UNCHANGED <<table, commits, heads, snap>>

\* The store refuses a row, or raises, or the call is cancelled: the rollback ends
\* with what it has restored.
RestoreFails(c) ==
    /\ pc[c] = "rollback"
    /\ todo' = [todo EXCEPT ![c] = {}]
    /\ target' = [target EXCEPT ![c] = None]
    /\ Leave(c)
    /\ UNCHANGED <<table, commits, heads, snap>>

-----------------------------------------------------------------------------
(* The environment.                                                        *)

\* Every row that is stored, committed or being committed.
Known ==
    table \cup (UNION {commits[i].snapshot : i \in 1 .. Len(commits)})
          \cup (UNION {snap[c] : c \in Callers})

\* MemoryEngine.write of a new memory: its scope is the caller's.
Write ==
    /\ \E m \in Row :
         /\ \A n \in Known : n.id # m.id
         /\ table' = AddRow(table, m)
    /\ UNCHANGED <<commits, heads, pc, ctx, snap, target, todo>>

\* The store loses its rows; assumed not to happen while a rollback repairs it.
Lose ==
    /\ \A c \in Callers : pc[c] # "rollback"
    /\ table # {} /\ table' = {}
    /\ UNCHANGED <<commits, heads, pc, ctx, snap, target, todo>>

Next ==
    \/ \E c \in Callers : \/ CommitRead(c) \/ CommitRecord(c)
                          \/ \E cid \in 1 .. Len(commits) : RollbackRead(c, cid)
                          \/ RestoreOne(c) \/ RestoreFails(c)
    \/ \E t \in Tenants, name, from \in Branches : Branch(t, name, from)
    \/ Write \/ Lose

Spec == Init /\ [][Next]_vars

-----------------------------------------------------------------------------
(* What versioning must guarantee.                                         *)

\* A snapshot holds memories of the namespace it was taken in and no other: a
\* later diff or rollback from it cannot bring in another namespace's memories.
SnapshotsStayInScope ==
    \A i \in 1 .. Len(commits) : \A m \in commits[i].snapshot : ScopeOf(m) = commits[i].scope

\* Branches of a tenant point to that tenant's commits, whoever commits and forks
\* at the same time, and a rollback under way has its commit.
HeadsAreOwnCommits ==
    \A t \in Tenants, b \in Branches : heads[t][b] # None =>
        heads[t][b] \in 1 .. Len(commits) /\ commits[heads[t][b]].scope.tenant = t

\* A rollback that returns has brought every memory of the commit back, though
\* others write, commit and roll back between its reading and its writes.
RollbackRestores ==
    [][\A c \in Callers, cid \in 1 .. Len(commits) :
          (RollbackRead(c, cid) \/ (target[c] = cid /\ RestoreOne(c))) /\ pc'[c] = "idle" =>
             commits[cid].snapshot \subseteq table']_vars

\* What a rollback has yet to put back belongs to its commit, and the rest of the
\* commit is in the store: the reason why a finished one has restored it all.
RestIsPresent ==
    \A c \in Callers : pc[c] = "rollback" =>
        /\ Found(ctx[c], target[c])
        /\ todo[c] # {} /\ todo[c] \subseteq commits[target[c]].snapshot
        /\ commits[target[c]].snapshot \ todo[c] \subseteq table

\* A call under way has a scope, and over the in-memory store what it is about to
\* commit is of that scope.
CallsKeepScope ==
    \A c \in Callers : pc[c] # "idle" =>
        /\ ctx[c] \in Scope
        /\ Backend = "memory" /\ pc[c] = "commit" => \A m \in snap[c] : ScopeOf(m) = ctx[c]

\* No id stands for two rows, so that putting one back replaces nothing else.
IdsAreUnique == \A m, n \in Known : m.id = n.id => m = n

IInv ==
    /\ TypeOK /\ HeadsAreOwnCommits /\ RestIsPresent /\ CallsKeepScope /\ IdsAreUnique
    /\ Backend = "memory" => SnapshotsStayInScope

-----------------------------------------------------------------------------
(* What the documents say and the code does not do.                        *)

\* versioning/engine.py:3: commit "snapshots the in-scope memory state".
\* TLC finds it violated with two memories of one namespace and a Limit of 1.
CommitIsComplete ==
    [][\A c \in Callers : pc[c] = "idle" /\ pc'[c] = "commit" =>
          {m \in table : ScopeOf(m) = ctx'[c]} \subseteq snap'[c]]_vars

=============================================================================
