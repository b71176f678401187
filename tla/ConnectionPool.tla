--------------------------- MODULE ConnectionPool ---------------------------
(***************************************************************************)
(* PostgresStore (store/postgres.py): calls share a pool of connections;   *)
(* each begins a transaction on one, binds its tenant to it, runs one      *)
(* statement under the row-level policy, commits and gives it back.  Any   *)
(* await may raise or be cancelled, also after its effect.  What Postgres  *)
(* and asyncpg do is modelled from this use: a statement sees what is      *)
(* committed, an insert waits for another of the same id to be decided,    *)
(* the bound tenant ends with the transaction, and a connection given back *)
(* is reset.                                                               *)
(*                                                                         *)
(* A definition introduced by "Fault:" is a deliberately wrong variant of  *)
(* the one after it; no specification uses it.                             *)
(***************************************************************************)
EXTENDS MemoryStore

CONSTANTS
    Calls,
    Conns,      \* the pool, max_size connections
    Asks,       \* what the calls may be, each of a kind, in a scope, about a row
    ListLimit,  \* the limit that listings ask for
    Accessed,   \* last_accessed_at of each memory, which no operation changes
    MaxLeaks    \* bound on the connections lost to failures before the statement

NoConn == "none"

ASSUME PoolAssumption ==
    /\ Backend = "postgres"
    /\ NoConn \notin Conns
    /\ ListLimit \in Nat \ {0} /\ Accessed \in [Memories -> Nat]
    /\ IsFiniteSet(Conns) /\ MaxLeaks \in Nat /\ MaxLeaks < Cardinality(Conns)
    /\ Asks \subseteq [Calls -> [kind : {"add", "list", "get", "health"}, ctx : Scope, row : Row]]

VARIABLES
    ask,      \* of each call
    pc,       \* of each call: the next await, or how it ended
    conn,     \* of each call: the connection it took
    idle,     \* connections in the pool
    session,  \* of each connection: open transaction, bound tenant, rows inserted
    rows,     \* what is committed
    got,      \* of each call: the rows its statement returned
    owed      \* of each call: the rows whose adds had returned when it began

calls == <<ask, pc, conn, got, owed>>
vars  == <<calls, idle, session, rows>>

Nobody  == "nobody"
Reset   == [open |-> FALSE, tenant |-> Nobody, draft |-> {}]
Session == [open : BOOLEAN, tenant : Tenants \cup {Nobody}, draft : SUBSET Row]
Ended   == {"returned", "raised", "leaked"}

Init ==
    /\ ask \in Asks
    /\ pc = [c \in Calls |-> "new"]
    /\ conn = [c \in Calls |-> NoConn]
    /\ idle = Conns /\ session = [k \in Conns |-> Reset]
    /\ rows = {}
    /\ got = [c \in Calls |-> {}] /\ owed = [c \in Calls |-> {}]

-----------------------------------------------------------------------------
Goto(c, label) == pc' = [pc EXCEPT ![c] = label]
Sets(c, s)     == session' = [session EXCEPT ![conn[c]] = s]

Returned == {d \in Calls : pc[d] = "returned"}

Begin(c) ==
    /\ pc[c] = "new" /\ Goto(c, "acquire")
    /\ owed' = [owed EXCEPT ![c] = {ask[d].row : d \in {e \in Returned : ask[e].kind = "add"}}]
    /\ UNCHANGED <<ask, conn, got, idle, session, rows>>

\* pool.acquire waits until there is one; the idle ones are alike.  health_check
\* needs no transaction.
Acquire(c) ==
    /\ pc[c] = "acquire" /\ idle # {}
    /\ LET k == CHOOSE k \in idle : TRUE
       IN  conn' = [conn EXCEPT ![c] = k] /\ idle' = idle \ {k}
    /\ Goto(c, IF ask[c].kind = "health" THEN "probe" ELSE "start")
    /\ UNCHANGED <<ask, got, owed, session, rows>>

Start(c) ==
    /\ pc[c] = "start" /\ Goto(c, "bind")
    /\ Sets(c, [session[conn[c]] EXCEPT !.open = TRUE])
    /\ UNCHANGED <<ask, conn, got, owed, idle, rows>>

\* set_config(..., true): for this transaction only.
Bind(c) ==
    /\ pc[c] = "bind" /\ Goto(c, "run")
    /\ Sets(c, [session[conn[c]] EXCEPT !.tenant = ask[c].ctx.tenant])
    /\ UNCHANGED <<ask, conn, got, owed, idle, rows>>

\* _scoped_conn raises or is cancelled: the caller never gets the connection, and
\* nobody gives it back.
StartFails(c) ==
    /\ pc[c] \in {"start", "bind"}
    /\ Cardinality({d \in Calls : pc[d] = "leaked"}) < MaxLeaks
    /\ Goto(c, "leaked")
    /\ UNCHANGED <<ask, conn, got, owed, idle, session, rows>>

\* The scope the policy compares with: the bound tenant; the namespace is not read.
Bound(c) == [ask[c].ctx EXCEPT !.tenant = session[conn[c]].tenant]

Undecided(c) == \E k \in Conns \ {conn[c]} : \E m \in session[k].draft : m.id = ask[c].row.id

\* Where S is what a listing returned, m may be missing: S is full, and of rows no
\* older than m.
CutOff(m, S) == Cardinality(S) = ListLimit /\ \A n \in S : Accessed[n.id] >= Accessed[m.id]

\* Fault: ORDER BY is ascending.
OldestOf(visible) ==
    {S \in SUBSET visible : /\ Cardinality(S) <= ListLimit
                            /\ \A m \in visible \ S : /\ Cardinality(S) = ListLimit
                                                       /\ \A n \in S : Accessed[n.id] <= Accessed[m.id]}

\* ORDER BY last_accessed_at DESC LIMIT $1; rows of one time come in any order.
LatestOf(visible) ==
    {S \in SUBSET visible : Cardinality(S) <= ListLimit /\ \A m \in visible \ S : CutOff(m, S)}

\* What the query of c may return.
Answers(c) ==
    LET visible == Visible(rows, Bound(c))
    IN  IF ask[c].kind = "get" THEN {{m \in visible : m.id = ask[c].row.id}} ELSE LatestOf(visible)

\* The statement.  One that the policy or the primary key refuses raises.
Run(c) ==
    /\ pc[c] = "run"
    /\ IF ask[c].kind = "add"
         THEN /\ ~Undecided(c)
              /\ IF Accepts(rows, Bound(c), ask[c].row)
                   THEN /\ Sets(c, [session[conn[c]] EXCEPT !.draft = {ask[c].row}])
                        /\ Goto(c, "commit")
                   ELSE Goto(c, "rollback") /\ UNCHANGED session
              /\ UNCHANGED got
         ELSE /\ \E S \in Answers(c) : got' = [got EXCEPT ![c] = S]
              /\ Goto(c, "commit")
              /\ UNCHANGED session
    /\ UNCHANGED <<ask, conn, owed, idle, rows>>

\* Fault: the answer is given before the commit.
CommitLate(c) ==
    /\ pc[c] = "commit" /\ Goto(c, "release")
    /\ UNCHANGED <<ask, conn, got, owed, idle, session, rows>>

Commit(c) ==
    /\ pc[c] = "commit" /\ Goto(c, "release")
    /\ rows' = rows \cup session[conn[c]].draft
    /\ Sets(c, Reset)
    /\ UNCHANGED <<ask, conn, got, owed, idle>>

\* Fault: get has no finally clause.
RunFailsKeeping(c) ==
    /\ pc[c] \in {"run", "commit"}
    /\ \/ ask[c].kind \in {"add", "list"} /\ Goto(c, "rollback")
       \/ ask[c].kind = "get" /\ Goto(c, "raised")
    /\ \/ UNCHANGED <<session, rows>>
       \/ pc[c] = "commit" /\ rows' = rows \cup session[conn[c]].draft /\ Sets(c, Reset)
    /\ UNCHANGED <<ask, conn, got, owed, idle>>

\* The statement or the commit raises - a commit perhaps after it was made.  Add and
\* list roll back; get does not.  Cancelled, none of them does.
RunFails(c) ==
    /\ pc[c] \in {"run", "commit"}
    /\ \/ ask[c].kind \in {"add", "list"} /\ Goto(c, "rollback")
       \/ Goto(c, "abort")
    /\ \/ UNCHANGED <<session, rows>>
       \/ pc[c] = "commit" /\ rows' = rows \cup session[conn[c]].draft /\ Sets(c, Reset)
    /\ UNCHANGED <<ask, conn, got, owed, idle>>

\* Fault: the connection is given back before the rollback, too.
RollbackReleases(c) ==
    /\ pc[c] = "rollback" /\ Goto(c, "abort")
    /\ idle' = idle \cup {conn[c]}
    /\ UNCHANGED <<ask, conn, got, owed, session, rows>>

\* It may itself raise and leave the transaction open, for the release to end.
Rollback(c) ==
    /\ pc[c] = "rollback" /\ Goto(c, "abort")
    /\ Sets(c, Reset) \/ UNCHANGED session
    /\ UNCHANGED <<ask, conn, got, owed, idle, rows>>

\* health_check asks for a one; it too may raise.
Probe(c) ==
    /\ pc[c] = "probe"
    /\ Goto(c, "release") \/ Goto(c, "abort")
    /\ UNCHANGED <<ask, conn, got, owed, idle, session, rows>>

\* The finally clause.  The pool resets the connection, or replaces a broken one;
\* it does so even if the call is cancelled here.
Release(c) ==
    /\ pc[c] \in {"release", "abort"}
    /\ IF pc[c] = "release" THEN Goto(c, "returned") \/ Goto(c, "raised") ELSE Goto(c, "raised")
    /\ idle' = idle \cup {conn[c]}
    /\ Sets(c, Reset)
    /\ UNCHANGED <<ask, conn, got, owed, rows>>

\* Cancelled, or refused by the database, while it has no connection.
GiveUp(c) ==
    /\ pc[c] = "acquire" /\ Goto(c, "raised")
    /\ UNCHANGED <<ask, conn, got, owed, idle, session, rows>>

Step(c) ==
    \/ Start(c) \/ Bind(c) \/ StartFails(c) \/ Run(c) \/ Commit(c) \/ RunFails(c)
    \/ Rollback(c) \/ Probe(c) \/ Release(c)

Next == \E c \in Calls : Begin(c) \/ Acquire(c) \/ GiveUp(c) \/ Step(c)

\* Every await ends; the pool serves those that wait for it in turn.
Fairness == \A c \in Calls : WF_vars(Step(c)) /\ SF_vars(Acquire(c))

Spec == Init /\ [][Next]_vars /\ Fairness

-----------------------------------------------------------------------------
(* What the store must guarantee.                                          *)

\* Calls that have a connection: running, or lost before their statement.
Busy == {"start", "bind", "run", "commit", "rollback", "abort", "probe", "release", "leaked"}
Uses(c) == pc[c] \in Busy

TypeOK ==
    /\ ask \in Asks
    /\ pc \in [Calls -> {"new", "acquire"} \cup Busy \cup Ended]
    /\ conn \in [Calls -> Conns \cup {NoConn}]
    /\ idle \subseteq Conns
    /\ session \in [Conns -> Session] /\ rows \subseteq Row
    /\ got \in [Calls -> SUBSET Row] /\ owed \in [Calls -> SUBSET Row]

\* The books of the pool: each connection is idle and clean, or belongs to one call,
\* whose tenant it is bound to while the call's statement can see or write rows.
IdleIsUnused  == \A k \in Conns : k \in idle <=> \A c \in Calls : Uses(c) => conn[c] # k
OneUser       == \A c, d \in Calls : Uses(c) /\ Uses(d) /\ conn[c] = conn[d] => c = d
UsersHaveOne  == \A c \in Calls : Uses(c) => conn[c] # NoConn
IdleIsClean   == \A k \in idle : session[k] = Reset
TenantIsBound == \A c \in Calls :
    pc[c] \in {"run", "commit"} => session[conn[c]].tenant = ask[c].ctx.tenant

\* A row was added by a call of its tenant.
Added(m, c) == ask[c].kind = "add" /\ ask[c].row = m /\ m.tenant = ask[c].ctx.tenant

\* What a transaction holds is its call's own row; its id is not in the table, nor
\* in another transaction.
DraftsAreOwn ==
    \A k \in Conns : \A m \in session[k].draft :
        \E c \in Calls : Uses(c) /\ conn[c] = k /\ Added(m, c)
DraftsAreNew ==
    \A k \in Conns : \A m \in session[k].draft, n \in rows : m.id # n.id
DraftsDiffer ==
    \A k, l \in Conns : \A m \in session[k].draft, n \in session[l].draft :
        m.id = n.id => k = l

\* An add is in its transaction until it commits, and then in the table, which has
\* only added rows and no id twice.
AddsAreKept ==
    \A c \in Calls : ask[c].kind = "add" =>
        /\ pc[c] # "probe"
        /\ pc[c] = "commit" => ask[c].row \in session[conn[c]].draft
        /\ pc[c] \in {"release", "returned"} => ask[c].row \in rows
RowsWereAdded == \A m \in rows : \E c \in Calls : Added(m, c)
IdsAreUnique  == \A m, n \in rows : m.id = n.id => m = n

\* What a call is owed is in the table, and once its statement has run, in what it
\* got, as far as it asked for it.
OwedIsThere == \A c \in Calls : owed[c] \subseteq rows
Asked(m, c) == m.tenant = ask[c].ctx.tenant /\ (ask[c].kind = "get" => m.id = ask[c].row.id)
Got(m, c)   == m \in got[c] \/ (ask[c].kind = "list" /\ CutOff(m, got[c]))
GotIsRight  ==
    \A c \in Calls : ask[c].kind \in {"list", "get"} =>
        /\ pc[c] # "probe"
        /\ pc[c] \in {"commit", "release", "returned"} =>
             /\ \A m \in got[c] : m.tenant = ask[c].ctx.tenant
             /\ \A m \in owed[c] : Asked(m, c) => Got(m, c)

\* The inductive invariant.
IInv ==
    /\ TypeOK
    /\ IdleIsUnused /\ OneUser /\ UsersHaveOne /\ IdleIsClean /\ TenantIsBound
    /\ DraftsAreOwn /\ DraftsAreNew /\ DraftsDiffer
    /\ AddsAreKept /\ RowsWereAdded /\ IdsAreUnique
    /\ OwedIsThere /\ GotIsRight

\* Whatever connection it got and whoever had it before, a call that returns rows
\* returns its own tenant's, and those it asked for whose adds had returned when it
\* began; a listing misses one of them only if it is full, and then of rows accessed
\* no earlier (store/postgres.py:45-46, 76).
ReadsAreScopedAndFresh ==
    \A c \in Calls : pc[c] = "returned" /\ ask[c].kind \in {"list", "get"} =>
        /\ \A m \in got[c] : m.tenant = ask[c].ctx.tenant
        /\ \A m \in owed[c] : Asked(m, c) => Got(m, c)

\* An add that returned is durable, what is durable was added by a call of its
\* tenant, and no id is there twice.
AddsAreDurable ==
    /\ \A c \in Calls : pc[c] = "returned" /\ ask[c].kind = "add" => ask[c].row \in rows
    /\ RowsWereAdded /\ IdsAreUnique

\* Nobody waits for a connection forever, as long as fewer are lost than there are.
EveryCallEnds == \A c \in Calls : pc[c] # "new" ~> pc[c] \in Ended

=============================================================================
