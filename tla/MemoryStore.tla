---------------------------- MODULE MemoryStore ----------------------------
(***************************************************************************)
(* The two StorageBackends as values: what list_memories returns from a    *)
(* table of rows and what add_memory does to it, for the in-memory store   *)
(* (store/memory_store.py) and for Postgres (store/postgres.py with the    *)
(* row-level security of deploy/migrations/0001_init_rls.sql).             *)
(*                                                                         *)
(* A row is a memory with the scope it was written in; its id, a ULID, is  *)
(* never given to another memory, and no operation changes its content.    *)
(* A definition introduced by "Fault:" is a deliberately wrong variant of  *)
(* the one after it; no specification uses it.                             *)
(***************************************************************************)
EXTENDS Naturals, FiniteSets

CONSTANTS
    Backend,    \* "memory" or "postgres"
    Tenants, Namespaces, Memories

Scope == [tenant : Tenants, namespace : Namespaces]
Row   == [id : Memories, tenant : Tenants, namespace : Namespaces]

ScopeOf(row) == [tenant |-> row.tenant, namespace |-> row.namespace]

\* Fault: the namespace is forgotten in memory too.
VisibleToTenant(table, ctx) == {m \in table : m.tenant = ctx.tenant}

\* The in-memory store filters on tenant and namespace; the query to Postgres
\* has no predicate, and the policy of the table compares the tenant only.
Visible(table, ctx) ==
    {m \in table : /\ m.tenant = ctx.tenant
                   /\ Backend = "memory" => m.namespace = ctx.namespace}

\* list_memories: at most limit of the visible rows.  Which ones are left out -
\* the last inserted or the least recently accessed - is not modelled.
Listings(table, ctx, limit) ==
    LET rows == Visible(table, ctx)
    IN  IF Cardinality(rows) <= limit THEN {rows}
        ELSE {S \in SUBSET rows : Cardinality(S) = limit}

\* add_memory raises AccessDenied for a row of another scope in the in-memory
\* store; in Postgres the policy refuses another tenant's row and the primary
\* key an id that is there already.
Accepts(table, ctx, row) ==
    IF Backend = "memory"
      THEN ScopeOf(row) = ctx
      ELSE row.tenant = ctx.tenant /\ \A m \in table : m.id # row.id

\* The in-memory store replaces a row with the same id.
AddRow(table, row) == {m \in table : m.id # row.id} \cup {row}

=============================================================================
