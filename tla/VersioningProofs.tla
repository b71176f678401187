-------------------------- MODULE VersioningProofs --------------------------
(***************************************************************************)
(* Proofs about module Versioning for any tenants, callers, branches and   *)
(* rows, and for both stores: a rollback that returns has restored its     *)
(* commit, and the in-memory store keeps snapshots in their namespace.     *)
(***************************************************************************)
EXTENDS Versioning, TLAPS

-----------------------------------------------------------------------------
(* The store.                                                              *)

(* A listing holds rows of the table, in memory those of the scope only.   *)
LEMMA ListingIsVisible ==
    ASSUME NEW s, NEW rows \in Listings(table, s, Limit)
    PROVE  rows \subseteq table /\ \A m \in rows : m \in Visible(table, s)
  BY DEF Listings, Visible

(* In memory, what is visible in a scope was written in it.                *)
LEMMA VisibleInScope ==
    ASSUME Backend = "memory", NEW s \in Scope, NEW m \in Visible(table, s)
    PROVE  ScopeOf(m) = s
  <1>1. m.tenant = s.tenant /\ m.namespace = s.namespace
    BY DEF Visible
  <1>2. s = [tenant |-> s.tenant, namespace |-> s.namespace]
    BY DEF Scope
  <1> QED
    BY <1>1, <1>2 DEF ScopeOf

(* As no id stands for two rows, adding a known row or a new one replaces  *)
(* nothing.                                                                *)
LEMMA AddingKeeps ==
    ASSUME NEW m, \A n \in table : n.id = m.id => n = m
    PROVE  AddRow(table, m) = table \cup {m}
  BY DEF AddRow

(* What is known.                                                          *)
LEMMA KnownHas ==
    /\ table \subseteq Known
    /\ \A i \in 1 .. Len(commits) : commits[i].snapshot \subseteq Known
    /\ \A c \in Callers : snap[c] \subseteq Known
  <1> DEFINE listed == {snap[c] : c \in Callers}
             saved == {commits[i].snapshot : i \in 1 .. Len(commits)}
  <1>1. Known = table \cup (UNION saved) \cup (UNION listed)
    BY Zenon DEF Known
  <1>2. /\ \A i \in 1 .. Len(commits) : commits[i].snapshot \in saved
        /\ \A c \in Callers : snap[c] \in listed
    OBVIOUS
  <1> HIDE DEF listed, saved
  <1> QED
    BY <1>1, <1>2

(* A known row is stored, committed or being committed.                    *)
LEMMA KnownIs ==
    ASSUME NEW m \in Known
    PROVE  \/ m \in table
           \/ \E i \in 1 .. Len(commits) : m \in commits[i].snapshot
           \/ \E c \in Callers : m \in snap[c]
  <1> DEFINE listed == {snap[c] : c \in Callers}
             saved == {commits[i].snapshot : i \in 1 .. Len(commits)}
  <1>1. m \in table \cup (UNION saved) \cup (UNION listed)
    BY Zenon DEF Known
  <1>2. /\ \A S \in saved : \E i \in 1 .. Len(commits) : S = commits[i].snapshot
        /\ \A S \in listed : \E c \in Callers : S = snap[c]
    OBVIOUS
  <1> HIDE DEF listed, saved
  <1>3. m \in table \/ (\E S \in saved : m \in S) \/ (\E S \in listed : m \in S)
    BY <1>1
  <1> QED
    BY <1>2, <1>3

-----------------------------------------------------------------------------
(* What each step does, seen from outside.  A step is one caller's or none *)
(* does anything; it adds at most one row or one commit.                   *)

(* Nothing changes for the other callers.                                  *)
Frame(c) ==
    \A d \in Callers : d # c =>
        /\ pc'[d] = pc[d] /\ ctx'[d] = ctx[d] /\ snap'[d] = snap[d]
        /\ target'[d] = target[d] /\ todo'[d] = todo[d]

LEMMA CommitTypes ==
    ASSUME TypeOK
    PROVE  /\ Len(commits) \in Nat
           /\ \A i \in 1 .. Len(commits) : commits[i] \in [scope : Scope, snapshot : SUBSET Row]
  <1> DEFINE Entries == [scope : Scope, snapshot : SUBSET Row]
  <1>1. commits \in Seq(Entries)
    BY DEF TypeOK
  <1> HIDE DEF Entries
  <1>2. Len(commits) \in Nat /\ \A i \in 1 .. Len(commits) : commits[i] \in Entries
    BY <1>1
  <1> QED
    BY <1>2 DEF Entries

LEMMA CommitReadDoes ==
    ASSUME TypeOK, NEW c \in Callers, CommitRead(c)
    PROVE  /\ TypeOK' /\ Frame(c) /\ UNCHANGED <<table, commits, heads>>
           /\ pc'[c] = "commit" /\ ctx'[c] \in Scope
           /\ snap'[c] \subseteq table
           /\ Backend = "memory" => \A m \in snap'[c] : ScopeOf(m) = ctx'[c]
  <1>1. PICK s \in Scope : \E rows \in Listings(table, s, Limit) :
             /\ pc' = [pc EXCEPT ![c] = "commit"] /\ ctx' = [ctx EXCEPT ![c] = s]
             /\ snap' = [snap EXCEPT ![c] = rows]
             /\ UNCHANGED <<table, commits, heads, target, todo>>
    BY DEF CommitRead, Enter
  <1>0. PICK rows \in Listings(table, s, Limit) :
             /\ pc' = [pc EXCEPT ![c] = "commit"] /\ ctx' = [ctx EXCEPT ![c] = s]
             /\ snap' = [snap EXCEPT ![c] = rows]
             /\ UNCHANGED <<table, commits, heads, target, todo>>
    BY <1>1
  <1>2. rows \subseteq table /\ rows \subseteq Row
    BY ListingIsVisible DEF TypeOK
  <1>3. Backend = "memory" => \A m \in rows : ScopeOf(m) = s
    BY ListingIsVisible, VisibleInScope
  <1>4. pc'[c] = "commit" /\ ctx'[c] = s /\ snap'[c] = rows /\ Frame(c) /\ TypeOK'
    BY <1>0, <1>2 DEF TypeOK, Frame
  <1> QED
    BY <1>0, <1>2, <1>3, <1>4

LEMMA CommitRecordDoes ==
    ASSUME TypeOK, CallsKeepScope, NEW c \in Callers, CommitRecord(c)
    PROVE  /\ TypeOK' /\ Frame(c) /\ table' = table
           /\ pc[c] = "commit" /\ pc'[c] = "idle" /\ snap'[c] = {}
           /\ commits' = Append(commits, [scope |-> ctx[c], snapshot |-> snap[c]])
           /\ ctx[c].tenant \in Tenants
           /\ \E b \in Branches :
                heads' = [heads EXCEPT ![ctx[c].tenant][b] = Len(commits) + 1]
  <1>1. ctx[c] \in Scope /\ ctx[c].tenant \in Tenants
    BY DEF CommitRecord, CallsKeepScope, Scope
  <1>2. PICK b \in Branches : heads' = [heads EXCEPT ![ctx[c].tenant][b] = Len(commits) + 1]
    BY DEF CommitRecord
  <1>3. /\ pc[c] = "commit" /\ table' = table
        /\ commits' = Append(commits, [scope |-> ctx[c], snapshot |-> snap[c]])
        /\ snap' = [snap EXCEPT ![c] = {}]
        /\ pc' = [pc EXCEPT ![c] = "idle"] /\ ctx' = [ctx EXCEPT ![c] = NoScope]
        /\ UNCHANGED <<target, todo>>
    BY DEF CommitRecord, Leave, Enter
  <1>4. [scope |-> ctx[c], snapshot |-> snap[c]] \in [scope : Scope, snapshot : SUBSET Row]
    BY <1>1 DEF TypeOK
  <1>5. commits' \in Seq([scope : Scope, snapshot : SUBSET Row])
    <2> DEFINE entry == [scope |-> ctx[c], snapshot |-> snap[c]]
               Entries == [scope : Scope, snapshot : SUBSET Row]
    <2>1. entry \in Entries /\ commits \in Seq(Entries) /\ commits' = Append(commits, entry)
      BY <1>3, <1>4 DEF TypeOK
    <2> HIDE DEF entry, Entries
    <2>2. commits' \in Seq(Entries)
      BY <2>1
    <2> QED
      BY <2>2 DEF Entries
  <1>6. heads' \in [Tenants -> [Branches -> Nat]]
    <2>1. Len(commits) + 1 \in Nat
      BY DEF TypeOK
    <2> QED
      BY <1>1, <1>2, <2>1 DEF TypeOK
  <1>7. /\ pc' \in [Callers -> {"idle", "commit", "rollback"}]
        /\ ctx' \in [Callers -> Scope \cup {NoScope}]
        /\ snap' \in [Callers -> SUBSET Row]
    BY <1>3 DEF TypeOK
  <1>8. TypeOK' /\ Frame(c) /\ pc'[c] = "idle" /\ snap'[c] = {}
    BY <1>3, <1>5, <1>6, <1>7 DEF TypeOK, Frame
  <1> QED
    BY <1>1, <1>2, <1>3, <1>8

(* The loop of rollback, entered or gone on with.                          *)
LEMMA RestoringDoes ==
    ASSUME TypeOK, NEW c \in Callers, NEW s \in Scope, NEW cid \in Nat, NEW rows \in SUBSET Row,
           Restoring(c, s, cid, rows), snap' = snap, table' \subseteq Row,
           UNCHANGED <<commits, heads>>
    PROVE  /\ TypeOK' /\ Frame(c)
           /\ rows = {} => pc'[c] = "idle"
           /\ rows # {} => /\ pc'[c] = "rollback" /\ ctx'[c] = s
                           /\ target'[c] = cid /\ todo'[c] = rows
  <1> DEFINE t == IF rows = {} THEN None ELSE cid
             label == IF rows = {} THEN "idle" ELSE "rollback"
             scope == IF rows = {} THEN NoScope ELSE s
  <1>1. t \in Nat /\ label \in {"idle", "commit", "rollback"} /\ scope \in Scope \cup {NoScope}
    BY DEF None
  <1>2. /\ todo' = [todo EXCEPT ![c] = rows] /\ target' = [target EXCEPT ![c] = t]
        /\ pc' = [pc EXCEPT ![c] = label] /\ ctx' = [ctx EXCEPT ![c] = scope]
    BY DEF Restoring, Leave, Enter
  <1>3. /\ rows = {} => label = "idle"
        /\ rows # {} => label = "rollback" /\ scope = s /\ t = cid
    OBVIOUS
  <1> HIDE DEF t, label, scope
  <1>4. TypeOK'
    BY <1>1, <1>2 DEF TypeOK
  <1>5. Frame(c) /\ pc'[c] = label /\ ctx'[c] = scope /\ target'[c] = t /\ todo'[c] = rows
    BY <1>1, <1>2 DEF TypeOK, Frame
  <1> QED
    BY <1>3, <1>4, <1>5

LEMMA RollbackReadDoes ==
    ASSUME TypeOK, NEW c \in Callers, NEW cid \in 1 .. Len(commits), RollbackRead(c, cid)
    PROVE  /\ TypeOK' /\ Frame(c) /\ UNCHANGED <<table, commits, heads, snap>>
           /\ \/ pc'[c] = "idle" /\ commits[cid].snapshot \subseteq table
              \/ /\ pc'[c] = "rollback" /\ ctx'[c] \in Scope /\ target'[c] = cid
                 /\ Found(ctx'[c], cid)
                 /\ todo'[c] # {} /\ todo'[c] \subseteq commits[cid].snapshot
                 /\ commits[cid].snapshot \ todo'[c] \subseteq table
  <1>1. PICK s \in Scope :
             /\ Found(s, cid)
             /\ \E present \in Listings(table, s, Limit) :
                  Restoring(c, s, cid, commits[cid].snapshot \ present)
    BY DEF RollbackRead
  <1>2. PICK present \in Listings(table, s, Limit) :
             Restoring(c, s, cid, commits[cid].snapshot \ present)
    BY <1>1
  <1>3. UNCHANGED <<table, commits, heads, snap>>
    BY DEF RollbackRead
  <1>4. present \subseteq table
    BY ListingIsVisible
  <1>5. /\ commits[cid] \in [scope : Scope, snapshot : SUBSET Row]
        /\ cid \in Nat
    BY CommitTypes DEF TypeOK
  <1> DEFINE rows == commits[cid].snapshot \ present
  <1>6. /\ rows \subseteq commits[cid].snapshot /\ rows \in SUBSET Row
        /\ commits[cid].snapshot \ rows \subseteq table
        /\ rows = {} => commits[cid].snapshot \subseteq table
    BY <1>4, <1>5
  <1>7. Restoring(c, s, cid, rows) /\ table' \subseteq Row
    BY <1>2, <1>3 DEF TypeOK
  <1> HIDE DEF rows
  <1>8. /\ TypeOK' /\ Frame(c)
        /\ rows = {} => pc'[c] = "idle"
        /\ rows # {} => /\ pc'[c] = "rollback" /\ ctx'[c] = s
                        /\ target'[c] = cid /\ todo'[c] = rows
    BY <1>3, <1>5, <1>6, <1>7, RestoringDoes
  <1> QED
    BY <1>1, <1>3, <1>6, <1>8

LEMMA RestoreOneDoes ==
    ASSUME TypeOK, RestIsPresent, CallsKeepScope, IdsAreUnique,
           NEW c \in Callers, RestoreOne(c)
    PROVE  \E m \in Known :
             /\ TypeOK' /\ Frame(c) /\ UNCHANGED <<commits, heads, snap>>
             /\ pc[c] = "rollback" /\ m \in commits[target[c]].snapshot
             /\ table' = table \cup {m}
             /\ \/ pc'[c] = "idle" /\ commits[target[c]].snapshot \subseteq table'
                \/ /\ pc'[c] = "rollback" /\ ctx'[c] = ctx[c] /\ target'[c] = target[c]
                   /\ todo'[c] # {} /\ todo'[c] \subseteq todo[c]
                   /\ commits[target[c]].snapshot \ todo'[c] \subseteq table'
  <1>1. PICK m \in todo[c] :
             /\ table' = AddRow(table, m)
             /\ Restoring(c, ctx[c], target[c], todo[c] \ {m})
    BY DEF RestoreOne
  <1>2. pc[c] = "rollback" /\ UNCHANGED <<commits, heads, snap>>
    BY DEF RestoreOne
  <1>3. /\ target[c] \in 1 .. Len(commits)
        /\ todo[c] \subseteq commits[target[c]].snapshot
        /\ commits[target[c]].snapshot \ todo[c] \subseteq table
    BY <1>2 DEF RestIsPresent, Found
  <1>4. m \in Known /\ m \in commits[target[c]].snapshot
    BY <1>3, KnownHas
  <1>5. table' = table \cup {m}
    BY <1>1, <1>4, KnownHas, AddingKeeps DEF IdsAreUnique
  <1>6. ctx[c] \in Scope /\ target[c] \in Nat /\ todo[c] \in SUBSET Row
    BY <1>2 DEF CallsKeepScope, TypeOK
  <1> DEFINE rows == todo[c] \ {m}
  <1>7. /\ rows \subseteq todo[c] /\ rows \in SUBSET Row /\ table' \subseteq Row
        /\ commits[target[c]].snapshot \ rows \subseteq table'
        /\ rows = {} => commits[target[c]].snapshot \subseteq table'
    BY <1>1, <1>3, <1>5, <1>6 DEF TypeOK
  <1>8. Restoring(c, ctx[c], target[c], rows)
    BY <1>1
  <1> HIDE DEF rows
  <1>9. /\ TypeOK' /\ Frame(c)
        /\ rows = {} => pc'[c] = "idle"
        /\ rows # {} => /\ pc'[c] = "rollback" /\ ctx'[c] = ctx[c]
                        /\ target'[c] = target[c] /\ todo'[c] = rows
    BY <1>2, <1>6, <1>7, <1>8, RestoringDoes
  <1> QED
    BY <1>2, <1>4, <1>5, <1>7, <1>9

LEMMA RestoreFailsDoes ==
    ASSUME TypeOK, NEW c \in Callers, RestoreFails(c)
    PROVE  /\ TypeOK' /\ Frame(c) /\ UNCHANGED <<table, commits, heads, snap>>
           /\ pc[c] = "rollback" /\ pc'[c] = "idle"
  BY DEF RestoreFails, Leave, Enter, TypeOK, Frame, None

LEMMA BranchDoes ==
    ASSUME TypeOK, NEW t \in Tenants, NEW name \in Branches, NEW from \in Branches,
           Branch(t, name, from)
    PROVE  /\ TypeOK' /\ UNCHANGED <<table, commits, pc, ctx, snap, target, todo>>
           /\ heads' = [heads EXCEPT ![t][name] = heads[t][from]]
  <1>1. heads[t][from] \in Nat
    BY DEF TypeOK
  <1> QED
    BY <1>1 DEF Branch, TypeOK

LEMMA WriteDoes ==
    ASSUME TypeOK, Write
    PROVE  /\ TypeOK' /\ UNCHANGED <<commits, heads, pc, ctx, snap, target, todo>>
           /\ \E m \in Row : table' = table \cup {m} /\ \A n \in Known : n.id # m.id
  <1>1. PICK m \in Row : (\A n \in Known : n.id # m.id) /\ table' = AddRow(table, m)
    BY DEF Write
  <1>2. table' = table \cup {m}
    BY <1>1, KnownHas, AddingKeeps
  <1> QED
    BY <1>1, <1>2 DEF Write, TypeOK

LEMMA LoseDoes ==
    ASSUME TypeOK, Lose
    PROVE  /\ TypeOK' /\ UNCHANGED <<commits, heads, pc, ctx, snap, target, todo>>
           /\ table' = {} /\ \A c \in Callers : pc[c] # "rollback"
  BY DEF Lose, TypeOK

-----------------------------------------------------------------------------
(* Commits are never changed, and no row is made up.                       *)

LEMMA Recorded ==
    ASSUME TypeOK, NEW e, commits' = Append(commits, e)
    PROVE  /\ Len(commits') = Len(commits) + 1
           /\ commits'[Len(commits) + 1] = e
           /\ \A i \in 1 .. Len(commits) : commits'[i] = commits[i]
           /\ \A i \in 1 .. Len(commits') : i \in 1 .. Len(commits) \/ i = Len(commits) + 1
  <1> DEFINE Entries == [scope : Scope, snapshot : SUBSET Row]
  <1>1. commits \in Seq(Entries)
    BY DEF TypeOK
  <1> HIDE DEF Entries
  <1>2. Len(commits) \in Nat
    BY <1>1
  <1>3. Len(commits') = Len(commits) + 1 /\ commits'[Len(commits) + 1] = e
    BY <1>1
  <1>4. \A i \in 1 .. Len(commits) : commits'[i] = commits[i]
    BY <1>1
  <1> QED
    BY <1>2, <1>3, <1>4

KnownHasHome ==
    \A m \in Known : \/ m \in table
                     \/ \E i \in 1 .. Len(commits) : m \in commits[i].snapshot
                     \/ \E c \in Callers : m \in snap[c]

LEMMA KnownIsNow == KnownHasHome
  BY KnownIs DEF KnownHasHome

(* What is stored, committed and being committed after a step is known.    *)
LEMMA KnownNext == KnownHasHome'
  BY KnownIsNow, PTL

(* Every step but a write keeps to the rows there are.                     *)
LEMMA OnlyWriteMakesRows ==
    ASSUME IInv, [Next]_vars
    PROVE  Known' \subseteq Known \/ \E m \in Row : Known' \subseteq Known \cup {m}
                                           /\ \A n \in Known : n.id # m.id
  <1> USE DEF IInv
  <1>1. CASE \/ UNCHANGED vars \/ Lose
             \/ \E t \in Tenants, name, from \in Branches : Branch(t, name, from)
             \/ \E c \in Callers : \/ RestoreFails(c)
                                   \/ \E cid \in 1 .. Len(commits) : RollbackRead(c, cid)
    <2>1. (table' = table \/ table' = {}) /\ UNCHANGED <<commits, snap>>
      BY <1>1, LoseDoes, BranchDoes, RestoreFailsDoes, RollbackReadDoes DEF vars
    <2> QED
      BY <2>1, KnownHas, KnownNext DEF KnownHasHome
  <1>2. CASE \E c \in Callers : CommitRead(c)
    <2>1. PICK c \in Callers : CommitRead(c)
      BY <1>2
    <2>2. UNCHANGED <<table, commits>> /\ snap'[c] \subseteq table /\ Frame(c)
      BY <2>1, CommitReadDoes
    <2> QED
      BY <2>2, KnownHas, KnownNext DEF KnownHasHome, Frame
  <1>3. CASE \E c \in Callers : CommitRecord(c)
    <2>1. PICK c \in Callers : CommitRecord(c)
      BY <1>3
    <2> DEFINE e == [scope |-> ctx[c], snapshot |-> snap[c]]
    <2>2. table' = table /\ snap'[c] = {} /\ Frame(c) /\ commits' = Append(commits, e)
      BY <2>1, CommitRecordDoes
    <2>3. e.snapshot \subseteq Known
      BY KnownHas
    <2> HIDE DEF e
    <2>4. \A i \in 1 .. Len(commits') : commits'[i].snapshot \subseteq Known
      BY <2>2, <2>3, Recorded, KnownHas
    <2>5. \A d \in Callers : snap'[d] \subseteq Known
      BY <2>2, KnownHas DEF Frame
    <2> QED
      BY <2>2, <2>4, <2>5, KnownHas, KnownNext DEF KnownHasHome
  <1>4. CASE \E c \in Callers : RestoreOne(c)
    <2>1. PICK c \in Callers : RestoreOne(c)
      BY <1>4
    <2>2. PICK m \in Known : table' = table \cup {m} /\ UNCHANGED <<commits, snap>>
      BY <2>1, RestoreOneDoes
    <2> QED
      BY <2>2, KnownHas, KnownNext DEF KnownHasHome
  <1>5. CASE Write
    <2>1. PICK m \in Row : /\ table' = table \cup {m} /\ \A n \in Known : n.id # m.id
                          /\ UNCHANGED <<commits, snap>>
      BY <1>5, WriteDoes
    <2> QED
      BY <2>1, KnownHas, KnownNext DEF KnownHasHome
  <1> QED
    BY <1>1, <1>2, <1>3, <1>4, <1>5 DEF Next

-----------------------------------------------------------------------------
(* Each part of the invariant is kept by every step.                       *)

LEMMA TypeStep == IInv /\ [Next]_vars => TypeOK'
  <1> SUFFICES ASSUME IInv, [Next]_vars PROVE TypeOK'
    OBVIOUS
  <1> USE DEF IInv
  <1>1. UNCHANGED vars => TypeOK'
    BY DEF vars, TypeOK
  <1>2. Next => TypeOK'
    BY CommitReadDoes, CommitRecordDoes, RollbackReadDoes, RestoreOneDoes,
       RestoreFailsDoes, BranchDoes, WriteDoes, LoseDoes DEF Next
  <1> QED
    BY <1>1, <1>2

LEMMA IdsAreUniqueStep == IInv /\ [Next]_vars => IdsAreUnique'
  BY OnlyWriteMakesRows DEF IInv, IdsAreUnique

LEMMA CallsKeepScopeStep == IInv /\ [Next]_vars => CallsKeepScope'
  <1> SUFFICES ASSUME IInv, [Next]_vars, NEW d \in Callers, pc'[d] # "idle"
               PROVE  /\ ctx'[d] \in Scope
                      /\ Backend = "memory" /\ pc'[d] = "commit" =>
                            \A m \in snap'[d] : ScopeOf(m) = ctx'[d]
    BY DEF CallsKeepScope
  <1> USE DEF IInv, CallsKeepScope
  <1>1. CASE pc'[d] = pc[d] /\ ctx'[d] = ctx[d] /\ snap'[d] = snap[d]
    BY <1>1
  <1>2. CASE CommitRead(d)
    BY <1>2, CommitReadDoes
  <1>3. CASE \/ CommitRecord(d) \/ RestoreOne(d) \/ RestoreFails(d)
             \/ \E cid \in 1 .. Len(commits) : RollbackRead(d, cid)
    <2>1. pc'[d] = "rollback" /\ ctx'[d] \in Scope
      BY <1>3, CommitRecordDoes, RestoreOneDoes, RestoreFailsDoes, RollbackReadDoes
    <2> QED
      BY <2>1
  <1>4. CASE \E c \in Callers : c # d /\
               (\/ CommitRead(c) \/ CommitRecord(c) \/ RestoreOne(c) \/ RestoreFails(c)
                \/ \E cid \in 1 .. Len(commits) : RollbackRead(c, cid))
    <2>1. \E c \in Callers : c # d /\ Frame(c)
      BY <1>4, CommitReadDoes, CommitRecordDoes, RestoreOneDoes, RestoreFailsDoes, RollbackReadDoes
    <2> QED
      BY <2>1, <1>1 DEF Frame
  <1>5. CASE \/ UNCHANGED vars \/ Write \/ Lose
             \/ \E t \in Tenants, name, from \in Branches : Branch(t, name, from)
    BY <1>1, <1>5, WriteDoes, LoseDoes, BranchDoes DEF vars
  <1> QED
    BY <1>2, <1>3, <1>4, <1>5 DEF Next

(* A commit, once recorded, stays as it is.                                *)
LEMMA CommitsAreKept ==
    ASSUME IInv, [Next]_vars
    PROVE  /\ Len(commits) \in Nat /\ Len(commits') \in Nat /\ Len(commits) <= Len(commits')
           /\ \A i \in 1 .. Len(commits) : i \in 1 .. Len(commits') /\ commits'[i] = commits[i]
  <1> USE DEF IInv
  <1>1. Len(commits) \in Nat
    BY CommitTypes
  <1>2. CASE \E c \in Callers : CommitRecord(c)
    <2>1. \E e : commits' = Append(commits, e)
      BY <1>2 DEF CommitRecord
    <2>2. /\ Len(commits') = Len(commits) + 1
          /\ \A i \in 1 .. Len(commits) : commits'[i] = commits[i]
      BY <2>1, Recorded
    <2>3. \A i \in 1 .. Len(commits) : i \in 1 .. Len(commits')
      BY <1>1, <2>2
    <2> QED
      BY <1>1, <2>2, <2>3
  <1>3. CASE commits' = commits
    BY <1>1, <1>3
  <1> QED
    BY <1>2, <1>3 DEF Next, vars, CommitRead, RollbackRead, RestoreOne, RestoreFails,
                      Branch, Write, Lose

LEMMA HeadsAreOwnCommitsStep == IInv /\ [Next]_vars => HeadsAreOwnCommits'
  <1> SUFFICES ASSUME IInv, [Next]_vars,
                      NEW t \in Tenants, NEW b \in Branches, heads'[t][b] # None
               PROVE  heads'[t][b] \in 1 .. Len(commits') /\ commits'[heads'[t][b]].scope.tenant = t
    BY DEF HeadsAreOwnCommits
  <1> USE DEF IInv
  <1>1. CASE heads'[t][b] = heads[t][b]
    BY <1>1, CommitsAreKept DEF HeadsAreOwnCommits
  <1>2. CASE \E c \in Callers : CommitRecord(c)
    <2>1. PICK c \in Callers : CommitRecord(c)
      BY <1>2
    <2>2. PICK main \in Branches :
             heads' = [heads EXCEPT ![ctx[c].tenant][main] = Len(commits) + 1]
      BY <2>1, CommitRecordDoes
    <2>3. ctx[c].tenant \in Tenants
      BY <2>1, CommitRecordDoes
    <2>4. CASE t = ctx[c].tenant /\ b = main
      <3> DEFINE e == [scope |-> ctx[c], snapshot |-> snap[c]]
      <3>1. commits' = Append(commits, e)
        BY <2>1, CommitRecordDoes
      <3>2. e.scope.tenant = t
        BY <2>4
      <3> HIDE DEF e
      <3>3. heads'[t][b] = Len(commits) + 1
        BY <2>2, <2>3, <2>4 DEF TypeOK
      <3> QED
        BY <3>1, <3>2, <3>3, Recorded, CommitsAreKept
    <2>5. CASE ~(t = ctx[c].tenant /\ b = main)
      <3>1. heads'[t][b] = heads[t][b]
        BY <2>2, <2>3, <2>5 DEF TypeOK
      <3> QED
        BY <1>1, <3>1
    <2> QED
      BY <2>4, <2>5
  <1>3. CASE \E s \in Tenants, name, from \in Branches : Branch(s, name, from)
    <2>1. PICK s \in Tenants, name \in Branches, from \in Branches : Branch(s, name, from)
      BY <1>3
    <2>2. commits' = commits /\ heads' = [heads EXCEPT ![s][name] = heads[s][from]]
      BY <2>1, BranchDoes
    <2>3. heads'[t][b] = heads[t][b] \/ heads'[t][b] = heads[t][from]
      BY <2>2 DEF TypeOK
    <2> QED
      BY <2>2, <2>3 DEF HeadsAreOwnCommits
  <1>4. CASE heads' = heads
    BY <1>1, <1>4
  <1> QED
    BY <1>2, <1>3, <1>4 DEF Next, vars, CommitRead, RollbackRead, RestoreOne, RestoreFails,
                            Write, Lose

LEMMA RestIsPresentStep == IInv /\ [Next]_vars => RestIsPresent'
  <1> SUFFICES ASSUME IInv, [Next]_vars, NEW d \in Callers, pc'[d] = "rollback"
               PROVE  /\ target'[d] \in 1 .. Len(commits')
                      /\ commits'[target'[d]].scope.tenant = ctx'[d].tenant
                      /\ todo'[d] # {} /\ todo'[d] \subseteq commits'[target'[d]].snapshot
                      /\ commits'[target'[d]].snapshot \ todo'[d] \subseteq table'
    BY DEF RestIsPresent, Found
  <1> USE DEF IInv, RestIsPresent, Found
  <1>1. CASE /\ pc'[d] = pc[d] /\ ctx'[d] = ctx[d] /\ target'[d] = target[d] /\ todo'[d] = todo[d]
             /\ table \subseteq table'
    <2>1. /\ target[d] \in 1 .. Len(commits) /\ commits[target[d]].scope.tenant = ctx[d].tenant
          /\ todo[d] # {} /\ todo[d] \subseteq commits[target[d]].snapshot
          /\ commits[target[d]].snapshot \ todo[d] \subseteq table
      BY <1>1
    <2>2. target[d] \in 1 .. Len(commits') /\ commits'[target[d]] = commits[target[d]]
      BY <2>1, CommitsAreKept
    <2> QED
      BY <1>1, <2>1, <2>2
  <1>2. CASE \E cid \in 1 .. Len(commits) : RollbackRead(d, cid)
    <2>1. PICK cid \in 1 .. Len(commits) : RollbackRead(d, cid)
      BY <1>2
    <2> QED
      BY <2>1, RollbackReadDoes
  <1>3. CASE RestoreOne(d)
    <2>1. /\ commits' = commits /\ pc[d] = "rollback" /\ ctx'[d] = ctx[d]
          /\ target'[d] = target[d] /\ todo'[d] # {} /\ todo'[d] \subseteq todo[d]
          /\ commits[target[d]].snapshot \ todo'[d] \subseteq table'
      BY <1>3, RestoreOneDoes
    <2> QED
      BY <2>1
  <1>4. CASE CommitRead(d) \/ CommitRecord(d) \/ RestoreFails(d)
    BY <1>4, CommitReadDoes, CommitRecordDoes, RestoreFailsDoes
  <1>5. CASE \E c \in Callers : c # d /\
               (\/ CommitRead(c) \/ CommitRecord(c) \/ RestoreOne(c) \/ RestoreFails(c)
                \/ \E cid \in 1 .. Len(commits) : RollbackRead(c, cid))
    <2>1. table \subseteq table' /\ \E c \in Callers : c # d /\ Frame(c)
      BY <1>5, CommitReadDoes, CommitRecordDoes, RestoreOneDoes, RestoreFailsDoes, RollbackReadDoes
    <2> QED
      BY <2>1, <1>1 DEF Frame
  <1>6. CASE \/ UNCHANGED vars \/ Write
             \/ \E t \in Tenants, name, from \in Branches : Branch(t, name, from)
    BY <1>1, <1>6, WriteDoes, BranchDoes DEF vars
  <1>7. CASE Lose
    BY <1>7, LoseDoes
  <1> QED
    BY <1>2, <1>3, <1>4, <1>5, <1>6, <1>7 DEF Next

LEMMA SnapshotsStayInScopeStep ==
    IInv /\ [Next]_vars /\ Backend = "memory" => SnapshotsStayInScope'
  <1> SUFFICES ASSUME IInv, [Next]_vars, Backend = "memory",
                      NEW i \in 1 .. Len(commits'), NEW m \in commits'[i].snapshot
               PROVE  ScopeOf(m) = commits'[i].scope
    BY DEF SnapshotsStayInScope
  <1> USE DEF IInv
  <1>1. CASE i \in 1 .. Len(commits)
    BY <1>1, CommitsAreKept DEF SnapshotsStayInScope
  <1>2. CASE commits' = commits
    BY <1>1, <1>2
  <1>3. CASE \E c \in Callers : CommitRecord(c)
    <2>1. PICK c \in Callers : CommitRecord(c)
      BY <1>3
    <2> DEFINE e == [scope |-> ctx[c], snapshot |-> snap[c]]
    <2>2. commits' = Append(commits, e) /\ pc[c] = "commit"
      BY <2>1, CommitRecordDoes
    <2>3. \A n \in e.snapshot : ScopeOf(n) = e.scope
      BY <2>2 DEF CallsKeepScope
    <2> HIDE DEF e
    <2>4. i \in 1 .. Len(commits) \/ commits'[i] = e
      BY <2>2, Recorded
    <2> QED
      BY <1>1, <2>3, <2>4
  <1> QED
    BY <1>2, <1>3 DEF Next, vars, CommitRead, RollbackRead, RestoreOne, RestoreFails,
                      Branch, Write, Lose

LEMMA InitEstablishes == Init => IInv
  <1> SUFFICES ASSUME Init PROVE IInv
    OBVIOUS
  <1>1. Len(commits) = 0 /\ 1 .. Len(commits) = {}
    BY DEF Init
  <1>2. TypeOK
    BY DEF Init, TypeOK, None
  <1>3. Known = {}
    BY <1>1, KnownIsNow DEF KnownHasHome, Init
  <1> QED
    BY <1>1, <1>2, <1>3 DEF Init, IInv, HeadsAreOwnCommits, RestIsPresent, CallsKeepScope,
                            IdsAreUnique, SnapshotsStayInScope

LEMMA StepKeeps == IInv /\ [Next]_vars => IInv'
  BY TypeStep, HeadsAreOwnCommitsStep, RestIsPresentStep, CallsKeepScopeStep, IdsAreUniqueStep,
     SnapshotsStayInScopeStep DEF IInv

-----------------------------------------------------------------------------

(* Whoever commits, forks, writes and rolls back at the same time, heads are *)
(* the tenant's own commits and rollbacks are under way to one of them       *)
(* (versioning/engine.py:41-96).                                             *)
THEOREM Safety == Spec => []IInv
  BY InitEstablishes, StepKeeps, PTL DEF Spec

(* Over the in-memory store a commit holds memories of the namespace it was  *)
(* made in only (versioning/engine.py:49-57, store/memory_store.py:37-48).   *)
THEOREM Scoped == ASSUME Backend = "memory" PROVE Spec => []SnapshotsStayInScope
  <1>1. IInv => SnapshotsStayInScope
    BY DEF IInv
  <1> QED
    BY <1>1, Safety, PTL

(* Over either store, a rollback that returns has brought the whole commit   *)
(* back (versioning/engine.py:76-91).                                        *)
THEOREM Restores == Spec => RollbackRestores
  <1> DEFINE Act == \A c \in Callers, cid \in 1 .. Len(commits) :
                (RollbackRead(c, cid) \/ (target[c] = cid /\ RestoreOne(c))) /\ pc'[c] = "idle" =>
                   commits[cid].snapshot \subseteq table'
  <1>1. IInv /\ [Next]_vars => [Act]_vars
    <2> SUFFICES ASSUME IInv, NEW c \in Callers, NEW cid \in 1 .. Len(commits), pc'[c] = "idle",
                        RollbackRead(c, cid) \/ (target[c] = cid /\ RestoreOne(c))
                 PROVE  commits[cid].snapshot \subseteq table'
      OBVIOUS
    <2>1. CASE RollbackRead(c, cid)
      BY <2>1, RollbackReadDoes DEF IInv
    <2>2. CASE target[c] = cid /\ RestoreOne(c)
      BY <2>2, RestoreOneDoes DEF IInv
    <2> QED
      BY <2>1, <2>2
  <1> QED
    BY <1>1, Safety, PTL DEF Spec, RollbackRestores

=============================================================================
