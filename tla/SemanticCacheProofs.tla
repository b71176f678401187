------------------------ MODULE SemanticCacheProofs ------------------------
(***************************************************************************)
(* Proofs about module SemanticCache, for any operations, requests, times  *)
(* to live and embeddings: what the table is made of, that nothing is      *)
(* served past its deadline and what was stored is found until then, and   *)
(* that the two tiers implement AtomicCache.                               *)
(***************************************************************************)
EXTENDS SemanticCache, WellFoundedInduction, TLAPS

-----------------------------------------------------------------------------
(* The largest of some similarities.                                       *)

LEMMA Largest ==
    ASSUME NEW S \in SUBSET (0 .. 100), S # {}
    PROVE  \E m \in S : \A n \in S : m >= n
  <1> DEFINE T == {100 - n : n \in S}
  <1>0. \A n \in S : n \in Nat /\ n <= 100 /\ 100 - n \in Nat
    OBVIOUS
  <1>1. T \subseteq Nat /\ T # {}
    BY <1>0
  <1>2. PICK x \in T : \A y \in T : ~ (<<y, x>> \in OpToRel(<, Nat))
    BY <1>1, NatLessThanWellFounded, WFMin
  <1>3. \A y \in T : ~ (y < x)
    BY <1>1, <1>2 DEF OpToRel
  <1>4. PICK m \in S : x = 100 - m
    OBVIOUS
  <1>5. \A n \in S : 100 - n \in T
    OBVIOUS
  <1> HIDE DEF T
  <1> QED
    BY <1>3, <1>4, <1>5

-----------------------------------------------------------------------------
(* Requests and entries.                                                   *)

LEMMA CallType ==
    ASSUME TypeOK, NEW o \in Ops
    PROVE  /\ call[o].in \in Requests /\ call[o].in.query \in Queries
           /\ call[o].ttl \in Ttls \cup {NoTtl}
           /\ call[o].kind \in {"lookup", "store"}
           /\ Lifetime(call[o].ttl) \in Nat
           /\ Norm[call[o].in.query] \in Queries
           /\ KeyFor(o) \in {KeyOf(in, in.model) : in \in Requests}
  <1>1. call[o] \in Asked
    BY DEF TypeOK
  <1>2. /\ call[o].in \in Requests /\ call[o].ttl \in Ttls \cup {NoTtl}
        /\ call[o].kind \in {"lookup", "store"}
    BY <1>1 DEF Asked
  <1>3. Lifetime(call[o].ttl) \in Nat
    BY <1>2, TtlAssumption DEF Lifetime
  <1>4. call[o].in.query \in Queries /\ Norm[call[o].in.query] \in Queries
    BY <1>2, RequestsAssumption, NormAssumption
  <1> QED
    BY <1>2, <1>3, <1>4 DEF KeyFor

LEMMA ClockType == TypeOK => clock \in Nat
  BY TtlAssumption DEF TypeOK

LEMMA NotBefore == \A a, b \in Nat : ~(a < b) => b <= a
  OBVIOUS

LEMMA KeyFields ==
    ASSUME NEW o
    PROVE  /\ KeyFor(o).query = Norm[call[o].in.query]
           /\ KeyFor(o).fp = Fingerprint(call[o].in, call[o].in.model)
           /\ KeyFor(o).fp.tenant = call[o].in.tenant
           /\ KeyFor(o).fp.namespace = call[o].in.namespace
           /\ KeyFor(o).fp.model = call[o].in.model
           /\ KeyFor(o).fp.system = call[o].in.system
  BY DEF KeyFor, KeyOf, Fingerprint

LEMMA EntryAtType ==
    ASSUME TypeOK, NEW o \in Ops, NEW t \in Nat
    PROVE  /\ EntryAt(o, t) \in Entry /\ EntryAt(o, t) # NoEntry
           /\ EntryAt(o, t).text = o
           /\ EntryAt(o, t).tenant = call[o].in.tenant
           /\ EntryAt(o, t).key = KeyFor(o)
           /\ EntryAt(o, t).created = t
           /\ EntryAt(o, t).expires = t + Lifetime(call[o].ttl)
  <1>1. EntryAt(o, t) \in Entry
    BY CallType DEF EntryAt, Entry
  <1>2. EntryAt(o, t).text = o /\ o # None
    BY OpsAssumption DEF EntryAt
  <1>3. NoEntry.text = None
    BY DEF NoEntry
  <1> QED
    BY <1>1, <1>2, <1>3 DEF EntryAt

(* Deadline says of a built entry what its expiry is.                      *)
LEMMA Built ==
    ASSUME IInv, NEW o \in Ops, fresh[o] # NoEntry
    PROVE  /\ fresh[o] \in Entry /\ fresh[o].text = o
           /\ fresh[o].tenant = call[o].in.tenant
           /\ fresh[o].key = KeyFor(o)
           /\ fresh[o].expires = Deadline(o)
           /\ fresh[o].expires \in Nat
  <1>1. PICK t \in 0 .. clock : fresh[o] = EntryAt(o, t)
    BY DEF IInv, BuiltInTime
  <1>2. t \in Nat
    BY DEF IInv, TypeOK
  <1>3. /\ fresh[o] \in Entry /\ fresh[o].text = o
        /\ fresh[o].tenant = call[o].in.tenant
        /\ fresh[o].key = KeyFor(o)
        /\ fresh[o].created = t /\ fresh[o].expires = t + Lifetime(call[o].ttl)
    BY <1>1, <1>2, EntryAtType DEF IInv
  <1>4. Lifetime(call[o].ttl) = IF call[o].ttl \in Nat \ {0} THEN call[o].ttl ELSE DefaultTtl
    BY CallType, TtlAssumption DEF Lifetime, IInv
  <1>5. Lifetime(call[o].ttl) \in Nat
    BY CallType DEF IInv
  <1> QED
    BY <1>2, <1>3, <1>4, <1>5 DEF Deadline

LEMMA InTable ==
    ASSUME IInv, NEW e \in table
    PROVE  /\ e \in Entry /\ e.text \in Ops
           /\ e = fresh[e.text] /\ fresh[e.text] # NoEntry /\ pc[e.text] = "done"
           /\ e.tenant = call[e.text].in.tenant /\ e.key = KeyFor(e.text)
           /\ e.expires = Deadline(e.text) /\ e.expires \in Nat
  <1>1. e \in Entry /\ e.text \in Ops
    BY DEF IInv, TypeOK, Entry
  <1>2. e = fresh[e.text] /\ pc[e.text] = "done"
    BY DEF IInv, TableIsFunctional
  <1>3. fresh[e.text] # NoEntry
    BY <1>1, <1>2, OpsAssumption DEF NoEntry
  <1> QED
    BY <1>1, <1>2, <1>3, Built

-----------------------------------------------------------------------------
(* The inductive invariant.                                                *)

(* The end of an operation.                                                *)
LEMMA EndDoes ==
    ASSUME TypeOK, NEW o \in Ops, NEW a \in Ops \cup {None, Stored, Pending}, End(o, a)
    PROVE  /\ pc' \in [Ops -> {"exact", "embed", "search", "put", "done"}]
           /\ answer' \in [Ops -> Ops \cup {None, Stored, Pending}]
           /\ pc'[o] = "done" /\ answer'[o] = a
           /\ \A p \in Ops \ {o} : pc'[p] = pc[p] /\ answer'[p] = answer[p]
  BY DEF End, TypeOK

LEMMA GotoDoes ==
    ASSUME TypeOK, NEW o \in Ops, NEW l \in {"embed", "search", "put"}, Goto(o, l)
    PROVE  /\ pc' \in [Ops -> {"exact", "embed", "search", "put", "done"}]
           /\ pc'[o] = l /\ UNCHANGED answer
           /\ \A p \in Ops \ {o} : pc'[p] = pc[p]
  BY DEF Goto, TypeOK

(* A hit is an entry of the table that is live.                            *)
LEMMA HitsAreLive ==
    ASSUME NEW t, NEW k, NEW f, NEW q
    PROVE  GetExact(Live, t, k) \subseteq Live /\ SearchSemantic(Live, t, f, q) \subseteq Live
  BY DEF GetExact, SearchSemantic

LEMMA EntriesStayBuilt ==
    ASSUME call' = call, NEW o, NEW t
    PROVE  EntryAt(o, t)' = EntryAt(o, t)
  BY DEF EntryAt, KeyFor

(* What an operation has built it keeps: so the parts about entries carry over *)
(* whenever the table does and nothing new is built.                           *)
LEMMA SameEntries ==
    ASSUME IInv, UNCHANGED <<call, table, fresh>>, clock' \in 0 .. MaxTime, clock <= clock',
           \A o \in Ops : pc[o] = "done" => pc'[o] = "done",
           \A o \in Ops : answer'[o] = Stored => answer[o] = Stored
    PROVE  (BuiltInTime /\ TableIsFunctional /\ PlacesStayTaken)'
  <1>1. BuiltInTime'
    <2> SUFFICES ASSUME NEW o \in Ops, fresh[o] # NoEntry
                 PROVE  \E t \in 0 .. clock' : fresh[o] = EntryAt(o, t)'
      BY DEF BuiltInTime
    <2>1. PICK t \in 0 .. clock : fresh[o] = EntryAt(o, t)
      BY DEF IInv, BuiltInTime
    <2>2. t \in 0 .. clock'
      BY DEF IInv, TypeOK
    <2> QED
      BY <2>1, <2>2, EntriesStayBuilt
  <1>2. TableIsFunctional'
    BY InTable DEF IInv, TableIsFunctional
  <1>3. PlacesStayTaken'
    BY DEF IInv, PlacesStayTaken
  <1> QED
    BY <1>1, <1>2, <1>3

LEMMA ReadStep ==
    ASSUME IInv, NEW o \in Ops, LookupExact(o) \/ LookupSemantic(o)
    PROVE  IInv'
  <1>1. PICK S \in SUBSET Live :
          \/ S = {} /\ pc[o] = "exact" /\ Goto(o, "embed")
          \/ S = {} /\ End(o, None)
          \/ \E e \in S : End(o, e.text)
    BY HitsAreLive DEF LookupExact, LookupSemantic
  <1>2. pc[o] \in {"exact", "search"} /\ UNCHANGED <<clock, table, call, fresh>>
    BY DEF LookupExact, LookupSemantic
  <1>3. CASE Goto(o, "embed")
    <2>1. /\ pc' \in [Ops -> {"exact", "embed", "search", "put", "done"}]
          /\ pc'[o] = "embed" /\ UNCHANGED answer
          /\ \A p \in Ops \ {o} : pc'[p] = pc[p]
      BY <1>3, GotoDoes DEF IInv
    <2>2. (TypeOK /\ StepsMatchKind)'
      BY <1>2, <2>1 DEF IInv, TypeOK, StepsMatchKind
    <2>3. (BuiltInTime /\ TableIsFunctional /\ PlacesStayTaken)'
      BY <1>2, <2>1, SameEntries DEF IInv, TypeOK
    <2> QED
      BY <2>2, <2>3 DEF IInv
  <1>4. ASSUME NEW a \in Ops \cup {None}, End(o, a) PROVE IInv'
    <2>1. /\ pc' \in [Ops -> {"exact", "embed", "search", "put", "done"}]
          /\ answer' \in [Ops -> Ops \cup {None, Stored, Pending}]
          /\ pc'[o] = "done" /\ answer'[o] = a
          /\ \A p \in Ops \ {o} : pc'[p] = pc[p] /\ answer'[p] = answer[p]
      BY <1>4, EndDoes DEF IInv
    <2>2. a # Pending /\ a # Stored
      BY OpsAssumption DEF None, Pending, Stored
    <2>3. (TypeOK /\ StepsMatchKind)'
      BY <1>2, <2>1, <2>2 DEF IInv, TypeOK, StepsMatchKind
    <2>4. (BuiltInTime /\ TableIsFunctional /\ PlacesStayTaken)'
      BY <1>2, <2>1, <2>2, SameEntries DEF IInv, TypeOK
    <2> QED
      BY <2>3, <2>4 DEF IInv
  <1>5. \A e \in S : e.text \in Ops
    BY InTable DEF Live
  <1> QED
    BY <1>1, <1>3, <1>4, <1>5

LEMMA EmbedStep ==
    ASSUME IInv, NEW o \in Ops, Embed(o)
    PROVE  IInv'
  <1> DEFINE l == IF call[o].kind = "lookup" THEN "search" ELSE "put"
  <1>1. pc[o] = "embed" /\ UNCHANGED <<clock, table, call>> /\ Goto(o, l)
    BY DEF Embed
  <1>2. l \in {"search", "put"} /\ (l = "search" <=> call[o].kind = "lookup")
    OBVIOUS
  <1> HIDE DEF l
  <1>3. /\ pc' \in [Ops -> {"exact", "embed", "search", "put", "done"}]
        /\ pc'[o] = l /\ UNCHANGED answer
        /\ \A p \in Ops \ {o} : pc'[p] = pc[p]
    BY <1>1, <1>2, GotoDoes DEF IInv
  <1>4. call[o].kind \in {"lookup", "store"}
    BY CallType DEF IInv
  <1>5. CASE call[o].kind = "lookup"
    <2>1. UNCHANGED fresh
      BY <1>5 DEF Embed
    <2>2. (TypeOK /\ StepsMatchKind)'
      BY <1>1, <1>2, <1>3, <1>5, <2>1 DEF IInv, TypeOK, StepsMatchKind
    <2>3. (BuiltInTime /\ TableIsFunctional /\ PlacesStayTaken)'
      BY <1>1, <1>3, <2>1, SameEntries DEF IInv, TypeOK
    <2> QED
      BY <2>2, <2>3 DEF IInv
  <1>6. CASE call[o].kind = "store"
    <2> DEFINE new == EntryAt(o, clock)
    <2>1. fresh' = [fresh EXCEPT ![o] = new]
      BY <1>6 DEF Embed
    <2>2. clock \in Nat /\ clock \in 0 .. clock
      BY DEF IInv, TypeOK
    <2>3. new \in Entry /\ new # NoEntry
      BY <2>2, EntryAtType DEF IInv
    <2> HIDE DEF new
    <2>4. /\ fresh' \in [Ops -> Entry \cup {NoEntry}] /\ fresh'[o] = new
          /\ \A p \in Ops \ {o} : fresh'[p] = fresh[p]
      BY <2>1, <2>3 DEF IInv, TypeOK
    <2>5. (TypeOK /\ StepsMatchKind)'
      BY <1>1, <1>2, <1>3, <1>6, <2>3, <2>4 DEF IInv, TypeOK, StepsMatchKind
    <2>6. BuiltInTime'
      <3> SUFFICES ASSUME NEW p \in Ops, fresh'[p] # NoEntry
                   PROVE  \E t \in 0 .. clock : fresh'[p] = EntryAt(p, t)'
        BY <1>1 DEF BuiltInTime
      <3>1. CASE p = o
        <4>1. PICK t \in 0 .. clock : t = clock
          BY <2>2
        <4>2. new = EntryAt(o, t)
          BY <4>1 DEF new
        <4>3. EntryAt(o, t)' = EntryAt(o, t)
          BY <1>1, EntriesStayBuilt
        <4> QED
          BY <2>4, <3>1, <4>1, <4>2, <4>3
      <3>2. CASE p # o
        <4>1. PICK t \in 0 .. clock : fresh[p] = EntryAt(p, t)
          BY <2>4, <3>2 DEF IInv, BuiltInTime
        <4>2. EntryAt(p, t)' = EntryAt(p, t)
          BY <1>1, EntriesStayBuilt
        <4>3. fresh'[p] = fresh[p]
          BY <2>4, <3>2
        <4> QED
          BY <4>1, <4>2, <4>3
      <3> QED
        BY <3>1, <3>2
    <2>7. \A e \in table : e.text \in Ops \ {o}
      BY <1>1, InTable
    <2>8. TableIsFunctional'
      BY <1>1, <1>3, <2>4, <2>7 DEF IInv, TableIsFunctional
    <2>9. \A s \in Ops : answer[s] = Stored => s # o
      BY <1>1 DEF IInv, StepsMatchKind, Stored, Pending
    <2>10. PlacesStayTaken'
      BY <1>1, <1>3, <2>4, <2>9 DEF IInv, PlacesStayTaken
    <2> QED
      BY <2>5, <2>6, <2>8, <2>10 DEF IInv
  <1> QED
    BY <1>4, <1>5, <1>6

(* A write, whether it is reported or raises afterwards.                   *)
LEMMA PutStep ==
    ASSUME IInv, NEW o \in Ops, NEW a \in {Stored, None},
           pc[o] = "put", table' = PutEntry(table, fresh[o]), End(o, a),
           UNCHANGED <<clock, call, fresh>>
    PROVE  IInv'
  <1>1. /\ pc' \in [Ops -> {"exact", "embed", "search", "put", "done"}]
        /\ answer' \in [Ops -> Ops \cup {None, Stored, Pending}]
        /\ pc'[o] = "done" /\ answer'[o] = a /\ a # Pending
        /\ \A p \in Ops \ {o} : pc'[p] = pc[p] /\ answer'[p] = answer[p]
    BY EndDoes DEF IInv, None, Stored, Pending
  <1> DEFINE new == fresh[o]
  <1>2. new # NoEntry
    BY DEF IInv, StepsMatchKind
  <1>3. new \in Entry /\ new.text = o
    BY <1>2, Built
  <1>4. \A e : e \in table' <=>
          (e \in table /\ ~(e.tenant = new.tenant /\ e.key = new.key)) \/ e = new
    BY DEF PutEntry
  <1> HIDE DEF new
  <1>5. (TypeOK /\ StepsMatchKind)'
    <2>1. table' \subseteq Entry
      BY <1>3, <1>4 DEF IInv, TypeOK
    <2> QED
      BY <1>1, <2>1 DEF IInv, TypeOK, StepsMatchKind
  <1>6. BuiltInTime'
    BY EntriesStayBuilt DEF IInv, BuiltInTime
  <1>7. TableIsFunctional'
    <2>1. ASSUME NEW e \in table' PROVE fresh[e.text] = e /\ pc'[e.text] = "done"
      <3>1. CASE e = new
        BY <1>1, <1>3, <3>1 DEF new
      <3>2. CASE e \in table
        BY <1>1, <3>2, InTable
      <3> QED
        BY <1>4, <3>1, <3>2
    <2>2. ASSUME NEW e \in table', NEW f \in table', e.tenant = f.tenant, e.key = f.key
          PROVE  e = f
      BY <1>4, <2>2 DEF IInv, TableIsFunctional
    <2> QED
      BY <2>1, <2>2 DEF TableIsFunctional
  <1>8. PlacesStayTaken'
    <2> SUFFICES ASSUME NEW s \in Ops, answer'[s] = Stored
                 PROVE  /\ fresh[s] # NoEntry
                        /\ \E e \in table' : e.tenant = fresh[s].tenant /\ e.key = fresh[s].key
      BY DEF PlacesStayTaken
    <2>1. CASE s = o
      BY <1>2, <1>4, <2>1 DEF new
    <2>2. CASE s # o
      <3>1. answer[s] = Stored
        BY <1>1, <2>2
      <3>2. fresh[s] # NoEntry
        BY <3>1 DEF IInv, PlacesStayTaken
      <3>3. PICK e \in table : e.tenant = fresh[s].tenant /\ e.key = fresh[s].key
        BY <3>1 DEF IInv, PlacesStayTaken
      <3>4. e \in table' \/ (new.tenant = e.tenant /\ new.key = e.key /\ new \in table')
        BY <1>4
      <3> QED
        BY <3>2, <3>3, <3>4
    <2> QED
      BY <2>1, <2>2
  <1> QED
    BY <1>5, <1>6, <1>7, <1>8 DEF IInv

LEMMA FailStep ==
    ASSUME IInv, NEW o \in Ops, Fail(o)
    PROVE  IInv'
  <1>1. pc[o] # "done" /\ End(o, None) /\ UNCHANGED <<clock, call, fresh>>
    BY DEF Fail
  <1>2. CASE UNCHANGED table
    <2>1. /\ pc' \in [Ops -> {"exact", "embed", "search", "put", "done"}]
          /\ answer' \in [Ops -> Ops \cup {None, Stored, Pending}]
          /\ pc'[o] = "done" /\ answer'[o] = None
          /\ \A p \in Ops \ {o} : pc'[p] = pc[p] /\ answer'[p] = answer[p]
      BY <1>1, EndDoes DEF IInv
    <2>2. None # Pending /\ None # Stored
      BY DEF None, Pending, Stored
    <2>3. (TypeOK /\ StepsMatchKind)'
      BY <1>1, <1>2, <2>1, <2>2 DEF IInv, TypeOK, StepsMatchKind
    <2>4. (BuiltInTime /\ TableIsFunctional /\ PlacesStayTaken)'
      BY <1>1, <1>2, <2>1, <2>2, SameEntries DEF IInv, TypeOK
    <2> QED
      BY <2>3, <2>4 DEF IInv
  <1>3. CASE pc[o] = "put" /\ table' = PutEntry(table, fresh[o])
    BY <1>1, <1>3, PutStep
  <1> QED
    BY <1>2, <1>3 DEF Fail

LEMMA TickStep ==
    ASSUME IInv, Tick \/ UNCHANGED vars
    PROVE  IInv'
  <1>1. UNCHANGED <<table, call, pc, fresh, answer>> /\ clock' \in 0 .. MaxTime /\ clock <= clock'
    BY TtlAssumption DEF Tick, vars, IInv, TypeOK
  <1>2. (TypeOK /\ StepsMatchKind)'
    BY <1>1 DEF IInv, TypeOK, StepsMatchKind
  <1>3. (BuiltInTime /\ TableIsFunctional /\ PlacesStayTaken)'
    BY <1>1, SameEntries
  <1> QED
    BY <1>2, <1>3 DEF IInv

LEMMA InitIInv == Init => IInv
  <1> SUFFICES ASSUME Init PROVE IInv
    OBVIOUS
  <1>1. \A o \in Ops : call[o].kind \in {"lookup", "store"}
    BY DEF Init, Asked
  <1>2. NoEntry \notin Entry
    BY OpsAssumption DEF NoEntry, Entry
  <1>3. TypeOK /\ StepsMatchKind
    BY <1>1, TtlAssumption DEF Init, TypeOK, StepsMatchKind, Pending
  <1>4. BuiltInTime /\ TableIsFunctional /\ PlacesStayTaken
    BY DEF Init, BuiltInTime, TableIsFunctional, PlacesStayTaken, Stored, Pending
  <1> QED
    BY <1>3, <1>4 DEF IInv

LEMMA IInvStep == IInv /\ [Next]_vars => IInv'
  <1> SUFFICES ASSUME IInv, [Next]_vars PROVE IInv'
    OBVIOUS
  <1>1. ASSUME NEW o \in Ops, LookupExact(o) \/ LookupSemantic(o) PROVE IInv'
    BY <1>1, ReadStep
  <1>2. ASSUME NEW o \in Ops, Embed(o) PROVE IInv'
    BY <1>2, EmbedStep
  <1>3. ASSUME NEW o \in Ops, Store(o) PROVE IInv'
    BY <1>3, PutStep DEF Store
  <1>4. ASSUME NEW o \in Ops, Fail(o) PROVE IInv'
    BY <1>4, FailStep
  <1>5. CASE Tick \/ UNCHANGED vars
    BY <1>5, TickStep
  <1> QED
    BY <1>1, <1>2, <1>3, <1>4, <1>5 DEF Next

(* What the cache holds was built by stores that have ended, each entry for its *)
(* store's own request, one for each tenant and key, and a key once stored under *)
(* stays taken (cache/backend.py:67-68).                                        *)
THEOREM Safety == Spec => []IInv
  BY InitIInv, IInvStep, PTL DEF Spec

-----------------------------------------------------------------------------
(* Times.                                                                  *)

(* Whoever is given a text is given that of a live entry.                  *)
LEMMA Serves ==
    ASSUME IInv, [Next]_vars, NEW o \in Ops, answer'[o] # answer[o], answer'[o] \in Ops
    PROVE  \E e \in Live : e.text = answer'[o]
  <1> DEFINE Ends(p, e) == pc[p] # "done" /\ End(p, e.text)
  <1>1. ASSUME NEW p \in Ops, NEW a \in Ops \cup {None, Stored, Pending}, End(p, a)
        PROVE  p = o /\ answer'[o] = a
    BY <1>1, EndDoes DEF IInv
  <1>2. None \notin Ops /\ Stored \notin Ops
    BY OpsAssumption
  <1>3. ASSUME NEW p \in Ops, LookupExact(p) \/ LookupSemantic(p)
        PROVE  \E e \in Live : e.text = answer'[o]
    <2>1. \/ UNCHANGED answer \/ End(p, None)
          \/ \E e \in Live : End(p, e.text)
      BY <1>3, HitsAreLive DEF LookupExact, LookupSemantic, Goto
    <2>2. \A e \in Live : e.text \in Ops
      BY InTable DEF Live
    <2> QED
      BY <1>1, <1>2, <2>1, <2>2
  <1>4. ASSUME NEW p \in Ops, Embed(p) PROVE FALSE
    BY <1>4 DEF Embed, Goto
  <1>5. ASSUME NEW p \in Ops, Store(p) \/ Fail(p) PROVE FALSE
    BY <1>1, <1>2, <1>5 DEF Store, Fail
  <1>6. CASE Tick \/ UNCHANGED vars
    BY <1>6 DEF Tick, vars
  <1> QED
    BY <1>3, <1>4, <1>5, <1>6 DEF Next

LEMMA ServesInTime ==
    IInv /\ [Next]_vars =>
        [\A o \in Ops : answer'[o] # answer[o] /\ answer'[o] \in Ops
             => clock < Deadline(answer'[o])]_vars
  <1> SUFFICES ASSUME IInv, [Next]_vars,
                      NEW o \in Ops, answer'[o] # answer[o], answer'[o] \in Ops
               PROVE  clock < Deadline(answer'[o])
    OBVIOUS
  <1>1. PICK e \in Live : e.text = answer'[o]
    BY Serves
  <1>2. e \in table /\ clock < e.expires
    BY DEF Live
  <1> QED
    BY <1>1, <1>2, InTable

(* No text is served from its deadline on, however long its lookup, its store or *)
(* both have been waiting (cache/backend.py:47, cache/engine.py:107-114).        *)
THEOREM Timely == Spec => ServedWithinLifetime
  BY InitIInv, IInvStep, ServesInTime, PTL DEF Spec, ServedWithinLifetime

LEMMA QueriesOfTable ==
    ASSUME IInv, NEW x \in table
    PROVE  x.key.query \in Queries
  <1>1. x.text \in Ops /\ x.key = KeyFor(x.text)
    BY InTable
  <1>2. Norm[call[x.text].in.query] \in Queries
    BY <1>1, CallType DEF IInv
  <1> QED
    BY <1>1, <1>2, KeyFields

(* The semantic tier answers if anything is near.                          *)
LEMMA SearchFindsNear ==
    ASSUME NEW L, NEW t, NEW f, NEW q, Norm[q] \in Queries,
           \A e \in L : e.key.query \in Queries,
           NEW e \in L, e.tenant = t, e.key.fp = f,
           Similarity[Norm[q], e.key.query] >= Threshold
    PROVE  SearchSemantic(L, t, f, q) # {}
  <1> DEFINE near == {x \in L : /\ x.tenant = t /\ x.key.fp = f
                               /\ Similarity[Norm[q], x.key.query] >= Threshold}
             S == {Similarity[Norm[q], x.key.query] : x \in near}
  <1>1. e \in near /\ S # {}
    OBVIOUS
  <1>2. S \subseteq 0 .. 100
    BY SimilarityAssumption
  <1> HIDE DEF S
  <1>3. PICK m \in S : \A n \in S : m >= n
    BY <1>1, <1>2, Largest
  <1>4. PICK x \in near : m = Similarity[Norm[q], x.key.query]
    BY DEF S
  <1>5. \A y \in near : Similarity[Norm[q], x.key.query] >= Similarity[Norm[q], y.key.query]
    BY <1>3, <1>4 DEF S
  <1>6. x \in SearchSemantic(L, t, f, q)
    BY <1>5 DEF SearchSemantic
  <1> QED
    BY <1>6

LEMMA MissesForAReason ==
    ASSUME IInv, NEW o \in Ops, NEW s \in Ops,
           LookupSemantic(o), answer'[o] = None, answer[s] = Stored,
           fresh[s].key.fp = KeyFor(o).fp,
           Similarity[KeyFor(o).query, fresh[s].key.query] >= Threshold
    PROVE  \E r \in Ops : /\ pc[r] = "done" /\ fresh[r] # NoEntry
                          /\ fresh[r].key = fresh[s].key
                          /\ Deadline(r) <= clock
  <1> DEFINE in   == call[o].in
             hits == SearchSemantic(Live, in.tenant, Fingerprint(in, in.model), in.query)
  <1>1. hits = {}
    <2> SUFFICES ASSUME NEW e \in hits, End(o, e.text) PROVE FALSE
      BY DEF LookupSemantic
    <2>1. e.text \in Ops
      BY HitsAreLive, InTable DEF Live
    <2> QED
      BY <2>1, EndDoes, OpsAssumption DEF IInv
  <1>2. PICK e \in table : e.tenant = fresh[s].tenant /\ e.key = fresh[s].key
    BY DEF IInv, PlacesStayTaken
  <1>3. fresh[s] # NoEntry
    BY DEF IInv, PlacesStayTaken
  <1>4. /\ KeyFor(o).fp = Fingerprint(in, in.model) /\ KeyFor(o).query = Norm[in.query]
        /\ KeyFor(o).fp.tenant = in.tenant
        /\ KeyFor(s).fp.tenant = call[s].in.tenant
    BY DEF KeyFor, KeyOf, Fingerprint
  <1>5. e.tenant = in.tenant
    BY <1>2, <1>3, <1>4, Built
  <1>6. \A x \in Live : x.key.query \in Queries
    BY QueriesOfTable DEF Live
  <1>7. Norm[in.query] \in Queries
    BY CallType DEF IInv
  <1>8. e \notin Live
    BY <1>1, <1>2, <1>4, <1>5, <1>6, <1>7, SearchFindsNear
  <1> HIDE DEF hits, in
  <1>9. ~(clock < e.expires) /\ e.expires \in Nat /\ clock \in Nat
    <2>1. ~(clock < e.expires)
      BY <1>8 DEF Live
    <2>2. e.expires \in Nat
      BY InTable
    <2>3. clock \in Nat
      BY ClockType DEF IInv
    <2> QED
      BY <2>1, <2>2, <2>3
  <1>10. /\ e.text \in Ops /\ pc[e.text] = "done" /\ fresh[e.text] # NoEntry
         /\ fresh[e.text] = e /\ Deadline(e.text) = e.expires
    BY InTable
  <1>11. Deadline(e.text) <= clock
    <2>1. e.expires <= clock
      BY <1>9, NotBefore
    <2>2. Deadline(e.text) = e.expires
      BY <1>10
    <2> QED
      BY <2>1, <2>2
  <1> QED
    BY <1>2, <1>10, <1>11

LEMMA FindsWhatIsStored ==
    IInv /\ [Next]_vars =>
        [\A o \in Ops, s \in Ops :
           (LookupSemantic(o) /\ answer'[o] = None /\ answer[s] = Stored) =>
              LET near == /\ fresh[s].key.fp = KeyFor(o).fp
                          /\ Similarity[KeyFor(o).query, fresh[s].key.query] >= Threshold
              IN  near => \E r \in Ops : /\ pc[r] = "done" /\ fresh[r] # NoEntry
                                         /\ fresh[r].key = fresh[s].key
                                         /\ Deadline(r) <= clock]_vars
  BY MissesForAReason

(* What was stored is found until its deadline: a lookup misses only if nothing near *)
(* was stored, or what stands in its place is past its own (cache/engine.py:72-81).  *)
THEOREM Found == Spec => StoredIsFound
  BY InitIInv, IInvStep, FindsWhatIsStored, PTL DEF Spec, StoredIsFound

-----------------------------------------------------------------------------
(* Refinement: what AtomicCache says of the texts of live entries.         *)

Texts == {e.text : e \in Live}

LEMMA AsksFields ==
    ASSUME NEW o \in Ops
    PROVE  /\ Asks[o].kind = call[o].kind /\ Asks[o].query = call[o].in.query
           /\ Asks[o].scope = <<call[o].in.tenant, call[o].in.namespace,
                               call[o].in.model, call[o].in.system>>
  BY DEF Asks

(* Two requests have one scope if their fingerprints agree, and so for entries. *)
LEMMA ScopeIsFingerprint ==
    ASSUME NEW o \in Ops, NEW p \in Ops
    PROVE  Asks[o].scope = Asks[p].scope <=> KeyFor(o).fp = KeyFor(p).fp
  <1>1. Asks[o].scope = Asks[p].scope <=>
          /\ call[o].in.tenant = call[p].in.tenant /\ call[o].in.namespace = call[p].in.namespace
          /\ call[o].in.model = call[p].in.model /\ call[o].in.system = call[p].in.system
    BY AsksFields
  <1>2. KeyFor(o).fp = KeyFor(p).fp <=>
          /\ call[o].in.tenant = call[p].in.tenant /\ call[o].in.namespace = call[p].in.namespace
          /\ call[o].in.model = call[p].in.model /\ call[o].in.system = call[p].in.system
    BY DEF KeyFor, KeyOf, Fingerprint
  <1> QED
    BY <1>1, <1>2

LEMMA EntryIsAsked ==
    ASSUME IInv, NEW o \in Ops, NEW e \in table
    PROVE  /\ e.text \in Ops
           /\ Asks[e.text].scope = Asks[o].scope
                <=> e.tenant = call[o].in.tenant /\ e.key.fp = KeyFor(o).fp
           /\ Norm[Asks[e.text].query] = e.key.query
           /\ Norm[Asks[o].query] = KeyFor(o).query
           /\ Atomic!Likeness(o, e.text) = Similarity[Norm[call[o].in.query], e.key.query]
  <1>1. e.text \in Ops /\ e.tenant = call[e.text].in.tenant /\ e.key = KeyFor(e.text)
    BY InTable
  <1>2. Norm[Asks[e.text].query] = e.key.query /\ Norm[Asks[o].query] = KeyFor(o).query
    BY <1>1, AsksFields, KeyFields
  <1>3. e.key.fp = KeyFor(o).fp => e.tenant = call[o].in.tenant
    BY <1>1, KeyFields
  <1>4. Atomic!Likeness(o, e.text) = Similarity[Norm[call[o].in.query], e.key.query]
    BY <1>2, KeyFields DEF Atomic!Likeness
  <1> QED
    BY <1>1, <1>2, <1>3, <1>4, ScopeIsFingerprint

(* What the semantic tier finds is what AtomicCache calls best.            *)
LEMMA SearchIsBest ==
    ASSUME IInv, NEW o \in Ops
    PROVE  LET in   == call[o].in
               hits == SearchSemantic(Live, in.tenant, Fingerprint(in, in.model), in.query)
           IN  /\ hits = {} => Atomic!Near(o) = {}
               /\ \A e \in hits : e.text \in Atomic!Best(o) /\ Atomic!Near(o) # {}
  <1> DEFINE in   == call[o].in
             fp   == Fingerprint(in, in.model)
             near == {e \in Live : /\ e.tenant = in.tenant /\ e.key.fp = fp
                                  /\ Similarity[Norm[in.query], e.key.query] >= Threshold}
             hits == SearchSemantic(Live, in.tenant, fp, in.query)
  <1>1. fp = KeyFor(o).fp
    BY KeyFields
  <1>2. Atomic!Near(o) = {e.text : e \in near}
    <2>1. Atomic!Near(o) = {x \in Texts : /\ Asks[x].scope = Asks[o].scope
                                          /\ Atomic!Likeness(o, x) >= Threshold}
      BY DEF Atomic!Near, Texts
    <2>2. \A e \in Live : e \in near <=> /\ Asks[e.text].scope = Asks[o].scope
                                         /\ Atomic!Likeness(o, e.text) >= Threshold
      BY <1>1, EntryIsAsked DEF Live
    <2> HIDE DEF near
    <2>3. near \subseteq Live
      BY DEF near
    <2> QED
      BY <2>1, <2>2, <2>3 DEF Texts
  <1>3. hits = {e \in near : \A f \in near :
            Similarity[Norm[in.query], e.key.query] >= Similarity[Norm[in.query], f.key.query]}
    BY DEF SearchSemantic
  <1>4. ASSUME NEW e \in hits PROVE e.text \in Atomic!Best(o)
    <2>1. e \in near /\ e \in table
      BY <1>3 DEF Live
    <2>2. ASSUME NEW x \in Atomic!Near(o)
          PROVE  Atomic!Likeness(o, e.text) >= Atomic!Likeness(o, x)
      <3>1. PICK f \in near : x = f.text
        BY <1>2
      <3>2. f \in table
        BY DEF Live
      <3>3. Similarity[Norm[in.query], e.key.query] >= Similarity[Norm[in.query], f.key.query]
        BY <1>3
      <3>4. /\ Atomic!Likeness(o, e.text) = Similarity[Norm[in.query], e.key.query]
            /\ Atomic!Likeness(o, f.text) = Similarity[Norm[in.query], f.key.query]
        BY <2>1, <3>2, EntryIsAsked
      <3> QED
        BY <3>1, <3>3, <3>4
    <2>3. e.text \in Atomic!Near(o)
      BY <1>2, <2>1
    <2> QED
      BY <2>2, <2>3 DEF Atomic!Best
  <1>5. ASSUME hits = {}, Atomic!Near(o) # {} PROVE FALSE
    <2>1. PICK e \in near : TRUE
      BY <1>2, <1>5
    <2>2. \A x \in Live : x.key.query \in Queries
      BY QueriesOfTable DEF Live
    <2>3. Norm[in.query] \in Queries
      BY CallType DEF IInv
    <2>4. hits # {}
      BY <2>1, <2>2, <2>3, SearchFindsNear
    <2> QED
      BY <1>5, <2>4
  <1>6. hits # {} => Atomic!Near(o) # {}
    BY <1>2, <1>3
  <1> QED
    BY <1>4, <1>5, <1>6

(* An exact hit is for the same question.                                  *)
LEMMA ExactIsSame ==
    ASSUME IInv, NEW o \in Ops, NEW e \in GetExact(Live, call[o].in.tenant, KeyFor(o))
    PROVE  e.text \in Atomic!Same(o)
  <1>1. e \in Live /\ e \in table /\ e.tenant = call[o].in.tenant /\ e.key = KeyFor(o)
    BY DEF GetExact, Live
  <1>2. /\ Asks[e.text].scope = Asks[o].scope
        /\ Norm[Asks[e.text].query] = Norm[Asks[o].query]
    <2>1. e.key.fp = KeyFor(o).fp /\ e.key.query = KeyFor(o).query
      BY <1>1
    <2> QED
      BY <1>1, <2>1, EntryIsAsked
  <1>3. e.text \in Texts
    BY <1>1 DEF Texts
  <1> QED
    BY <1>2, <1>3 DEF Atomic!Same, Texts

LEMMA LiveAfterPut ==
    ASSUME IInv, NEW o \in Ops, pc[o] = "put", UNCHANGED <<clock, call, fresh>>,
           table' = PutEntry(table, fresh[o])
    PROVE  LET others == {x \in Texts : \/ Asks[x].scope # Asks[o].scope
                                         \/ Norm[Asks[x].query] # Norm[Asks[o].query]}
           IN  Texts' \in {others, others \cup {o}}
  <1> DEFINE others == {x \in Texts : \/ Asks[x].scope # Asks[o].scope
                                      \/ Norm[Asks[x].query] # Norm[Asks[o].query]}
             new == fresh[o]
             Rest == {e \in Live : ~(e.tenant = new.tenant /\ e.key = new.key)}
  <1>1. new # NoEntry
    BY DEF IInv, StepsMatchKind
  <1>2. new.text = o /\ new.tenant = call[o].in.tenant /\ new.key = KeyFor(o)
    BY <1>1, Built
  <1>3. Live' = Rest \cup (IF clock < new.expires THEN {new} ELSE {})
    BY DEF Live, PutEntry
  <1>4. others = {e.text : e \in Rest}
    <2>1. ASSUME NEW e \in Live
          PROVE  e \in Rest <=> \/ Asks[e.text].scope # Asks[o].scope
                               \/ Norm[Asks[e.text].query] # Norm[Asks[o].query]
      <3>1. e \in table
        BY DEF Live
      <3>2. e.key = KeyFor(e.text)
        BY <3>1, InTable
      <3>3. e.key = KeyFor(o) <=> e.key.fp = KeyFor(o).fp /\ e.key.query = KeyFor(o).query
        BY <3>2 DEF KeyFor, KeyOf
      <3>4. e \in Rest <=> ~(e.tenant = call[o].in.tenant /\ e.key = KeyFor(o))
        BY <1>2
      <3> HIDE DEF Rest
      <3>5. /\ Asks[e.text].scope = Asks[o].scope
                <=> e.tenant = call[o].in.tenant /\ e.key.fp = KeyFor(o).fp
            /\ Norm[Asks[e.text].query] = e.key.query
            /\ Norm[Asks[o].query] = KeyFor(o).query
        BY <3>1, EntryIsAsked
      <3> QED
        BY <3>3, <3>4, <3>5
    <2> HIDE DEF Rest
    <2>2. Rest \subseteq Live
      BY DEF Rest
    <2> QED
      BY <2>1, <2>2 DEF Texts
  <1>5. Texts' = {e.text : e \in Live'}
    BY DEF Texts
  <1> HIDE DEF Rest, others, new
  <1>6. Texts' = others \cup (IF clock < new.expires THEN {o} ELSE {})
    BY <1>2, <1>3, <1>4, <1>5
  <1> QED
    BY <1>6 DEF others

LEMMA InitRefines == Init => Atomic!AbsInit
  BY DEF Init, Atomic!AbsInit, Live, Pending, Atomic!Pending

LEMMA StepRefines == IInv /\ [Next]_vars => [Atomic!AbsNext]_(Atomic!absVars)
  <1> SUFFICES ASSUME IInv, [Next]_vars
               PROVE  \/ /\ UNCHANGED Asks
                         /\ \/ Atomic!Forget
                            \/ \E o \in Ops : \/ Atomic!Answer(o) \/ Atomic!NoAnswer(o)
                                             \/ Atomic!Write(o)
                      \/ UNCHANGED <<Asks, Texts, answer>>
    BY DEF Atomic!AbsNext, Atomic!absVars, Texts
  <1>1. UNCHANGED Asks
    BY DEF Asks, Next, vars, Tick, LookupExact, LookupSemantic, Embed, Store, Fail
  <1>2. ASSUME NEW o \in Ops, pc[o] # "done", NEW a, End(o, a) PROVE Atomic!Reply(o, a)
    BY <1>2 DEF IInv, StepsMatchKind, End, Atomic!Reply, Atomic!Pending, Pending
  <1>3. None = Atomic!None /\ Stored = Atomic!Stored
    BY DEF None, Stored, Atomic!None, Atomic!Stored
  <1>4. ASSUME UNCHANGED <<clock, table>> PROVE UNCHANGED Texts
    BY <1>4 DEF Texts, Live
  <1>5. ASSUME NEW o \in Ops, LookupExact(o)
        PROVE  Atomic!Answer(o) \/ UNCHANGED <<Texts, answer>>
    <2> DEFINE hits == GetExact(Live, call[o].in.tenant, KeyFor(o))
    <2>1. UNCHANGED Texts /\ pc[o] = "exact"
      BY <1>4, <1>5 DEF LookupExact
    <2>2. CASE hits = {}
      BY <1>5, <2>1, <2>2 DEF LookupExact, Goto
    <2>3. CASE hits # {}
      <3>1. PICK e \in hits : End(o, e.text)
        BY <1>5, <2>3 DEF LookupExact
      <3>2. Atomic!Reply(o, e.text) /\ e.text \in Atomic!Same(o)
        BY <1>2, <2>1, <3>1, ExactIsSame
      <3>3. Asks[o].kind = "lookup"
        BY <2>1, AsksFields DEF IInv, StepsMatchKind
      <3> QED
        BY <2>1, <3>2, <3>3 DEF Atomic!Answer, Texts
    <2> QED
      BY <2>2, <2>3
  <1>6. ASSUME NEW o \in Ops, Embed(o) PROVE UNCHANGED <<Texts, answer>>
    BY <1>4, <1>6 DEF Embed, Goto
  <1>7. ASSUME NEW o \in Ops, LookupSemantic(o) PROVE Atomic!Answer(o)
    <2> DEFINE in   == call[o].in
               hits == SearchSemantic(Live, in.tenant, Fingerprint(in, in.model), in.query)
    <2>1. UNCHANGED Texts /\ pc[o] = "search"
      BY <1>4, <1>7 DEF LookupSemantic
    <2>2. Asks[o].kind = "lookup"
      BY <2>1, AsksFields DEF IInv, StepsMatchKind
    <2>3. /\ hits = {} => End(o, None) /\ Atomic!Near(o) = {}
          /\ hits # {} => \E e \in hits : End(o, e.text)
          /\ \A e \in hits : e.text \in Atomic!Best(o) /\ Atomic!Near(o) # {}
      BY <1>7, SearchIsBest DEF LookupSemantic
    <2> HIDE DEF hits
    <2>4. \E a \in IF Atomic!Near(o) = {} THEN {None} ELSE Atomic!Best(o) : End(o, a)
      BY <2>3
    <2> QED
      BY <1>2, <1>3, <2>1, <2>2, <2>4 DEF Atomic!Answer, Texts
  <1>8. ASSUME NEW o \in Ops, NEW a \in {Stored, None}, pc[o] = "put",
               table' = PutEntry(table, fresh[o]), End(o, a), UNCHANGED <<clock, call, fresh>>
        PROVE  Atomic!Write(o)
    <2>1. Atomic!Reply(o, a)
      BY <1>2, <1>8
    <2>2. Asks[o].kind = "store"
      BY <1>8, AsksFields DEF IInv, StepsMatchKind
    <2> QED
      BY <1>3, <1>8, <2>1, <2>2, LiveAfterPut DEF Atomic!Write, Texts
  <1>9. ASSUME NEW o \in Ops, Store(o) PROVE Atomic!Write(o)
    BY <1>8, <1>9 DEF Store
  <1>10. ASSUME NEW o \in Ops, Fail(o) PROVE Atomic!NoAnswer(o) \/ Atomic!Write(o)
    <2>1. pc[o] # "done" /\ End(o, None) /\ UNCHANGED <<clock, call, fresh>>
      BY <1>10 DEF Fail
    <2>2. CASE UNCHANGED table
      BY <1>2, <1>3, <1>4, <2>1, <2>2 DEF Atomic!NoAnswer, Texts
    <2>3. CASE pc[o] = "put" /\ table' = PutEntry(table, fresh[o])
      BY <1>8, <2>1, <2>3
    <2> QED
      BY <1>10, <2>2, <2>3 DEF Fail
  <1>11. ASSUME Tick PROVE Atomic!Forget
    <2>1. Texts' \subseteq Texts
      <3> SUFFICES ASSUME NEW e \in Live' PROVE e \in Live
        BY DEF Texts
      <3>1. e \in table /\ clock + 1 < e.expires
        BY <1>11 DEF Live, Tick
      <3>2. e.expires \in Nat /\ clock \in Nat
        BY <3>1, InTable, ClockType DEF IInv
      <3> QED
        BY <3>1, <3>2 DEF Live
    <2> QED
      BY <1>11, <2>1 DEF Tick, Atomic!Forget, Texts
  <1>12. CASE UNCHANGED vars
    BY <1>1, <1>4, <1>12 DEF vars
  <1> QED
    BY <1>1, <1>5, <1>6, <1>7, <1>9, <1>10, <1>11, <1>12 DEF Next

(* Two tiers read at different times, lazy expiry and a table that keeps its dead are, *)
(* to callers, one table read in one instant (cache/engine.py:56-83).                  *)
THEOREM Refinement == Spec => ImplementsAtomicCache
  BY InitIInv, IInvStep, InitRefines, StepRefines, PTL
  DEF Spec, ImplementsAtomicCache, Atomic!AbsSpec

=============================================================================
