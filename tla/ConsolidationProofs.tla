------------------------ MODULE ConsolidationProofs ------------------------
(***************************************************************************)
(* Proofs about modules Runner and Consolidation for any jobs, drains and  *)
(* memories, any number of retries and any min_cluster: the runner's books *)
(* are exact, consolidation is a use of the runner, and what a job reports *)
(* is in the store.                                                        *)
(***************************************************************************)
EXTENDS Consolidation, FiniteSetTheorems, TLAPS

-----------------------------------------------------------------------------
(* The runner's books, item by item, of a queue q, the drains B that hold  *)
(* an item in r, the counter u, the jobs p done and f given up, the starts *)
(* n and the jobs x enqueued.  A step of the runner goes through books that*)
(* are not those of a state: the drain that ended a job holds nothing yet. *)

Books(q, B, r, u, p, f, n, x) ==
    /\ q \in Seq(Item)
    /\ B \subseteq Drains /\ IsFiniteSet(B) /\ \A e \in B : r[e] \in Item
    /\ u = Len(q) + Cardinality(B)
    /\ n \in [Jobs -> Nat]
    /\ x \subseteq Jobs /\ p \cup f \subseteq x /\ p \cap f = {}
    /\ \A i, k \in 1 .. Len(q) : q[i].job = q[k].job => i = k
    /\ \A d, e \in B : r[d].job = r[e].job => d = e
    /\ \A i \in 1 .. Len(q) :
         /\ q[i].job \in x /\ q[i].job \notin p \cup f
         /\ q[i].attempt = n[q[i].job] /\ q[i].attempt <= MaxRetries
         /\ \A e \in B : r[e].job # q[i].job
    /\ \A e \in B :
         /\ r[e].job \in x /\ r[e].job \notin p \cup f
         /\ r[e].attempt + 1 = n[r[e].job]
    /\ \A j \in Jobs : n[j] <= MaxRetries + 1
    /\ \A j \in f : n[j] = MaxRetries + 1
    /\ \A j \in Jobs \ x : n[j] = 0

(* Job j is in none of the books' hands.                                   *)
Free(j, q, B, r) ==
    /\ \A i \in 1 .. Len(q) : q[i].job # j
    /\ \A e \in B : r[e].job # j

(* The invariant says that the state's books are exact.                    *)
LEMMA InvBooks ==
    ASSUME IInv
    PROVE  Books(queue, Busy, running, unfinished, processed, failed, runs, enqueued)
  <1>1. \A i \in 1 .. Len(queue) : queue[i] \in Item /\ queue[i].job \in Queued
    BY DEF IInv, TypeOK, Queued
  <1>2. \A e \in Busy : running[e] \in Item /\ running[e].job \in Running
    BY DEF IInv, TypeOK, Busy, Running
  <1>3. Busy \subseteq Drains
    BY DEF Busy
  <1> QED
    BY <1>1, <1>2, <1>3
       DEF IInv, TypeOK, OnlyEnqueued, JobInOnePlace, JoinCountIsExact, RetriesAreExact, Books

LEMMA BooksInv ==
    ASSUME Books(queue, Busy, running, unfinished, processed, failed, runs, enqueued)',
           running' \in [Drains -> Item \cup {Nothing}]
    PROVE  IInv'
  <1>1. Queued' \subseteq enqueued' /\ Queued' \cap (processed \cup failed)' = {}
    BY DEF Queued, Books
  <1>2. Running' \subseteq enqueued' /\ Running' \cap (processed \cup failed)' = {}
    BY DEF Running, Books
  <1>3. Queued' \cap Running' = {}
    BY DEF Queued, Running, Books
  <1>4. unfinished' \in Int
    <2>1. Len(queue') \in Nat /\ Cardinality(Busy') \in Nat
      BY FS_CardinalityType DEF Books
    <2> QED
      BY <2>1 DEF Books
  <1>5. TypeOK'
    BY <1>4 DEF TypeOK, Books
  <1>6. OnlyEnqueued'
    BY <1>1, <1>2 DEF OnlyEnqueued, Books
  <1>7. JobInOnePlace'
    BY <1>1, <1>2, <1>3 DEF JobInOnePlace, Books
  <1>8. JoinCountIsExact' /\ RetriesAreExact'
    BY DEF JoinCountIsExact, RetriesAreExact, Books
  <1> QED
    BY <1>5, <1>6, <1>7, <1>8 DEF IInv

-----------------------------------------------------------------------------
(* What a step does to the books, one entry at a time.                     *)

(* A drain's item set aside is in no other hand.                           *)
LEMMA SetAside ==
    ASSUME NEW q, NEW B, NEW r, NEW u, NEW p, NEW f, NEW n, NEW x,
           Books(q, B, r, u, p, f, n, x), NEW d \in B
    PROVE  /\ Books(q, B \ {d}, r, u - 1, p, f, n, x)
           /\ Free(r[d].job, q, B \ {d}, r)
           /\ r[d] \in Item /\ r[d].job \in x \ (p \cup f)
           /\ r[d].attempt + 1 = n[r[d].job]
  <1>1. IsFiniteSet(B \ {d}) /\ Cardinality(B \ {d}) = Cardinality(B) - 1
    BY FS_RemoveElement DEF Books
  <1>2. Len(q) \in Nat /\ Cardinality(B) \in Nat
    BY FS_CardinalityType DEF Books
  <1>3. u - 1 = Len(q) + Cardinality(B \ {d})
    BY <1>1, <1>2 DEF Books
  <1>4. Books(q, B \ {d}, r, u - 1, p, f, n, x)
    BY <1>1, <1>3 DEF Books
  <1> QED
    BY <1>4 DEF Books, Free

(* A job in no hand may be booked as done, or as given up after its runs.  *)
LEMMA BookDone ==
    ASSUME NEW q, NEW B, NEW r, NEW u, NEW p, NEW f, NEW n, NEW x,
           Books(q, B, r, u, p, f, n, x),
           NEW j \in x \ (p \cup f), Free(j, q, B, r)
    PROVE  /\ Books(q, B, r, u, p \cup {j}, f, n, x)
           /\ n[j] = MaxRetries + 1 => Books(q, B, r, u, p, f \cup {j}, n, x)
  BY DEF Books, Free

(* An item of a job in no hand goes to the tail.                           *)
LEMMA BookPut ==
    ASSUME NEW q, NEW B, NEW r, NEW u, NEW p, NEW f, NEW n, NEW x,
           Books(q, B, r, u, p, f, n, x),
           NEW m \in Item, Free(m.job, q, B, r), m.job \notin p \cup f,
           m.attempt = n[m.job], m.attempt <= MaxRetries
    PROVE  Books(Append(q, m), B, r, u + 1, p, f, n, x \cup {m.job})
  <1> DEFINE t == Append(q, m)
  <1>1. /\ t \in Seq(Item) /\ Len(t) = Len(q) + 1 /\ Len(q) \in Nat
        /\ \A i \in 1 .. Len(q) : t[i] = q[i]
        /\ t[Len(q) + 1] = m
    BY DEF Books
  <1> HIDE DEF t
  <1>2. \A i \in 1 .. Len(t) : (i \in 1 .. Len(q) /\ t[i] = q[i]) \/ (i = Len(q) + 1 /\ t[i] = m)
    BY <1>1
  <1>3. u + 1 = Len(t) + Cardinality(B)
    BY <1>1, FS_CardinalityType DEF Books
  <1>4. m.job \in Jobs
    BY DEF Item
  <1>5. \A i, k \in 1 .. Len(t) : t[i].job = t[k].job => i = k
    BY <1>2 DEF Books, Free
  <1>6. \A i \in 1 .. Len(t) :
          /\ t[i].job \in x \cup {m.job} /\ t[i].job \notin p \cup f
          /\ t[i].attempt = n[t[i].job] /\ t[i].attempt <= MaxRetries
          /\ \A e \in B : r[e].job # t[i].job
    BY <1>2 DEF Books, Free
  <1>7. Books(t, B, r, u + 1, p, f, n, x \cup {m.job})
    BY <1>1, <1>3, <1>4, <1>5, <1>6 DEF Books
  <1> QED
    BY <1>7 DEF t

(* A drain that holds nothing takes the head and starts it.                *)
LEMMA BookTake ==
    ASSUME NEW q, NEW B, NEW r, NEW u, NEW p, NEW f, NEW n, NEW x,
           Books(q, B, r, u, p, f, n, x), q # <<>>, NEW d \in Drains \ B,
           r \in [Drains -> Item \cup {Nothing}]
    PROVE  /\ Head(q) \in Item
           /\ Books(Tail(q), B \cup {d}, [r EXCEPT ![d] = Head(q)], u, p, f,
                    [n EXCEPT ![Head(q).job] = @ + 1], x)
  <1> DEFINE t == Tail(q)
             h == Head(q)
             s == [r EXCEPT ![d] = h]
             o == [n EXCEPT ![h.job] = @ + 1]
  <1>1. /\ t \in Seq(Item) /\ Len(t) = Len(q) - 1 /\ Len(q) \in Nat /\ Len(q) >= 1
        /\ \A i \in 1 .. Len(t) : t[i] = q[i + 1] /\ i + 1 \in 1 .. Len(q)
        /\ h = q[1] /\ 1 \in 1 .. Len(q) /\ h \in Item
    BY DEF Books
  <1>2. /\ s[d] = h /\ \A e \in B : s[e] = r[e]
    BY DEF Books
  <1>3. /\ h.job \in Jobs /\ h.attempt \in Nat
        /\ o \in [Jobs -> Nat] /\ o[h.job] = n[h.job] + 1
        /\ \A j \in Jobs : j # h.job => o[j] = n[j]
    BY <1>1 DEF Books, Item
  <1>4. /\ IsFiniteSet(B \cup {d}) /\ Cardinality(B \cup {d}) = Cardinality(B) + 1
        /\ Cardinality(B) \in Nat
    BY FS_AddElement, FS_CardinalityType DEF Books
  <1>5. /\ h.job \in x /\ h.job \notin p \cup f
        /\ h.attempt = n[h.job] /\ h.attempt <= MaxRetries
        /\ \A e \in B : r[e].job # h.job
    BY <1>1 DEF Books
  <1>6. \A i \in 1 .. Len(t) : t[i].job # h.job
    BY <1>1 DEF Books
  <1> HIDE DEF t, h, s, o
  <1>7. u = Len(t) + Cardinality(B \cup {d})
    BY <1>1, <1>4 DEF Books
  <1>8. \A i, k \in 1 .. Len(t) : t[i].job = t[k].job => i = k
    <2> TAKE i, k \in 1 .. Len(t)
    <2>1. /\ t[i] = q[i + 1] /\ i + 1 \in 1 .. Len(q)
          /\ t[k] = q[k + 1] /\ k + 1 \in 1 .. Len(q)
      BY <1>1
    <2>2. q[i + 1].job = q[k + 1].job => i + 1 = k + 1
      BY <2>1 DEF Books
    <2> QED
      BY <2>1, <2>2
  <1>9. \A i \in 1 .. Len(t) :
          /\ t[i].job \in x /\ t[i].job \notin p \cup f
          /\ t[i].attempt = o[t[i].job] /\ t[i].attempt <= MaxRetries
          /\ \A e \in B \cup {d} : s[e].job # t[i].job
    <2> TAKE i \in 1 .. Len(t)
    <2> DEFINE k == i + 1
    <2>1. t[i] = q[k] /\ k \in 1 .. Len(q)
      BY <1>1
    <2> HIDE DEF k
    <2>2. /\ t[i].job \in x /\ t[i].job \in Jobs /\ t[i].job \notin p \cup f
          /\ t[i].attempt = n[t[i].job] /\ t[i].attempt <= MaxRetries
          /\ \A e \in B : r[e].job # t[i].job
      BY <2>1 DEF Books
    <2>3. o[t[i].job] = n[t[i].job]
      BY <1>3, <1>6, <2>2
    <2>4. \A e \in B \cup {d} : s[e].job # t[i].job
      BY <1>2, <1>6, <2>2
    <2> QED
      BY <2>2, <2>3, <2>4
  <1>10. \A e \in B \cup {d} :
          /\ s[e] \in Item
          /\ s[e].job \in x /\ s[e].job \notin p \cup f
          /\ s[e].attempt + 1 = o[s[e].job]
    <2> TAKE e \in B \cup {d}
    <2>1. CASE e = d
      BY <2>1, <1>1, <1>2, <1>3, <1>5
    <2>2. CASE e \in B
      <3>1. r[e].job \in Jobs /\ r[e].job # h.job
        BY <2>2, <1>5 DEF Books, Item
      <3> QED
        BY <2>2, <3>1, <1>2, <1>3 DEF Books
    <2> QED
      BY <2>1, <2>2
  <1>11. \A a, e \in B \cup {d} : s[a].job = s[e].job => a = e
    BY <1>2, <1>5 DEF Books
  <1>12. /\ \A j \in Jobs : o[j] <= MaxRetries + 1
         /\ \A j \in f : o[j] = MaxRetries + 1
         /\ \A j \in Jobs \ x : o[j] = 0
    <2>1. n[h.job] + 1 <= MaxRetries + 1
      BY <1>3, <1>5, RetriesAssumption
    <2>2. h.job \in x /\ h.job \notin f
      BY <1>5
    <2>3. f \subseteq Jobs
      BY DEF Books
    <2> QED
      BY <2>1, <2>2, <2>3, <1>3 DEF Books
  <1>13. Books(t, B \cup {d}, s, u, p, f, o, x)
    BY <1>1, <1>3, <1>4, <1>7, <1>8, <1>9, <1>10, <1>11, <1>12 DEF Books
  <1> QED
    BY <1>1, <1>13 DEF t, h, s, o

-----------------------------------------------------------------------------
(* The runner's steps.                                                     *)

(* What others see of a step of drain d: no job's starts go back, those of *)
(* the jobs that have ended and of the jobs other drains run stay, and what*)
(* d took it has started once more.                                        *)
Advances(d) ==
    /\ \A j \in Jobs : runs[j] <= runs'[j]
    /\ \A j \in processed' : runs'[j] = runs[j]
    /\ \A e \in Busy' \ {d} :
         /\ e \in Busy /\ running'[e] = running[e]
         /\ runs'[running[e].job] = runs[running[e].job]
    /\ d \in Busy' => runs'[running'[d].job] = runs[running'[d].job] + 1

LEMMA TakeFromStep ==
    ASSUME TypeOK, NEW d \in Drains, NEW q, TakeFrom(d, q),
           Books(q, Busy \ {d}, running, unfinished', processed', failed', runs, enqueued')
    PROVE  IInv' /\ Advances(d)
  <1>1. /\ running \in [Drains -> Item \cup {Nothing}] /\ runs \in [Jobs -> Nat]
        /\ \A m \in Item : m # Nothing /\ m.job \in Jobs
        /\ processed' \subseteq Jobs
    BY DEF TypeOK, Item, Nothing, Books
  <1>2. CASE q = <<>>
    <2>1. /\ queue' = q /\ runs' = runs
          /\ running' = [running EXCEPT ![d] = Nothing]
      BY <1>2 DEF TakeFrom
    <2>2. Busy' = Busy \ {d} /\ \A e \in Busy' : running'[e] = running[e]
      BY <1>1, <2>1 DEF Busy
    <2>3. running' \in [Drains -> Item \cup {Nothing}]
      BY <1>1, <2>1
    <2>4. Books(queue, Busy, running, unfinished, processed, failed, runs, enqueued)'
      BY <2>1, <2>2 DEF Books
    <2>5. IInv'
      BY <2>3, <2>4, BooksInv
    <2>6. Advances(d)
      BY <1>1, <2>1, <2>2 DEF Advances
    <2> QED
      BY <2>5, <2>6
  <1>3. CASE q # <<>>
    <2> DEFINE h == Head(q)
    <2>1. /\ queue' = Tail(q) /\ running' = [running EXCEPT ![d] = h]
          /\ runs' = [runs EXCEPT ![h.job] = @ + 1]
      BY <1>3 DEF TakeFrom
    <2>2. /\ h \in Item
          /\ Books(Tail(q), (Busy \ {d}) \cup {d}, [running EXCEPT ![d] = h], unfinished',
                   processed', failed', [runs EXCEPT ![h.job] = @ + 1], enqueued')
      BY <1>1, <1>3, BookTake
    <2>3. 1 \in 1 .. Len(q) /\ h = q[1]
      BY <1>3 DEF Books
    <2> HIDE DEF h
    <2>4. Busy' = (Busy \ {d}) \cup {d}
      BY <1>1, <2>1, <2>2 DEF Busy
    <2>5. running' \in [Drains -> Item \cup {Nothing}]
      BY <1>1, <2>1, <2>2
    <2>6. Books(queue, Busy, running, unfinished, processed, failed, runs, enqueued)'
      BY <2>1, <2>2, <2>4
    <2>7. IInv'
      BY <2>5, <2>6, BooksInv
    <2>8. /\ h.job \in Jobs /\ h.job \notin processed'
          /\ \A e \in Busy \ {d} : running[e].job # h.job /\ running[e].job \in Jobs
      BY <1>1, <2>2, <2>3 DEF Books
    <2>9. /\ runs'[h.job] = runs[h.job] + 1
          /\ \A j \in Jobs : j # h.job => runs'[j] = runs[j]
      BY <1>1, <2>1, <2>8
    <2>10. running'[d] = h /\ \A e \in Busy' \ {d} : e \in Busy /\ running'[e] = running[e]
      BY <1>1, <2>1, <2>4 DEF Busy
    <2>11. \A j \in Jobs : runs[j] <= runs'[j]
      <3> TAKE j \in Jobs
      <3>1. runs[j] \in Nat
        BY <1>1
      <3> QED
        BY <2>9, <3>1
    <2>12. \A j \in processed' : runs'[j] = runs[j]
      BY <1>1, <2>8, <2>9
    <2>13. \A e \in Busy' \ {d} : runs'[running[e].job] = runs[running[e].job]
      BY <2>8, <2>9, <2>10
    <2>14. Advances(d)
      BY <2>9, <2>10, <2>11, <2>12, <2>13 DEF Advances
    <2> QED
      BY <2>7, <2>14
  <1> QED
    BY <1>2, <1>3

LEMMA DrainStep ==
    ASSUME IInv, NEW d \in Drains, Drain(d)
    PROVE  IInv' /\ Advances(d) /\ UNCHANGED <<processed, failed, enqueued>>
  <1>1. d \notin Busy /\ TakeFrom(d, queue) /\ UNCHANGED <<unfinished, processed, failed, enqueued>>
    BY DEF Drain
  <1>2. Busy \ {d} = Busy
    BY <1>1
  <1>3. Books(queue, Busy \ {d}, running, unfinished', processed', failed', runs, enqueued')
    BY <1>1, <1>2, InvBooks
  <1> QED
    BY <1>1, <1>3, TakeFromStep DEF IInv

LEMMA SucceedStep ==
    ASSUME IInv, NEW d \in Drains, Succeed(d)
    PROVE  /\ IInv' /\ Advances(d) /\ UNCHANGED <<failed, enqueued>>
           /\ processed' = processed \cup {running[d].job}
  <1>1. /\ d \in Busy /\ TakeFrom(d, queue) /\ UNCHANGED <<failed, enqueued>>
        /\ processed' = processed \cup {running[d].job} /\ unfinished' = unfinished - 1
    BY DEF Succeed
  <1>2. Books(queue, Busy, running, unfinished, processed, failed, runs, enqueued)
    BY InvBooks
  <1>3. /\ Books(queue, Busy \ {d}, running, unfinished', processed, failed, runs, enqueued)
        /\ Free(running[d].job, queue, Busy \ {d}, running)
        /\ running[d].job \in enqueued \ (processed \cup failed)
    BY <1>1, <1>2, SetAside
  <1>4. Books(queue, Busy \ {d}, running, unfinished', processed', failed', runs, enqueued')
    BY <1>1, <1>3, BookDone
  <1> QED
    BY <1>1, <1>4, TakeFromStep DEF IInv

LEMMA RaiseStep ==
    ASSUME IInv, NEW d \in Drains, Raise(d)
    PROVE  IInv' /\ Advances(d) /\ UNCHANGED <<processed, enqueued>>
  <1> DEFINE m == running[d]
             b == [m EXCEPT !.attempt = @ + 1]
  <1>1. /\ d \in Busy /\ UNCHANGED <<processed, enqueued>>
    BY DEF Raise
  <1>2. Books(queue, Busy, running, unfinished, processed, failed, runs, enqueued)
    BY InvBooks
  <1>3. /\ Books(queue, Busy \ {d}, running, unfinished - 1, processed, failed, runs, enqueued)
        /\ Free(m.job, queue, Busy \ {d}, running)
        /\ m \in Item /\ m.job \in enqueued \ (processed \cup failed)
        /\ m.attempt + 1 = runs[m.job]
    BY <1>1, <1>2, SetAside
  <1>4. unfinished \in Int /\ m.attempt \in Nat /\ m.job \in Jobs
    BY <1>3 DEF IInv, TypeOK, Item
  <1>5. CASE m.attempt < MaxRetries
    <2>1. /\ TakeFrom(d, Append(queue, b))
          /\ failed' = failed /\ unfinished' = unfinished
      BY <1>5 DEF Raise
    <2>2. b \in Item /\ b.job = m.job /\ b.attempt = m.attempt + 1
      BY <1>3 DEF Item
    <2>3. b.attempt <= MaxRetries
      BY <1>4, <1>5, <2>2, RetriesAssumption
    <2> HIDE DEF b
    <2>4. Books(Append(queue, b), Busy \ {d}, running, (unfinished - 1) + 1, processed, failed,
                runs, enqueued \cup {b.job})
      <3>1. /\ Free(b.job, queue, Busy \ {d}, running) /\ b.job \notin processed \cup failed
            /\ b.attempt = runs[b.job]
        BY <1>3, <2>2
      <3> QED
        BY <1>3, <2>2, <2>3, <3>1, BookPut
    <2>5. (unfinished - 1) + 1 = unfinished' /\ enqueued \cup {b.job} = enqueued'
      BY <1>1, <1>3, <1>4, <2>1, <2>2
    <2>6. Books(Append(queue, b), Busy \ {d}, running, unfinished', processed', failed', runs, enqueued')
      BY <1>1, <2>1, <2>4, <2>5
    <2> QED
      BY <1>1, <2>1, <2>6, TakeFromStep DEF IInv
  <1>6. CASE ~(m.attempt < MaxRetries)
    <2>1. /\ TakeFrom(d, queue)
          /\ failed' = failed \cup {m.job} /\ unfinished' = unfinished - 1
      BY <1>6 DEF Raise
    <2>2. runs[m.job] = MaxRetries + 1
      <3>1. runs[m.job] <= MaxRetries + 1
        BY <1>4 DEF IInv, RetriesAreExact
      <3> QED
        BY <1>3, <1>4, <1>6, <3>1, RetriesAssumption
    <2>3. Books(queue, Busy \ {d}, running, unfinished', processed', failed', runs, enqueued')
      BY <1>1, <1>3, <2>1, <2>2, BookDone
    <2> QED
      BY <1>1, <2>1, <2>3, TakeFromStep DEF IInv
  <1> QED
    BY <1>5, <1>6

(* A cancelled drain lets go of its item, and nobody takes one.            *)
LEMMA CancelStep ==
    ASSUME IInv, NEW d \in Drains, Cancel(d)
    PROVE  /\ IInv' /\ Busy' = Busy \ {d}
           /\ \A e \in Busy' : running'[e] = running[e]
  <1>1. /\ d \in Busy /\ unfinished' = unfinished - 1
        /\ running' = [running EXCEPT ![d] = Nothing]
        /\ UNCHANGED <<queue, processed, failed, runs, enqueued>>
    BY DEF Cancel
  <1>2. running \in [Drains -> Item \cup {Nothing}]
    BY DEF IInv, TypeOK
  <1>3. Busy' = Busy \ {d} /\ \A e \in Busy' : running'[e] = running[e]
    BY <1>1, <1>2 DEF Busy
  <1>4. Books(queue, Busy \ {d}, running, unfinished - 1, processed, failed, runs, enqueued)
    BY <1>1, InvBooks, SetAside
  <1>5. Books(queue, Busy, running, unfinished, processed, failed, runs, enqueued)'
    BY <1>1, <1>3, <1>4 DEF Books
  <1>6. running' \in [Drains -> Item \cup {Nothing}]
    BY <1>1, <1>2
  <1> QED
    BY <1>3, <1>5, <1>6, BooksInv

LEMMA EnqueueStep ==
    ASSUME IInv, NEW j \in Jobs, Enqueue(j)
    PROVE  IInv'
  <1> DEFINE m == [job |-> j, attempt |-> 0]
  <1>1. /\ j \notin enqueued /\ enqueued' = enqueued \cup {j}
        /\ queue' = Append(queue, m) /\ unfinished' = unfinished + 1
        /\ UNCHANGED <<running, processed, failed, runs>>
    BY DEF Enqueue
  <1>2. Books(queue, Busy, running, unfinished, processed, failed, runs, enqueued)
    BY InvBooks
  <1>3. Free(j, queue, Busy, running) /\ j \notin processed \cup failed /\ runs[j] = 0
    BY <1>1, <1>2 DEF Books, Free
  <1>4. m \in Item /\ m.job = j /\ m.attempt = 0 /\ 0 <= MaxRetries
    BY RetriesAssumption DEF Item
  <1> HIDE DEF m
  <1>5. Books(Append(queue, m), Busy, running, unfinished + 1, processed, failed, runs,
              enqueued \cup {m.job})
    BY <1>2, <1>3, <1>4, BookPut
  <1>6. Busy' = Busy
    BY <1>1 DEF Busy
  <1>7. Books(queue, Busy, running, unfinished, processed, failed, runs, enqueued)'
    BY <1>1, <1>4, <1>5, <1>6
  <1>8. running' \in [Drains -> Item \cup {Nothing}]
    BY <1>1 DEF IInv, TypeOK
  <1> QED
    BY <1>7, <1>8, BooksInv

LEMMA RunnerInit == Init => IInv
  <1> SUFFICES ASSUME Init PROVE IInv
    OBVIOUS
  <1>1. Busy = {} /\ Queued = {} /\ Running = {} /\ Len(queue) = 0
    <2>1. Busy = {}
      BY DEF Init, Busy
    <2> QED
      BY <2>1 DEF Init, Queued, Running
  <1>2. TypeOK
    BY DEF Init, TypeOK
  <1>3. OnlyEnqueued
    BY <1>1 DEF Init, OnlyEnqueued
  <1>4. JobInOnePlace
    BY <1>1 DEF Init, JobInOnePlace
  <1>5. JoinCountIsExact
    BY <1>1, FS_EmptySet DEF Init, JoinCountIsExact
  <1>6. RetriesAreExact
    BY <1>1, RetriesAssumption DEF Init, RetriesAreExact
  <1> QED
    BY <1>2, <1>3, <1>4, <1>5, <1>6 DEF IInv

LEMMA RunnerStands ==
    ASSUME IInv, UNCHANGED vars
    PROVE  IInv' /\ Busy' = Busy
  <1>1. Busy' = Busy /\ Queued' = Queued
    BY DEF vars, Busy, Queued
  <1>2. Running' = Running
    BY <1>1 DEF vars, Running
  <1>3. TypeOK' /\ OnlyEnqueued'
    BY <1>1, <1>2 DEF vars, IInv, TypeOK, OnlyEnqueued
  <1>4. JobInOnePlace' /\ JoinCountIsExact' /\ RetriesAreExact'
    BY <1>1, <1>2 DEF vars, IInv, JobInOnePlace, JoinCountIsExact, RetriesAreExact
  <1> QED
    BY <1>1, <1>3, <1>4 DEF IInv

LEMMA RunnerStep == IInv /\ [Next]_vars => IInv'
  <1> SUFFICES ASSUME IInv, [Next]_vars PROVE IInv'
    OBVIOUS
  <1>1. CASE Next
    BY <1>1, EnqueueStep, DrainStep, SucceedStep, RaiseStep, CancelStep DEF Next
  <1>2. CASE UNCHANGED vars
    BY <1>2, RunnerStands
  <1> QED
    BY <1>1, <1>2

(* Whatever the jobs do, the runner's books are exact: no job is in two    *)
(* hands, a join() waits for exactly what is queued or running, and a job  *)
(* is given up only after MaxRetries + 1 starts.                           *)
THEOREM RunnerSafety == Spec => [](JobInOnePlace /\ JoinCountIsExact /\ RetriesAreExact)
  <1>1. IInv => JobInOnePlace /\ JoinCountIsExact /\ RetriesAreExact
    BY DEF IInv
  <1> QED
    BY <1>1, RunnerInit, RunnerStep, PTL DEF Spec

-----------------------------------------------------------------------------
(* Consolidation is a use of the runner: whatever a job awaits, its steps  *)
(* are steps of the runner or leave the runner alone.                      *)
LEMMA JobsAreTheRunners == [NextAll]_allVars => [Next]_vars
  <1>1. ASSUME NEW d \in Drains, List(d)
        PROVE  Succeed(d) \/ UNCHANGED vars
    BY <1>1 DEF List
  <1>2. ASSUME NEW d \in Drains, Generate(d)
        PROVE  UNCHANGED vars
    BY <1>2 DEF Generate
  <1>3. ASSUME NEW d \in Drains, Fails(d) \/ WriteFails(d)
        PROVE  Raise(d)
    BY <1>3 DEF Fails, WriteFails
  <1>4. ASSUME NEW d \in Drains, WriteSummary(d)
        PROVE  Succeed(d)
    BY <1>4 DEF WriteSummary
  <1> QED
    BY <1>1, <1>2, <1>3, <1>4
       DEF NextAll, Next, EnqueueJob, DrainJobs, CancelJob, Remember, allVars

(* Consolidation is used as a job of the runner: every await of a job, and *)
(* every write of others meanwhile, is a step of the runner or none        *)
(* (workers/runner.py:24-55).                                              *)
THEOREM UsesRunner == SpecAll => Init /\ [][Next]_vars
  <1>1. InitAll => Init
    BY DEF InitAll
  <1> QED
    BY <1>1, JobsAreTheRunners, PTL DEF SpecAll

-----------------------------------------------------------------------------
(* What a step leaves in the namespace.                                    *)

(* The job a drain awaits has begun, and has not ended.                    *)
LEMMA JobUnderWay ==
    ASSUME IInv, NEW d \in Busy
    PROVE  /\ Job(d) \in Jobs /\ Job(d) \notin processed
           /\ runs[Job(d)] \in 1 .. MaxRetries + 1
           /\ \A e \in Busy : Job(e) = Job(d) => e = d
  <1>1. /\ running[d] \in Item /\ Job(d) \in Running
    BY DEF IInv, TypeOK, Busy, Running, Job
  <1>2. Job(d) \in Jobs /\ running[d].attempt \in Nat
    BY <1>1 DEF Item, Job
  <1>3. runs[Job(d)] = running[d].attempt + 1 /\ runs[Job(d)] <= MaxRetries + 1
    BY <1>2 DEF IInv, RetriesAreExact, Job
  <1>4. runs[Job(d)] \in 1 .. MaxRetries + 1
    BY <1>2, <1>3, RetriesAssumption
  <1>5. Job(d) \notin processed /\ \A e \in Busy : Job(e) = Job(d) => e = d
    BY <1>1 DEF IInv, JobInOnePlace, Job
  <1> QED
    BY <1>2, <1>4, <1>5

(* The summary the run of drain d writes.                                  *)
Mine(d) == [by |-> Job(d), run |-> runs[Job(d)], from |-> size[d]]

(* The run of a job that writes has left no summary yet, so what it adds   *)
(* is one more, of rows that were there.                                   *)
LEMMA NewSummary ==
    ASSUME IInvAll, NEW d \in Busy, step[d] = "write"
    PROVE  /\ Mine(d) \in Summary /\ Mine(d) \notin written
           /\ \A s \in written : s.by = Job(d) => s.run < runs[Job(d)]
           /\ IsFiniteSet(written \cup {Mine(d)})
           /\ Cardinality(written \cup {Mine(d)}) = Cardinality(written) + 1
           /\ size[d] \in MinCluster .. Cardinality(rows) + Cardinality(written)
  <1>1. /\ Job(d) \in Jobs /\ runs[Job(d)] \in 1 .. MaxRetries + 1
    BY JobUnderWay DEF IInvAll
  <1>2. runs[Job(d)] \in Nat /\ size[d] \in Nat
    BY <1>1 DEF IInvAll, IInv, TypeOK, TypeOKAll, Busy
  <1>3. /\ Mine(d) \in Summary
        /\ Mine(d).by = Job(d) /\ Mine(d).run = runs[Job(d)]
    BY <1>1, <1>2 DEF Mine, Summary
  <1>4. \A s \in written : s.by = Job(d) => s.run < runs[Job(d)]
    BY DEF IInvAll, SummariesOfRuns
  <1>5. Mine(d) \notin written
    BY <1>2, <1>3, <1>4
  <1>6. IsFiniteSet(written)
    BY DEF IInvAll
  <1>7. /\ IsFiniteSet(written \cup {Mine(d)})
        /\ Cardinality(written \cup {Mine(d)}) = Cardinality(written) + 1
    BY <1>5, <1>6, FS_AddElement
  <1>8. size[d] \in MinCluster .. Cardinality(rows) + Cardinality(written)
    BY DEF IInvAll, ListingStands
  <1> QED
    BY <1>3, <1>4, <1>5, <1>7, <1>8

(* A step that ends a run, begins one or both: no summary is added but the *)
(* run's own.                                                              *)
Writes(d) ==
    \/ written' = written
    \/ d \in Busy /\ step[d] = "write" /\ AddSummary(d)

LEMMA WrittenGrows ==
    ASSUME IInvAll, NEW d \in Drains, Writes(d)
    PROVE  /\ written \subseteq written' /\ written' \subseteq Summary
           /\ IsFiniteSet(written')
           /\ Cardinality(written) \in Nat /\ Cardinality(written') \in Nat
           /\ Cardinality(written) <= Cardinality(written')
           /\ \A s \in written' \ written :
                /\ s = Mine(d) /\ d \in Busy /\ step[d] = "write"
                /\ Cardinality(written') = Cardinality(written) + 1
  <1>1. IsFiniteSet(written) /\ written \subseteq Summary /\ Cardinality(written) \in Nat
    BY FS_CardinalityType DEF IInvAll, TypeOKAll
  <1>2. CASE written' = written
    BY <1>1, <1>2
  <1>3. CASE d \in Busy /\ step[d] = "write" /\ written' = written \cup {Mine(d)}
    BY <1>1, <1>3, NewSummary
  <1> QED
    BY <1>2, <1>3 DEF Writes, AddSummary, Mine

LEMMA SummariesStep ==
    ASSUME IInvAll, IInv', NEW d \in Drains, Advances(d), Writes(d), rows' = rows
    PROVE  SummariesOfRuns' /\ OneSummaryPerRun'
  <1>1. /\ runs \in [Jobs -> Nat] /\ runs' \in [Jobs -> Nat]
        /\ \A j \in Jobs : runs[j] <= runs'[j]
    BY DEF IInvAll, IInv, TypeOK, Advances
  <1>2. /\ written' \subseteq Summary
        /\ \A s \in written' : s \in written \/ (s = Mine(d) /\ d \in Busy /\ step[d] = "write")
    BY WrittenGrows
  <1>3. \A s \in written' : s.by \in Jobs /\ s.run \in Nat /\ s.from \in Nat
    BY <1>2 DEF Summary
  <1>4. \A s \in written' : s.run \in 1 .. runs[s.by]
    <2> TAKE s \in written'
    <2>1. CASE s \in written
      BY <2>1 DEF IInvAll, SummariesOfRuns
    <2>2. CASE s = Mine(d) /\ d \in Busy
      BY <2>2, JobUnderWay DEF IInvAll, Mine
    <2> QED
      BY <1>2, <2>1, <2>2
  <1>5. \A s \in written' : s.run \in 1 .. runs'[s.by]
    <2> TAKE s \in written'
    <2>1. s.run \in 1 .. runs[s.by] /\ runs[s.by] <= runs'[s.by]
          /\ runs[s.by] \in Nat /\ runs'[s.by] \in Nat
      BY <1>1, <1>3, <1>4
    <2> QED
      BY <2>1
  <1>6. ASSUME NEW e \in Busy', NEW s \in written', s.by = Job(e)'
        PROVE  s.run < runs'[Job(e)']
    <2>1. CASE e = d
      <3>1. runs'[Job(e)'] = runs[Job(e)'] + 1
        BY <2>1, <1>6 DEF Advances, Job
      <3>2. s.run \in 1 .. runs[Job(e)'] /\ runs[Job(e)'] \in Nat
        BY <1>1, <1>3, <1>4, <1>6
      <3> QED
        BY <3>1, <3>2
    <2>2. CASE e # d
      <3>1. e \in Busy /\ Job(e)' = Job(e) /\ runs'[Job(e)] = runs[Job(e)]
        BY <2>2, <1>6 DEF Advances, Job
      <3>2. s \in written
        <4>1. SUFFICES ASSUME s = Mine(d), d \in Busy PROVE FALSE
          BY <1>2
        <4>2. Job(e) = Job(d)
          BY <3>1, <1>6, <4>1 DEF Mine
        <4> QED
          BY <2>2, <3>1, <4>1, <4>2, JobUnderWay DEF IInvAll
      <3> QED
        BY <1>6, <3>1, <3>2 DEF IInvAll, SummariesOfRuns
    <2> QED
      BY <2>1, <2>2
  <1>7. SummariesOfRuns'
    BY <1>5, <1>6 DEF SummariesOfRuns
  <1>8. ASSUME NEW s \in written', NEW t \in written', s.by = t.by, s.run = t.run
        PROVE  s = t
    <2>1. CASE s \in written /\ t \in written
      BY <1>3, <1>8, <2>1 DEF IInvAll, OneSummaryPerRun
    <2>2. ASSUME d \in Busy, step[d] = "write", NEW a \in written, a.by = Mine(d).by
          PROVE  a.run # Mine(d).run
      <3>1. a.run < runs[Job(d)] /\ Mine(d).run = runs[Job(d)]
        BY <2>2, NewSummary DEF Mine
      <3>2. a.run \in Nat /\ runs[Job(d)] \in Nat
        BY <1>1, <1>3, <2>2, JobUnderWay, WrittenGrows DEF IInvAll
      <3> QED
        BY <3>1, <3>2
    <2> QED
      BY <1>2, <1>8, <2>1, <2>2
  <1>9. \A s \in written' : s.run \in 1 .. MaxRetries + 1
    <2> TAKE s \in written'
    <2>1. s.run \in 1 .. runs'[s.by] /\ runs'[s.by] \in Nat /\ runs'[s.by] <= MaxRetries + 1
      BY <1>1, <1>3, <1>5 DEF IInv, RetriesAreExact
    <2> QED
      BY <2>1, RetriesAssumption
  <1>10. \A s \in written' : s.from < Cardinality(rows') + Cardinality(written')
    <2> DEFINE r == Cardinality(rows)
               w == Cardinality(written)
               v == Cardinality(written')
    <2> TAKE s \in written'
    <2>1. r \in Nat /\ w \in Nat /\ v \in Nat /\ w <= v /\ s.from \in Nat
      BY <1>3, WrittenGrows, FS_CardinalityType DEF IInvAll
    <2>2. CASE s \in written
      <3>1. s.from < r + w
        BY <1>3, <2>2 DEF IInvAll, OneSummaryPerRun
      <3> HIDE DEF r, w, v
      <3>2. s.from < r + v
        BY <2>1, <3>1
      <3> QED
        BY <3>2 DEF r, v
    <2>3. CASE s \notin written
      <3>1. s.from = size[d] /\ size[d] \in MinCluster .. r + w /\ v = w + 1
        BY <2>3, WrittenGrows, NewSummary DEF Mine
      <3> HIDE DEF r, w, v
      <3>2. s.from < r + v
        BY <2>1, <3>1, ClusterAssumption
      <3> QED
        BY <3>2 DEF r, v
    <2> QED
      BY <2>2, <2>3
  <1>11. OneSummaryPerRun'
    BY <1>8, <1>9, <1>10 DEF OneSummaryPerRun
  <1> QED
    BY <1>7, <1>11

(* What jobs have listed stands: the namespace only grows.                 *)
LEMMA ListingStep ==
    ASSUME IInvAll, NEW d \in Drains, Writes(d), rows' = rows,
           \A e \in Busy' : step'[e] # "list" =>
               e \in Busy /\ step[e] # "list" /\ size'[e] = size[e]
    PROVE  ListingStands'
  <1> DEFINE r == Cardinality(rows)
             w == Cardinality(written)
             v == Cardinality(written')
  <1>1. r \in Nat /\ w \in Nat /\ v \in Nat /\ w <= v
    BY WrittenGrows, FS_CardinalityType DEF IInvAll
  <1>2. ASSUME NEW e \in Busy', step'[e] # "list"
        PROVE  size'[e] \in MinCluster .. r + v
    <2>1. size'[e] \in MinCluster .. r + w
      BY <1>2 DEF IInvAll, ListingStands
    <2> HIDE DEF r, w, v
    <2> QED
      BY <1>1, <2>1, ClusterAssumption
  <1> QED
    BY <1>2 DEF ListingStands

(* A job that reports has ended, so the run that wrote its summary was the *)
(* last one.                                                               *)
LEMMA ReportedStep ==
    ASSUME IInvAll, NEW d \in Drains, Advances(d), Writes(d),
           processed \subseteq processed',
           \A j \in Jobs : result'[j] > 0 =>
               \/ result'[j] = result[j]
               \/ /\ d \in Busy /\ step[d] = "write" /\ AddSummary(d)
                  /\ j = Job(d) /\ j \in processed' /\ result'[j] = size[d]
    PROVE  ReportedMeansWritten'
  <1> SUFFICES ASSUME NEW j \in Jobs, result'[j] > 0
               PROVE  /\ j \in processed'
                      /\ [by |-> j, run |-> runs'[j], from |-> result'[j]] \in written'
                      /\ result'[j] >= MinCluster
    BY DEF ReportedMeansWritten
  <1>1. CASE result'[j] = result[j]
    <2>1. /\ j \in processed
          /\ [by |-> j, run |-> runs[j], from |-> result[j]] \in written
          /\ result[j] >= MinCluster
      BY <1>1 DEF IInvAll, ReportedMeansWritten
    <2>2. j \in processed' /\ runs'[j] = runs[j]
      BY <2>1 DEF Advances
    <2> QED
      BY <1>1, <2>1, <2>2, WrittenGrows
  <1>2. CASE /\ d \in Busy /\ step[d] = "write" /\ AddSummary(d)
             /\ j = Job(d) /\ j \in processed' /\ result'[j] = size[d]
    <2>1. runs'[j] = runs[j]
      BY <1>2 DEF Advances
    <2>2. size[d] \in MinCluster .. Cardinality(rows) + Cardinality(written)
      BY <1>2, NewSummary
    <2>3. size[d] >= MinCluster
      BY <2>2
    <2> QED
      BY <1>2, <2>1, <2>3 DEF AddSummary
  <1> QED
    BY <1>1, <1>2

(* Together, for a step that ends a run or begins one.                     *)
LEMMA EndsOrBegins ==
    ASSUME IInvAll, IInv', NEW d \in Drains, Advances(d), Writes(d),
           processed \subseteq processed', rows' = rows,
           step' \in [Drains -> {"list", "generate", "write"}], size' = size,
           \A e \in Busy' : step'[e] # "list" => e # d /\ step'[e] = step[e],
           result' \in [Jobs -> Nat],
           \A j \in Jobs : result'[j] > 0 =>
               \/ result'[j] = result[j]
               \/ /\ d \in Busy /\ step[d] = "write" /\ AddSummary(d)
                  /\ j = Job(d) /\ j \in processed' /\ result'[j] = size[d]
    PROVE  IInvAll'
  <1>1. written' \subseteq Summary /\ IsFiniteSet(written')
    BY WrittenGrows
  <1>2. TypeOKAll' /\ IsFiniteSet(rows')
    BY <1>1 DEF IInvAll, IInv, TypeOKAll
  <1>3. \A e \in Busy' \ {d} : e \in Busy
    BY DEF Advances
  <1>4. ListingStands'
    BY <1>3, ListingStep
  <1>5. SummariesOfRuns' /\ OneSummaryPerRun'
    BY SummariesStep
  <1>6. ReportedMeansWritten'
    BY ReportedStep
  <1> QED
    BY <1>1, <1>2, <1>4, <1>5, <1>6 DEF IInvAll

-----------------------------------------------------------------------------
(* The invariant of consolidation.                                         *)

LEMMA InitHolds == InitAll => IInvAll
  <1> SUFFICES ASSUME InitAll PROVE IInvAll
    OBVIOUS
  <1>1. IInv
    BY RunnerInit DEF InitAll
  <1>2. Busy = {}
    BY DEF InitAll, Init, Busy
  <1>3. TypeOKAll
    BY <1>1 DEF InitAll, IInv, TypeOKAll
  <1>4. IsFiniteSet(rows) /\ IsFiniteSet(written)
    BY FS_EmptySet DEF InitAll
  <1>5. ListingStands /\ SummariesOfRuns
    BY <1>2 DEF InitAll, ListingStands, SummariesOfRuns
  <1>6. ReportedMeansWritten /\ OneSummaryPerRun
    BY DEF InitAll, ReportedMeansWritten, OneSummaryPerRun
  <1> QED
    BY <1>1, <1>3, <1>4, <1>5, <1>6 DEF IInvAll

LEMMA NextHolds ==
    ASSUME IInvAll, NextAll
    PROVE  IInvAll'
  <1>0. /\ IInv
        /\ step \in [Drains -> {"list", "generate", "write"}] /\ size \in [Drains -> Nat]
        /\ result \in [Jobs -> Nat] /\ Busy \subseteq Drains
    BY DEF IInvAll, TypeOKAll, Busy
  <1>1. ASSUME NEW j \in Jobs, EnqueueJob(j)
        PROVE  IInvAll'
    <2>1. /\ IInv' /\ UNCHANGED <<rows, written, step, size, result>>
          /\ UNCHANGED <<running, processed, runs>>
      BY <1>0, <1>1, EnqueueStep DEF EnqueueJob, Enqueue
    <2>2. Busy' = Busy /\ \A d \in Busy : Job(d)' = Job(d)
      BY <2>1 DEF Busy, Job
    <2>3. ListingStands' /\ SummariesOfRuns' /\ ReportedMeansWritten' /\ OneSummaryPerRun'
      BY <2>1, <2>2 DEF IInvAll, ListingStands, SummariesOfRuns, ReportedMeansWritten,
                        OneSummaryPerRun
    <2> QED
      BY <2>1, <2>3 DEF IInvAll, TypeOKAll, IInv
  <1>2. ASSUME NEW d \in Drains, DrainJobs(d)
        PROVE  IInvAll'
    <2>1. /\ IInv' /\ Advances(d) /\ UNCHANGED <<processed, rows, written, size, result>>
          /\ step' = [step EXCEPT ![d] = "list"]
      BY <1>0, <1>2, DrainStep DEF DrainJobs, Restart
    <2> QED
      BY <1>0, <2>1, EndsOrBegins DEF Writes
  <1>3. ASSUME NEW d \in Drains, List(d)
        PROVE  IInvAll'
    <2> DEFINE n == Listed
               all == Cardinality(rows) + Cardinality(written)
    <2>1. AtStep(d, "list") /\ UNCHANGED <<rows, written>>
      BY <1>3 DEF List
    <2>2. d \in Busy
      BY <2>1 DEF AtStep
    <2>3. all \in Nat /\ n \in Nat /\ n <= all
      <3>1. all \in Nat
        BY FS_CardinalityType DEF IInvAll
      <3> QED
        BY <3>1, ClusterAssumption DEF Listed
    <2> HIDE DEF n
    <2>4. CASE n < MinCluster
      <3>1. /\ Succeed(d) /\ step' = [step EXCEPT ![d] = "list"] /\ size' = size
            /\ result' = [result EXCEPT ![Job(d)] = 0]
        BY <1>3, <2>4 DEF List, Restart, n
      <3>2. IInv' /\ Advances(d) /\ processed \subseteq processed'
        BY <1>0, <3>1, SucceedStep
      <3>3. /\ result' \in [Jobs -> Nat]
            /\ \A j \in Jobs : result'[j] > 0 => result'[j] = result[j]
        <4>1. /\ result' \in [Jobs -> Nat]
              /\ \A j \in Jobs : result'[j] = 0 \/ result'[j] = result[j]
          BY <1>0, <3>1
        <4> QED
          BY <4>1
      <3> QED
        BY <1>0, <2>1, <3>1, <3>2, <3>3, EndsOrBegins DEF Writes
    <2>5. CASE ~(n < MinCluster)
      <3>1. /\ step' = [step EXCEPT ![d] = "generate"] /\ size' = [size EXCEPT ![d] = n]
            /\ UNCHANGED <<vars, result>>
        BY <1>3, <2>5 DEF List, n
      <3>2. IInv' /\ Busy' = Busy /\ \A e \in Busy : Job(e)' = Job(e)
        BY <1>0, <3>1, RunnerStands DEF vars, Job
      <3>3. TypeOKAll'
        <4>1. /\ step' \in [Drains -> {"list", "generate", "write"}]
              /\ size' \in [Drains -> Nat]
          BY <1>0, <2>3, <3>1
        <4> QED
          BY <2>1, <3>1, <3>2, <4>1 DEF IInvAll, IInv, TypeOKAll
      <3>4. ListingStands'
        <4>1. n \in MinCluster .. all
          BY <2>3, <2>5, ClusterAssumption
        <4>2. \A e \in Busy : step'[e] # "list" => size'[e] \in MinCluster .. all
          BY <1>0, <3>1, <4>1 DEF IInvAll, ListingStands
        <4> QED
          BY <2>1, <3>2, <4>2 DEF ListingStands
      <3>5. SummariesOfRuns' /\ ReportedMeansWritten' /\ OneSummaryPerRun'
        BY <2>1, <3>1, <3>2 DEF IInvAll, vars, SummariesOfRuns, ReportedMeansWritten,
                                OneSummaryPerRun
      <3> QED
        BY <2>1, <3>2, <3>3, <3>4, <3>5 DEF IInvAll
    <2> QED
      BY <2>4, <2>5
  <1>4. ASSUME NEW d \in Drains, Generate(d)
        PROVE  IInvAll'
    <2>1. /\ step[d] = "generate" /\ step' = [step EXCEPT ![d] = "write"]
          /\ UNCHANGED <<vars, rows, written, size, result>>
      BY <1>4 DEF Generate, AtStep
    <2>2. IInv' /\ Busy' = Busy /\ \A e \in Busy : Job(e)' = Job(e)
      BY <1>0, <2>1, RunnerStands DEF vars, Job
    <2>3. /\ step' \in [Drains -> {"list", "generate", "write"}]
          /\ \A e \in Busy : step'[e] # "list" => step[e] # "list"
      BY <1>0, <2>1
    <2>4. TypeOKAll' /\ ListingStands'
      BY <2>1, <2>2, <2>3 DEF IInvAll, IInv, TypeOKAll, ListingStands
    <2>5. SummariesOfRuns' /\ ReportedMeansWritten' /\ OneSummaryPerRun'
      BY <2>1, <2>2 DEF IInvAll, vars, SummariesOfRuns, ReportedMeansWritten,
                        OneSummaryPerRun
    <2> QED
      BY <2>1, <2>2, <2>4, <2>5 DEF IInvAll
  <1>5. ASSUME NEW d \in Drains, Fails(d)
        PROVE  IInvAll'
    <2>1. /\ Raise(d) /\ step' = [step EXCEPT ![d] = "list"]
          /\ UNCHANGED <<rows, written, size, result>>
      BY <1>5 DEF Fails, Restart
    <2>2. IInv' /\ Advances(d) /\ processed' = processed
      BY <1>0, <2>1, RaiseStep
    <2> QED
      BY <1>0, <2>1, <2>2, EndsOrBegins DEF Writes
  <1>6. ASSUME NEW d \in Drains, WriteSummary(d)
        PROVE  IInvAll'
    <2>1. /\ d \in Busy /\ step[d] = "write" /\ AddSummary(d)
          /\ result' = [result EXCEPT ![Job(d)] = size[d]]
          /\ Succeed(d) /\ step' = [step EXCEPT ![d] = "list"]
          /\ UNCHANGED <<rows, size>>
      BY <1>6 DEF WriteSummary, AtStep, Restart
    <2>2. /\ IInv' /\ Advances(d) /\ processed' = processed \cup {Job(d)}
      BY <1>0, <2>1, SucceedStep DEF Job
    <2>3. Job(d) \in Jobs
      BY <1>0, <2>1, JobUnderWay
    <2>4. /\ result' \in [Jobs -> Nat]
          /\ \A j \in Jobs : result'[j] = result[j] \/ (j = Job(d) /\ result'[j] = size[d])
      BY <1>0, <2>1, <2>3
    <2> QED
      BY <1>0, <2>1, <2>2, <2>4, EndsOrBegins DEF Writes
  <1>7. ASSUME NEW d \in Drains, WriteFails(d)
        PROVE  IInvAll'
    <2>1. /\ d \in Busy /\ step[d] = "write" /\ (AddSummary(d) \/ written' = written)
          /\ Raise(d) /\ step' = [step EXCEPT ![d] = "list"]
          /\ UNCHANGED <<rows, size, result>>
      BY <1>7 DEF WriteFails, AtStep, Restart
    <2>2. IInv' /\ Advances(d) /\ processed' = processed
      BY <1>0, <2>1, RaiseStep
    <2> QED
      BY <1>0, <2>1, <2>2, EndsOrBegins DEF Writes
  <1>8. ASSUME NEW d \in Drains, CancelJob(d)
        PROVE  IInvAll'
    <2>1. /\ d \in Busy /\ UNCHANGED <<processed, runs>> /\ Writes(d)
          /\ UNCHANGED <<rows, step, size, result>>
      BY <1>8 DEF CancelJob, Cancel, Writes
    <2>2. IInv' /\ Busy' = Busy \ {d} /\ \A e \in Busy' : running'[e] = running[e]
      BY <1>0, <1>8, CancelStep DEF CancelJob
    <2>3. Advances(d)
      <3>1. \A j \in Jobs : runs[j] <= runs[j]
        BY <1>0 DEF IInv, TypeOK
      <3> QED
        BY <2>1, <2>2, <3>1 DEF Advances
    <2> QED
      BY <1>0, <2>1, <2>2, <2>3, EndsOrBegins
  <1>9. CASE Remember
    <2>1. PICK m \in Memories \ rows : rows' = rows \cup {m}
      BY <1>9 DEF Remember
    <2>2. UNCHANGED <<vars, written, step, size, result>>
      BY <1>9 DEF Remember
    <2>3. IInv' /\ Busy' = Busy /\ \A d \in Busy : Job(d)' = Job(d)
      BY <1>0, <2>2, RunnerStands DEF vars, Job
    <2> DEFINE r == Cardinality(rows)
               w == Cardinality(written)
    <2>4. /\ IsFiniteSet(rows') /\ Cardinality(rows') = r + 1
          /\ r \in Nat /\ w \in Nat
      BY <2>1, FS_AddElement, FS_CardinalityType DEF IInvAll
    <2> HIDE DEF r, w
    <2>5. TypeOKAll'
      BY <2>1, <2>2, <2>3 DEF IInvAll, IInv, TypeOKAll
    <2>6. ListingStands'
      <3>1. \A d \in Busy : step[d] # "list" => size[d] \in MinCluster .. r + w
        BY DEF IInvAll, ListingStands, r, w
      <3>2. \A d \in Busy : step[d] # "list" => size[d] \in MinCluster .. (r + 1) + w
        BY <2>4, <3>1, ClusterAssumption
      <3> QED
        BY <2>2, <2>3, <2>4, <3>2 DEF ListingStands, w
    <2>7. SummariesOfRuns' /\ ReportedMeansWritten'
      BY <2>2, <2>3 DEF IInvAll, vars, SummariesOfRuns, ReportedMeansWritten
    <2>8. OneSummaryPerRun'
      <3>1. \A s \in written : s.by \in Jobs /\ s.from \in Nat
        BY DEF IInvAll, TypeOKAll, Summary
      <3>2. \A s \in written : s.from < r + w
        BY <3>1 DEF IInvAll, OneSummaryPerRun, r, w
      <3>3. \A s \in written : s.from < (r + 1) + w
        BY <2>4, <3>1, <3>2
      <3> QED
        BY <2>2, <2>4, <3>3 DEF IInvAll, OneSummaryPerRun, w
    <2> QED
      BY <2>2, <2>3, <2>4, <2>5, <2>6, <2>7, <2>8 DEF IInvAll
  <1> QED
    BY <1>1, <1>2, <1>3, <1>4, <1>5, <1>6, <1>7, <1>8, <1>9 DEF NextAll

LEMMA StepHolds == IInvAll /\ [NextAll]_allVars => IInvAll'
  <1> SUFFICES ASSUME IInvAll, UNCHANGED allVars PROVE IInvAll'
    BY NextHolds
  <1>1. IInv' /\ Busy' = Busy /\ \A d \in Busy : Job(d)' = Job(d)
    BY RunnerStands DEF IInvAll, allVars, vars, Job
  <1>2. TypeOKAll' /\ ListingStands'
    BY <1>1 DEF allVars, IInvAll, IInv, TypeOKAll, ListingStands
  <1>3. SummariesOfRuns' /\ ReportedMeansWritten' /\ OneSummaryPerRun'
    BY <1>1 DEF allVars, vars, IInvAll, SummariesOfRuns, ReportedMeansWritten, OneSummaryPerRun
  <1> QED
    BY <1>1, <1>2, <1>3 DEF allVars, IInvAll

(* The runner's books and those of the namespace are exact, whatever is    *)
(* retried, cancelled or written meanwhile.                                *)
THEOREM Safety == SpecAll => []IInvAll
  BY InitHolds, StepHolds, PTL DEF SpecAll

(* A job that reports sources has left a summary of as many in the store,  *)
(* by the run that succeeded.                                              *)
THEOREM Reported == SpecAll => []ReportedMeansWritten
  <1>1. IInvAll => ReportedMeansWritten
    BY DEF IInvAll
  <1> QED
    BY <1>1, Safety, PTL

(* A job leaves at most one summary per run, of rows that were there before*)
(* it, however often it is run again.                                      *)
THEOREM OnePerRun == SpecAll => []OneSummaryPerRun
  <1>1. IInvAll => OneSummaryPerRun
    BY DEF IInvAll
  <1> QED
    BY <1>1, Safety, PTL

=============================================================================
