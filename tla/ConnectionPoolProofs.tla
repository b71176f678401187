----------------------- MODULE ConnectionPoolProofs -----------------------
(***************************************************************************)
(* Proofs about module ConnectionPool for any calls, rows and pool: the    *)
(* books of the pool, and with them that reads are scoped and fresh and    *)
(* adds durable, whatever fails or is cancelled.                           *)
(***************************************************************************)
EXTENDS ConnectionPool, TLAPS

(* What a call asks for does not change and has its type.                  *)
LEMMA AskType ==
    ASSUME TypeOK, NEW c \in Calls
    PROVE  /\ ask[c].kind \in {"add", "list", "get", "health"}
           /\ ask[c].row \in Row
           /\ ask[c].ctx \in Scope /\ ask[c].ctx.tenant \in Tenants
  <1>1. ask \in [Calls -> [kind : {"add", "list", "get", "health"}, ctx : Scope, row : Row]]
    BY PoolAssumption DEF TypeOK
  <1> QED
    BY <1>1 DEF Scope

-----------------------------------------------------------------------------
(* Every step is one call's, and touches one connection.                   *)

Acts(c) == Begin(c) \/ Acquire(c) \/ GiveUp(c) \/ Step(c)

(* Nothing else of the other calls and connections changes.                *)
Frame(c) ==
    /\ ask' = ask
    /\ \A d \in Calls : d # c =>
         pc'[d] = pc[d] /\ conn'[d] = conn[d] /\ got'[d] = got[d] /\ owed'[d] = owed[d]
    /\ \A k \in Conns : k # conn[c] => session'[k] = session[k]

LEMMA BeginDoes ==
    ASSUME TypeOK, NEW c \in Calls, Begin(c)
    PROVE  /\ Frame(c) /\ pc[c] = "new" /\ pc'[c] = "acquire" /\ TypeOK'
           /\ UNCHANGED <<conn, idle, session, rows, got>>
           /\ owed'[c] = {ask[d].row : d \in {e \in Returned : ask[e].kind = "add"}}
  <1> DEFINE due == {ask[d].row : d \in {e \in Returned : ask[e].kind = "add"}}
  <1>1. due \subseteq Row
    BY AskType DEF Returned
  <1>2. /\ pc' = [pc EXCEPT ![c] = "acquire"] /\ pc[c] = "new"
        /\ owed' = [owed EXCEPT ![c] = due]
        /\ UNCHANGED <<ask, conn, got, idle, session, rows>>
    BY DEF Begin, Goto
  <1> HIDE DEF due
  <1>3. Frame(c) /\ pc'[c] = "acquire" /\ owed'[c] = due /\ TypeOK'
    BY <1>1, <1>2 DEF TypeOK, Frame
  <1> QED
    BY <1>2, <1>3 DEF due

LEMMA AcquireDoes ==
    ASSUME TypeOK, NEW c \in Calls, Acquire(c)
    PROVE  /\ Frame(c) /\ pc[c] = "acquire" /\ TypeOK'
           /\ pc'[c] \in {"start", "probe"} /\ (pc'[c] = "probe" => ask[c].kind = "health")
           /\ conn'[c] \in idle /\ idle' = idle \ {conn'[c]}
           /\ UNCHANGED <<session, rows, got, owed>>
  <1> DEFINE k == CHOOSE k \in idle : TRUE
             label == IF ask[c].kind = "health" THEN "probe" ELSE "start"
  <1>1. k \in idle /\ label \in {"start", "probe"} /\ (label = "probe" => ask[c].kind = "health")
    BY DEF Acquire
  <1>2. /\ pc' = [pc EXCEPT ![c] = label] /\ pc[c] = "acquire"
        /\ conn' = [conn EXCEPT ![c] = k] /\ idle' = idle \ {k}
        /\ UNCHANGED <<ask, got, owed, session, rows>>
    BY DEF Acquire, Goto
  <1> HIDE DEF k, label
  <1> QED
    BY <1>1, <1>2 DEF TypeOK, Frame, Busy

LEMMA GiveUpDoes ==
    ASSUME TypeOK, NEW c \in Calls, GiveUp(c)
    PROVE  /\ Frame(c) /\ pc[c] = "acquire" /\ pc'[c] = "raised" /\ TypeOK'
           /\ UNCHANGED <<conn, idle, session, rows, got, owed>>
  BY DEF GiveUp, Goto, TypeOK, Frame, Ended

LEMMA StartDoes ==
    ASSUME TypeOK, NEW c \in Calls, Start(c), conn[c] \in Conns
    PROVE  /\ Frame(c) /\ pc[c] = "start" /\ pc'[c] = "bind" /\ TypeOK'
           /\ UNCHANGED <<conn, idle, rows, got, owed>>
           /\ session'[conn[c]].draft = session[conn[c]].draft
           /\ session'[conn[c]].open
  <1> DEFINE s == [session[conn[c]] EXCEPT !.open = TRUE]
  <1>1. s \in Session /\ s.open /\ s.draft = session[conn[c]].draft
    BY DEF TypeOK, Session
  <1>2. /\ pc' = [pc EXCEPT ![c] = "bind"] /\ pc[c] = "start"
        /\ session' = [session EXCEPT ![conn[c]] = s]
        /\ UNCHANGED <<ask, conn, got, owed, idle, rows>>
    BY DEF Start, Goto, Sets
  <1> HIDE DEF s
  <1>3. session'[conn[c]] = s /\ Frame(c) /\ pc'[c] = "bind" /\ TypeOK'
    BY <1>1, <1>2 DEF TypeOK, Frame, Busy
  <1> QED
    BY <1>1, <1>2, <1>3

LEMMA BindDoes ==
    ASSUME TypeOK, NEW c \in Calls, Bind(c), conn[c] \in Conns
    PROVE  /\ Frame(c) /\ pc[c] = "bind" /\ pc'[c] = "run" /\ TypeOK'
           /\ UNCHANGED <<conn, idle, rows, got, owed>>
           /\ session'[conn[c]].draft = session[conn[c]].draft
           /\ session'[conn[c]].open = session[conn[c]].open
           /\ session'[conn[c]].tenant = ask[c].ctx.tenant
  <1> DEFINE s == [session[conn[c]] EXCEPT !.tenant = ask[c].ctx.tenant]
  <1>1. /\ s \in Session /\ s.tenant = ask[c].ctx.tenant
        /\ s.draft = session[conn[c]].draft /\ s.open = session[conn[c]].open
    BY AskType DEF TypeOK, Session
  <1>2. /\ pc' = [pc EXCEPT ![c] = "run"] /\ pc[c] = "bind"
        /\ session' = [session EXCEPT ![conn[c]] = s]
        /\ UNCHANGED <<ask, conn, got, owed, idle, rows>>
    BY DEF Bind, Goto, Sets
  <1> HIDE DEF s
  <1>3. session'[conn[c]] = s /\ Frame(c) /\ pc'[c] = "run" /\ TypeOK'
    BY <1>1, <1>2 DEF TypeOK, Frame, Busy
  <1> QED
    BY <1>1, <1>2, <1>3

LEMMA StartFailsDoes ==
    ASSUME TypeOK, NEW c \in Calls, StartFails(c)
    PROVE  /\ Frame(c) /\ pc[c] \in {"start", "bind"} /\ pc'[c] = "leaked" /\ TypeOK'
           /\ UNCHANGED <<conn, idle, session, rows, got, owed>>
  BY DEF StartFails, Goto, TypeOK, Frame, Busy

LEMMA ProbeDoes ==
    ASSUME TypeOK, NEW c \in Calls, Probe(c)
    PROVE  /\ Frame(c) /\ pc[c] = "probe" /\ pc'[c] \in {"release", "abort"} /\ TypeOK'
           /\ UNCHANGED <<conn, idle, session, rows, got, owed>>
  <1>1. CASE Goto(c, "release")
    BY <1>1 DEF Probe, Goto, TypeOK, Frame, Busy
  <1>2. CASE Goto(c, "abort")
    BY <1>2 DEF Probe, Goto, TypeOK, Frame, Busy
  <1> QED
    BY <1>1, <1>2 DEF Probe

(* A query returns rows the policy lets it see: the one it asked for, or the  *)
(* latest.                                                                     *)
LEMMA AnswersAreVisible ==
    ASSUME NEW c \in Calls, NEW S \in Answers(c)
    PROVE  /\ S \subseteq Visible(rows, Bound(c))
           /\ ask[c].kind = "get" => S = {m \in Visible(rows, Bound(c)) : m.id = ask[c].row.id}
           /\ ask[c].kind # "get" => \A m \in Visible(rows, Bound(c)) : m \in S \/ CutOff(m, S)
  BY DEF Answers, LatestOf

LEMMA RunDoes ==
    ASSUME TypeOK, NEW c \in Calls, Run(c), conn[c] \in Conns
    PROVE  /\ Frame(c) /\ pc[c] = "run" /\ TypeOK'
           /\ UNCHANGED <<conn, idle, rows, owed>>
           /\ \/ /\ ask[c].kind = "add" /\ pc'[c] = "commit"
                 /\ ~Undecided(c) /\ Accepts(rows, Bound(c), ask[c].row)
                 /\ session'[conn[c]].open = session[conn[c]].open
                 /\ session'[conn[c]].tenant = session[conn[c]].tenant
                 /\ session'[conn[c]].draft = {ask[c].row}
              \/ ask[c].kind = "add" /\ pc'[c] = "rollback" /\ UNCHANGED session
              \/ /\ ask[c].kind # "add" /\ pc'[c] = "commit" /\ UNCHANGED session
                 /\ got'[c] \in Answers(c)
  <1>1. CASE ask[c].kind = "add" /\ Accepts(rows, Bound(c), ask[c].row)
    <2> DEFINE s == [session[conn[c]] EXCEPT !.draft = {ask[c].row}]
    <2>1. /\ s \in Session /\ s.draft = {ask[c].row}
          /\ s.tenant = session[conn[c]].tenant /\ s.open = session[conn[c]].open
      BY AskType DEF TypeOK, Session
    <2>2. /\ pc' = [pc EXCEPT ![c] = "commit"] /\ pc[c] = "run" /\ ~Undecided(c)
          /\ session' = [session EXCEPT ![conn[c]] = s]
          /\ UNCHANGED <<ask, conn, got, owed, idle, rows>>
      BY <1>1 DEF Run, Goto, Sets
    <2> HIDE DEF s
    <2>3. session'[conn[c]] = s /\ Frame(c) /\ pc'[c] = "commit" /\ TypeOK'
      BY <2>1, <2>2 DEF TypeOK, Frame, Busy
    <2> QED
      BY <1>1, <2>1, <2>2, <2>3
  <1>2. CASE ask[c].kind = "add" /\ ~Accepts(rows, Bound(c), ask[c].row)
    <2>1. /\ pc' = [pc EXCEPT ![c] = "rollback"] /\ pc[c] = "run"
          /\ UNCHANGED <<ask, conn, got, owed, idle, session, rows>>
      BY <1>2 DEF Run, Goto
    <2>2. Frame(c) /\ pc'[c] = "rollback" /\ TypeOK'
      BY <2>1 DEF TypeOK, Frame, Busy
    <2> QED
      BY <1>2, <2>1, <2>2
  <1>3. CASE ask[c].kind # "add"
    <2>1. PICK S \in Answers(c) : got' = [got EXCEPT ![c] = S]
      BY <1>3 DEF Run
    <2>2. S \subseteq Row
      BY <2>1, AnswersAreVisible DEF Visible, TypeOK
    <2>3. /\ pc' = [pc EXCEPT ![c] = "commit"] /\ pc[c] = "run"
          /\ UNCHANGED <<ask, conn, owed, idle, session, rows>>
      BY <1>3 DEF Run, Goto
    <2>4. Frame(c) /\ pc'[c] = "commit" /\ got'[c] = S /\ TypeOK'
      BY <2>1, <2>2, <2>3 DEF TypeOK, Frame, Busy
    <2> QED
      BY <1>3, <2>1, <2>3, <2>4
  <1> QED
    BY <1>1, <1>2, <1>3

LEMMA ResetType == Reset \in Session /\ Reset.draft = {}
  BY DEF Reset, Session

(* The rows of a transaction are committed, and it is over.                *)
Commits(c) == rows' = rows \cup session[conn[c]].draft /\ session'[conn[c]] = Reset

LEMMA CommitDoes ==
    ASSUME TypeOK, NEW c \in Calls, Commit(c), conn[c] \in Conns
    PROVE  /\ Frame(c) /\ pc[c] = "commit" /\ pc'[c] = "release" /\ TypeOK' /\ Commits(c)
           /\ UNCHANGED <<conn, idle, got, owed>>
  <1>1. session[conn[c]].draft \subseteq Row
    BY DEF TypeOK, Session
  <1>2. /\ pc' = [pc EXCEPT ![c] = "release"] /\ pc[c] = "commit"
        /\ rows' = rows \cup session[conn[c]].draft
        /\ session' = [session EXCEPT ![conn[c]] = Reset]
        /\ UNCHANGED <<ask, conn, idle, got, owed>>
    BY DEF Commit, Goto, Sets
  <1> QED
    BY <1>1, <1>2, ResetType DEF TypeOK, Frame, Busy, Commits

LEMMA RunFailsDoes ==
    ASSUME TypeOK, NEW c \in Calls, RunFails(c), conn[c] \in Conns
    PROVE  /\ Frame(c) /\ pc[c] \in {"run", "commit"} /\ pc'[c] \in {"rollback", "abort"}
           /\ TypeOK' /\ UNCHANGED <<conn, idle, got, owed>>
           /\ Commits(c) \/ UNCHANGED <<session, rows>>
  <1>1. session[conn[c]].draft \subseteq Row
    BY DEF TypeOK, Session
  <1>2. PICK label \in {"rollback", "abort"} :
          pc' = [pc EXCEPT ![c] = label] /\ pc[c] \in {"run", "commit"}
    BY DEF RunFails, Goto
  <1>3. UNCHANGED <<ask, conn, idle, got, owed>>
    BY DEF RunFails
  <1>4. CASE UNCHANGED <<session, rows>>
    BY <1>2, <1>3, <1>4 DEF TypeOK, Frame, Busy
  <1>5. CASE /\ rows' = rows \cup session[conn[c]].draft
             /\ session' = [session EXCEPT ![conn[c]] = Reset]
    BY <1>1, <1>2, <1>3, <1>5, ResetType DEF TypeOK, Frame, Busy, Commits
  <1> QED
    BY <1>4, <1>5 DEF RunFails, Sets

LEMMA RollbackDoes ==
    ASSUME TypeOK, NEW c \in Calls, Rollback(c), conn[c] \in Conns
    PROVE  /\ Frame(c) /\ pc[c] = "rollback" /\ pc'[c] = "abort" /\ TypeOK'
           /\ UNCHANGED <<conn, idle, rows, got, owed>>
           /\ session'[conn[c]] = Reset \/ UNCHANGED session
  <1>1. /\ pc' = [pc EXCEPT ![c] = "abort"] /\ pc[c] = "rollback"
        /\ UNCHANGED <<ask, conn, idle, rows, got, owed>>
    BY DEF Rollback, Goto
  <1>2. CASE UNCHANGED session
    BY <1>1, <1>2 DEF TypeOK, Frame, Busy
  <1>3. CASE session' = [session EXCEPT ![conn[c]] = Reset]
    BY <1>1, <1>3, ResetType DEF TypeOK, Frame, Busy
  <1> QED
    BY <1>2, <1>3 DEF Rollback, Sets

LEMMA ReleaseDoes ==
    ASSUME TypeOK, NEW c \in Calls, Release(c), conn[c] \in Conns
    PROVE  /\ Frame(c) /\ pc[c] \in {"release", "abort"} /\ pc'[c] \in {"returned", "raised"}
           /\ pc'[c] = "returned" => pc[c] = "release"
           /\ TypeOK' /\ UNCHANGED <<conn, rows, got, owed>>
           /\ idle' = idle \cup {conn[c]} /\ session'[conn[c]] = Reset
  <1>1. PICK label \in {"returned", "raised"} :
          /\ pc' = [pc EXCEPT ![c] = label] /\ pc[c] \in {"release", "abort"}
          /\ label = "returned" => pc[c] = "release"
    BY DEF Release, Goto
  <1>2. /\ idle' = idle \cup {conn[c]} /\ session' = [session EXCEPT ![conn[c]] = Reset]
        /\ UNCHANGED <<ask, conn, rows, got, owed>>
    BY DEF Release, Sets
  <1> QED
    BY <1>1, <1>2, ResetType DEF TypeOK, Frame, Busy, Ended

-----------------------------------------------------------------------------
(* The kinds of steps, as far as the invariant is concerned.               *)

(* A call that uses a connection has one of the pool.                      *)
LEMMA UsedIsThere ==
    ASSUME IInv, NEW c \in Calls, Uses(c)
    PROVE  conn[c] \in Conns
  BY DEF IInv, TypeOK, UsersHaveOne

(* Before and after its statement a call only moves on.                    *)
Quiet(c) ==
    /\ Frame(c) /\ UNCHANGED <<conn, idle, session, rows, got>>
    /\ Uses(c) <=> Uses(c)'
    /\ pc'[c] \notin {"run", "commit", "returned", "probe"}
    /\ pc'[c] = "release" => pc[c] = "probe"
    /\ owed'[c] \subseteq owed[c] \cup {ask[d].row : d \in {e \in Returned : ask[e].kind = "add"}}

LEMMA QuietSteps ==
    ASSUME IInv, NEW c \in Calls, Begin(c) \/ GiveUp(c) \/ StartFails(c) \/ Probe(c)
    PROVE  Quiet(c)
  <1>1. TypeOK
    BY DEF IInv
  <1>2. CASE Begin(c)
    BY <1>1, <1>2, BeginDoes DEF Quiet, Uses, Busy
  <1>3. CASE GiveUp(c)
    BY <1>1, <1>3, GiveUpDoes DEF Quiet, Uses, Busy
  <1>4. CASE StartFails(c)
    BY <1>1, <1>4, StartFailsDoes DEF Quiet, Uses, Busy
  <1>5. CASE Probe(c)
    BY <1>1, <1>5, ProbeDoes DEF Quiet, Uses, Busy
  <1> QED
    BY <1>2, <1>3, <1>4, <1>5

(* Beginning and ending a transaction change only its connection's session. *)
Held(c) ==
    /\ Frame(c) /\ UNCHANGED <<conn, idle, rows, got, owed>>
    /\ Uses(c) /\ Uses(c)' /\ conn[c] \in Conns
    /\ session'[conn[c]].draft \subseteq session[conn[c]].draft
    /\ pc'[c] \notin {"commit", "release", "returned", "probe"}
    /\ pc'[c] = "run" => session'[conn[c]].tenant = ask[c].ctx.tenant

LEMMA HeldSteps ==
    ASSUME IInv, NEW c \in Calls, Start(c) \/ Bind(c) \/ Rollback(c)
    PROVE  Held(c)
  <1>1. TypeOK
    BY DEF IInv
  <1>2. Uses(c)
    BY DEF Start, Bind, Rollback, Uses, Busy
  <1>3. conn[c] \in Conns
    BY <1>2, UsedIsThere
  <1>4. CASE Start(c)
    BY <1>1, <1>2, <1>3, <1>4, StartDoes DEF Held, Uses, Busy
  <1>5. CASE Bind(c)
    BY <1>1, <1>2, <1>3, <1>5, BindDoes DEF Held, Uses, Busy
  <1>6. CASE Rollback(c)
    BY <1>1, <1>2, <1>3, <1>6, RollbackDoes, ResetType DEF Held, Uses, Busy
  <1> QED
    BY <1>4, <1>5, <1>6

(* The transaction is over: committed, or failed with or without having been. *)
Settled(c) ==
    /\ Frame(c) /\ UNCHANGED <<conn, idle, got, owed>>
    /\ Uses(c) /\ Uses(c)' /\ conn[c] \in Conns
    /\ \/ UNCHANGED <<session, rows>>
       \/ /\ session'[conn[c]].draft = {}
          /\ rows' = rows \cup session[conn[c]].draft
    /\ pc'[c] \notin {"run", "commit", "returned", "probe"}
    /\ pc'[c] = "release" => pc[c] = "commit" /\ session[conn[c]].draft \subseteq rows'

LEMMA SettledSteps ==
    ASSUME IInv, NEW c \in Calls, Commit(c) \/ RunFails(c)
    PROVE  Settled(c)
  <1>1. TypeOK
    BY DEF IInv
  <1>2. Uses(c)
    BY DEF Commit, RunFails, Uses, Busy
  <1>3. conn[c] \in Conns
    BY <1>2, UsedIsThere
  <1>4. CASE Commit(c)
    BY <1>1, <1>2, <1>3, <1>4, CommitDoes, ResetType DEF Settled, Commits, Uses, Busy
  <1>5. CASE RunFails(c)
    BY <1>1, <1>2, <1>3, <1>5, RunFailsDoes, ResetType DEF Settled, Commits, Uses, Busy
  <1> QED
    BY <1>4, <1>5

(* The statement, which sees and writes rows of its own tenant only.        *)
Wrote(c) ==
    /\ ask[c].kind = "add" /\ pc'[c] = "commit"
    /\ session'[conn[c]].tenant = session[conn[c]].tenant
    /\ session'[conn[c]].draft = {ask[c].row}
    /\ ask[c].row.tenant = ask[c].ctx.tenant
    /\ \A m \in rows : m.id # ask[c].row.id
    /\ \A k \in Conns : k # conn[c] => \A m \in session[k].draft : m.id # ask[c].row.id

Read(c) ==
    /\ \A m \in got'[c] : m \in rows /\ m.tenant = ask[c].ctx.tenant
    /\ ask[c].kind \in {"list", "get"} =>
         \A m \in rows : Asked(m, c) =>
           m \in got'[c] \/ (ask[c].kind = "list" /\ CutOff(m, got'[c]))

Ran(c) ==
    /\ Frame(c) /\ UNCHANGED <<conn, idle, rows, owed>>
    /\ Uses(c) /\ Uses(c)' /\ conn[c] \in Conns
    /\ session[conn[c]].tenant = ask[c].ctx.tenant
    /\ \/ Wrote(c)
       \/ pc'[c] = "rollback" /\ UNCHANGED session
       \/ ask[c].kind # "add" /\ pc'[c] = "commit" /\ UNCHANGED session /\ Read(c)

LEMMA RunSteps ==
    ASSUME IInv, NEW c \in Calls, Run(c)
    PROVE  Ran(c)
  <1>1. TypeOK
    BY DEF IInv
  <1>2. Uses(c) /\ pc[c] = "run"
    BY DEF Run, Uses, Busy
  <1>3. conn[c] \in Conns
    BY <1>2, UsedIsThere
  <1>4. session[conn[c]].tenant = ask[c].ctx.tenant
    BY <1>2 DEF IInv, TenantIsBound
  <1>5. Bound(c).tenant = ask[c].ctx.tenant
    BY <1>1, <1>4, AskType DEF Bound, Scope
  <1>6. Accepts(rows, Bound(c), ask[c].row) =>
          ask[c].row.tenant = ask[c].ctx.tenant /\ \A m \in rows : m.id # ask[c].row.id
    BY <1>5, PoolAssumption DEF Accepts
  <1>7. ~Undecided(c) => \A k \in Conns : k # conn[c] => \A m \in session[k].draft : m.id # ask[c].row.id
    BY DEF Undecided
  <1>8. ASSUME ask[c].kind # "add", got'[c] \in Answers(c), pc'[c] = "commit", UNCHANGED session
        PROVE  Read(c)
    <2>1. Visible(rows, Bound(c)) = {m \in rows : m.tenant = ask[c].ctx.tenant}
      BY <1>5, PoolAssumption DEF Visible
    <2> QED
      BY <1>8, <2>1, AnswersAreVisible DEF Asked, Read
  <1>9. Uses(c)' <=> pc'[c] \in Busy
    BY DEF Uses
  <1> QED
    BY <1>1, <1>2, <1>3, <1>4, <1>6, <1>7, <1>8, <1>9, RunDoes DEF Ran, Wrote, Read, Busy

(* A connection is taken from the pool, and given back clean.               *)
Took(c) ==
    /\ Frame(c) /\ ~Uses(c) /\ Uses(c)'
    /\ pc'[c] \in {"start", "probe"} /\ (pc'[c] = "probe" => ask[c].kind = "health")
    /\ conn'[c] \in idle /\ conn'[c] \in Conns /\ idle' = idle \ {conn'[c]}
    /\ UNCHANGED <<session, rows, got, owed>>

LEMMA TookSteps ==
    ASSUME IInv, NEW c \in Calls, Acquire(c)
    PROVE  Took(c)
  <1>1. TypeOK /\ idle \subseteq Conns
    BY DEF IInv, TypeOK
  <1> QED
    BY <1>1, AcquireDoes DEF Took, Uses, Busy

GaveBack(c) ==
    /\ Frame(c) /\ Uses(c) /\ ~Uses(c)' /\ conn[c] \in Conns
    /\ pc'[c] \in {"returned", "raised"} /\ (pc'[c] = "returned" => pc[c] = "release")
    /\ idle' = idle \cup {conn[c]} /\ session'[conn[c]] = Reset
    /\ session'[conn[c]].draft = {}
    /\ UNCHANGED <<conn, rows, got, owed>>

LEMMA GaveBackSteps ==
    ASSUME IInv, NEW c \in Calls, Release(c)
    PROVE  GaveBack(c)
  <1>1. TypeOK
    BY DEF IInv
  <1>2. Uses(c)
    BY DEF Release, Uses, Busy
  <1>3. conn[c] \in Conns
    BY <1>2, UsedIsThere
  <1> QED
    BY <1>1, <1>2, <1>3, ReleaseDoes, ResetType DEF GaveBack, Uses, Busy

Moves(c) == Took(c) \/ Quiet(c) \/ Held(c) \/ Ran(c) \/ Settled(c) \/ GaveBack(c)

LEMMA EveryStepMoves ==
    ASSUME IInv, NEW c \in Calls, Acts(c)
    PROVE  Moves(c) /\ TypeOK'
  <1>1. Moves(c)
    BY TookSteps, QuietSteps, HeldSteps, RunSteps, SettledSteps, GaveBackSteps DEF Acts, Step, Moves
  <1>2. TypeOK /\ (Uses(c) => conn[c] \in Conns)
    BY UsedIsThere DEF IInv
  <1>3. Start(c) \/ Bind(c) \/ Run(c) \/ Commit(c) \/ RunFails(c) \/ Rollback(c) \/ Release(c) => Uses(c)
    BY DEF Start, Bind, Run, Commit, RunFails, Rollback, Release, Uses, Busy
  <1>4. TypeOK'
    BY <1>2, <1>3, BeginDoes, AcquireDoes, GiveUpDoes, StartDoes, BindDoes, StartFailsDoes, RunDoes,
       CommitDoes, RunFailsDoes, RollbackDoes, ProbeDoes, ReleaseDoes DEF Acts, Step
  <1> QED
    BY <1>1, <1>4

(* The other calls go on as they were, each on its own connection.          *)
LEMMA Others ==
    ASSUME IInv, NEW c \in Calls, Frame(c), NEW d \in Calls, d # c
    PROVE  /\ Uses(d)' <=> Uses(d)
           /\ pc'[d] = pc[d] /\ conn'[d] = conn[d]
           /\ Uses(d) => conn[d] \in Conns
           /\ Uses(d) /\ Uses(c) => conn[d] # conn[c] /\ session'[conn[d]] = session[conn[d]]
  <1>1. Uses(d) => conn[d] \in Conns
    BY UsedIsThere
  <1>2. Uses(d) /\ Uses(c) => conn[d] # conn[c]
    BY DEF IInv, OneUser
  <1> QED
    BY <1>1, <1>2 DEF Frame, Uses

(* Whose a row is does not change.                                          *)
LEMMA AddedStays ==
    ASSUME ask' = ask
    PROVE  \A m, d : Added(m, d)' <=> Added(m, d)
  BY DEF Added

(* The types the following lemmas need.                                     *)
LEMMA VariableTypes ==
    ASSUME IInv
    PROVE  conn \in [Calls -> Conns \cup {NoConn}] /\ idle \subseteq Conns
  BY DEF IInv, TypeOK

-----------------------------------------------------------------------------
(* Each part of the invariant, over the kinds of steps.                    *)

(* A connection is idle exactly if no call uses it.                        *)
LEMMA IdleIsUnusedStep ==
    ASSUME IInv, NEW c \in Calls, Moves(c)
    PROVE  IdleIsUnused'
  BY PoolAssumption, VariableTypes, Others
  DEF IInv, IdleIsUnused, OneUser, UsersHaveOne, Moves, Took, Quiet, Held,
      Ran, Wrote, Settled, GaveBack, Frame

(* No two calls use one connection.                                        *)
LEMMA OneUserStep ==
    ASSUME IInv, NEW c \in Calls, Moves(c)
    PROVE  OneUser'
  BY PoolAssumption, VariableTypes
  DEF IInv, IdleIsUnused, OneUser, UsersHaveOne, Moves, Took, Quiet, Held,
      Ran, Wrote, Settled, GaveBack, Frame, Uses, Busy

(* A call that uses a connection has one.                                  *)
LEMMA UsersHaveOneStep ==
    ASSUME IInv, NEW c \in Calls, Moves(c)
    PROVE  UsersHaveOne'
  BY PoolAssumption, VariableTypes
  DEF IInv, UsersHaveOne, Moves, Took, Quiet, Held, Ran, Wrote, Settled,
      GaveBack, Frame, Uses, Busy

(* Idle connections are clean: only the one given back joins them.         *)
LEMMA IdleIsCleanStep ==
    ASSUME IInv, NEW c \in Calls, Moves(c)
    PROVE  IdleIsClean'
  BY PoolAssumption, VariableTypes
  DEF IInv, IdleIsUnused, IdleIsClean, Moves, Took, Quiet, Held, Ran, Wrote, Settled, GaveBack, Frame, Uses, Busy

(* The tenant a statement runs under is its call's.                        *)
LEMMA TenantIsBoundStep ==
    ASSUME IInv, NEW c \in Calls, Moves(c)
    PROVE  TenantIsBound'
  BY PoolAssumption, VariableTypes
  DEF IInv, OneUser, UsersHaveOne, TenantIsBound, Moves, Took, Quiet, Held,
      Ran, Wrote, Settled, GaveBack, Frame, Uses, Busy

(* Rows not yet committed are their own call's.                            *)
LEMMA DraftsAreOwnStep ==
    ASSUME IInv, NEW c \in Calls, Moves(c)
    PROVE  DraftsAreOwn'
  <1> SUFFICES ASSUME NEW k \in Conns, NEW m \in session'[k].draft
               PROVE  \E d \in Calls : Uses(d)' /\ conn'[d] = k /\ Added(m, d)'
    BY DEF DraftsAreOwn
  <1>1. ask' = ask
    BY DEF Moves, Took, Quiet, Held, Ran, Settled, GaveBack, Frame
  <1>2. CASE Wrote(c) /\ Ran(c) /\ k = conn[c]
    <2>1. m = ask[c].row /\ Uses(c)' /\ conn'[c] = k
      BY <1>2 DEF Wrote, Ran
    <2>2. Added(m, c)
      BY <1>2, <2>1 DEF Wrote, Added
    <2> QED
      BY <1>1, <2>1, <2>2, AddedStays
  <1>3. CASE ~(Wrote(c) /\ Ran(c) /\ k = conn[c])
    <2>1. m \in session[k].draft /\ (GaveBack(c) => k # conn[c])
      BY <1>3 DEF Moves, Took, Quiet, Held, Ran, Wrote, Settled, GaveBack, Frame
    <2>2. PICK d \in Calls : Uses(d) /\ conn[d] = k /\ Added(m, d)
      BY <2>1 DEF IInv, DraftsAreOwn
    <2>3. Uses(d)' /\ conn'[d] = k
      BY <2>1, <2>2, Others DEF Moves, Took, Quiet, Held, Ran, Settled, GaveBack
    <2> QED
      BY <1>1, <2>2, <2>3, AddedStays
  <1> QED
    BY <1>2, <1>3

(* Rows not yet committed are new.                                         *)
LEMMA DraftsAreNewStep ==
    ASSUME IInv, NEW c \in Calls, Moves(c)
    PROVE  DraftsAreNew'
  BY PoolAssumption, VariableTypes
  DEF IInv, OneUser, DraftsAreNew, DraftsDiffer, Moves, Took, Quiet, Held,
      Ran, Wrote, Settled, GaveBack, Frame, Uses, Busy

(* Two transactions do not hold the same id.                               *)
LEMMA DraftsDifferStep ==
    ASSUME IInv, NEW c \in Calls, Moves(c)
    PROVE  DraftsDiffer'
  BY PoolAssumption, VariableTypes
  DEF IInv, DraftsDiffer, Moves, Took, Quiet, Held, Ran, Wrote, Settled,
      GaveBack, Frame, Uses, Busy

(* An add is where it should be, in its transaction or in the table.       *)
LEMMA AddsAreKeptStep ==
    ASSUME IInv, NEW c \in Calls, Moves(c)
    PROVE  AddsAreKept'
  BY PoolAssumption, VariableTypes, Others
  DEF IInv, OneUser, AddsAreKept, Moves, Took, Quiet, Held, Ran, Wrote, Settled, GaveBack, Frame, Uses, Busy

(* The table holds added rows only.                                        *)
LEMMA RowsWereAddedStep ==
    ASSUME IInv, NEW c \in Calls, Moves(c)
    PROVE  RowsWereAdded'
  BY PoolAssumption, VariableTypes
  DEF IInv, RowsWereAdded, DraftsAreOwn, Added, Moves, Took, Quiet, Held, Ran,
      Wrote, Settled, GaveBack, Frame, Uses, Busy

(* No id is in the table twice.                                            *)
LEMMA IdsAreUniqueStep ==
    ASSUME IInv, NEW c \in Calls, Moves(c)
    PROVE  IdsAreUnique'
  BY PoolAssumption, VariableTypes
  DEF IInv, IdsAreUnique, DraftsAreNew, DraftsAreOwn, OneUser, Added, Moves,
      Took, Quiet, Held, Ran, Wrote, Settled, GaveBack, Frame, Uses,
      Busy

(* What a call is owed is in the table.                                    *)
LEMMA OwedIsThereStep ==
    ASSUME IInv, NEW c \in Calls, Moves(c)
    PROVE  OwedIsThere'
  BY PoolAssumption, VariableTypes
  DEF IInv, OwedIsThere, AddsAreKept, Returned, Moves, Took, Quiet, Held, Ran,
      Wrote, Settled, GaveBack, Frame, Uses, Busy

(* A statement returned its tenant's rows, and all the call is owed.       *)
LEMMA GotIsRightStep ==
    ASSUME IInv, NEW c \in Calls, Moves(c)
    PROVE  GotIsRight'
  BY PoolAssumption, VariableTypes
  DEF IInv, GotIsRight, OwedIsThere, Asked, Got, Moves, Took, Quiet, Held, Ran,
      Wrote, Read, Settled, GaveBack, Frame, Uses, Busy

-----------------------------------------------------------------------------
(* The theorems.                                                            *)

LEMMA InitEstablishes == Init => IInv
  <1> SUFFICES ASSUME Init PROVE IInv
    OBVIOUS
  <1>1. TypeOK
    BY ResetType DEF Init, TypeOK
  <1>2. \A c \in Calls : ~Uses(c) /\ pc[c] = "new"
    BY DEF Init, Uses, Busy
  <1>3. \A k \in Conns : session[k] = Reset /\ session[k].draft = {}
    BY ResetType DEF Init
  <1> QED
    BY <1>1, <1>2, <1>3
    DEF Init, IInv, IdleIsUnused, OneUser, UsersHaveOne, IdleIsClean, TenantIsBound, DraftsAreOwn,
        DraftsAreNew, DraftsDiffer, AddsAreKept, RowsWereAdded, IdsAreUnique, OwedIsThere, GotIsRight

LEMMA StepKeeps == IInv /\ [Next]_vars => IInv'
  <1> SUFFICES ASSUME IInv, [Next]_vars PROVE IInv'
    OBVIOUS
  <1>1. CASE UNCHANGED vars
    BY <1>1
    DEF vars, calls, IInv, TypeOK, IdleIsUnused, OneUser, UsersHaveOne, IdleIsClean, TenantIsBound,
        DraftsAreOwn, DraftsAreNew, DraftsDiffer, AddsAreKept, RowsWereAdded, IdsAreUnique,
        OwedIsThere, GotIsRight, Uses, Added, Asked, Got
  <1>2. CASE Next
    <2>1. PICK c \in Calls : Acts(c)
      BY <1>2 DEF Next, Acts
    <2>2. Moves(c) /\ TypeOK'
      BY <2>1, EveryStepMoves
    <2> QED
      BY <2>2, IdleIsUnusedStep, OneUserStep, UsersHaveOneStep, IdleIsCleanStep, TenantIsBoundStep,
         DraftsAreOwnStep, DraftsAreNewStep, DraftsDifferStep, AddsAreKeptStep, RowsWereAddedStep,
         IdsAreUniqueStep, OwedIsThereStep, GotIsRightStep DEF IInv
  <1> QED
    BY <1>1, <1>2

(* The books of the pool balance, whatever is raised or cancelled: a connection *)
(* is idle and clean, or is one call's (store/postgres.py:39-92).               *)
THEOREM Safety == Spec => []IInv
  BY InitEstablishes, StepKeeps, PTL DEF Spec

(* What a read returns is its tenant's, and holds every row it asked for whose add *)
(* had returned when it began; a listing lacks one only when it is full, and then  *)
(* of rows accessed no earlier (store/postgres.py:71-92).                          *)
THEOREM Scoped == Spec => []ReadsAreScopedAndFresh
  <1>1. IInv => ReadsAreScopedAndFresh
    BY DEF IInv, GotIsRight, ReadsAreScopedAndFresh
  <1> QED
    BY <1>1, Safety, PTL

(* An add that returned is there for good, under an id of its own               *)
(* (store/postgres.py:50-69).                                                   *)
THEOREM Durable == Spec => []AddsAreDurable
  <1>1. IInv => AddsAreDurable
    BY DEF IInv, AddsAreKept, AddsAreDurable
  <1> QED
    BY <1>1, Safety, PTL

=============================================================================
