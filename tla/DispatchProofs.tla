--------------------------- MODULE DispatchProofs ---------------------------
(***************************************************************************)
(* Proofs about module Dispatch for any number of calls and any registry:  *)
(* the inductive invariant, and that the fallback walk implements the      *)
(* abstract call of module RoutedCall.                                     *)
(***************************************************************************)
EXTENDS Dispatch, FiniteSetTheorems, TLAPS

(* The operators of the breaker stay within its type and keep it open exactly *)
(* when the failures have reached the threshold (router/breaker.py).          *)
LEMMA BreakerType ==
    ASSUME NEW br \in Breaker
    PROVE  /\ NewBreaker \in Breaker
           /\ RecordSuccess(br) \in Breaker
           /\ RecordFailure(br) \in Breaker
           /\ Age(br) \in Breaker
  BY BreakerAssumption DEF Breaker, NewBreaker, RecordSuccess, RecordFailure, Age, Closed

Tripped(br) == br.since # Closed <=> br.failures >= Threshold

LEMMA BreakerTripped ==
    ASSUME NEW br \in Breaker, Tripped(br)
    PROVE  /\ Tripped(NewBreaker)
           /\ Tripped(RecordSuccess(br))
           /\ Tripped(RecordFailure(br))
           /\ Tripped(Age(br))
  BY BreakerAssumption
  DEF Breaker, NewBreaker, RecordSuccess, RecordFailure, Age, Closed, Tripped

(* The hard filters admit only registered backends, and nobody without a demand. *)
LEMMA EligibleType ==
    /\ \A d \in Demands \cup {NoDemand} : Eligible[d] \subseteq Backends
    /\ Eligible[NoDemand] = {}
  BY DEF Eligible, NoDemand

(* The pool is drawn from the eligible backends, the default included, and is  *)
(* empty only if they are.                                                     *)
LEMMA PoolType ==
    ASSUME NEW d \in Demands
    PROVE  /\ Pool(d) \subseteq Eligible[d]
           /\ Eligible[d] # {} => Pool(d) # {}
  BY DEF Pool, Healthy

(* A ranking of a pool is a sequence over it without repetitions, and not empty *)
(* unless the pool is.                                                          *)
LEMMA RankingType ==
    ASSUME NEW pool \in SUBSET Backends, pool # {}, NEW d, NEW s \in Rankings(pool, d)
    PROVE  /\ s \in Seq(pool) /\ Len(s) \in Nat \ {0}
           /\ \A i, j \in 1 .. Len(s) : s[i] = s[j] => i = j
  <1> DEFINE n == Cardinality(pool)
  <1>1. n \in Nat /\ n # 0
    BY FS_Subset, FS_CardinalityType, FS_EmptySet, RegistryAssumption
  <1>2. s \in [1 .. n -> pool]
    BY DEF Rankings
  <1>3. \A i, j \in 1 .. n : i < j => s[i] # s[j]
    BY DEF Rankings
  <1> HIDE DEF n
  <1>4. s \in Seq(pool) /\ Len(s) = n
    BY <1>1, <1>2
  <1> QED
    BY <1>1, <1>3, <1>4

(* A chain is made of eligible backends, each at most once.                   *)
LEMMA ChainType ==
    ASSUME NEW d \in Demands, Eligible[d] # {}, NEW s \in Rankings(Pool(d), d)
    PROVE  /\ s \in Seq(Backends)
           /\ \A i \in 1 .. Len(s) : s[i] \in Eligible[d]
           /\ \A i, j \in 1 .. Len(s) : s[i] = s[j] => i = j
  <1>1. Pool(d) \subseteq Eligible[d] /\ Pool(d) # {} /\ Eligible[d] \subseteq Backends
    BY PoolType, EligibleType
  <1>2. Pool(d) \in SUBSET Backends
    BY <1>1
  <1>3. /\ s \in Seq(Pool(d)) /\ Len(s) \in Nat \ {0}
        /\ \A i, j \in 1 .. Len(s) : s[i] = s[j] => i = j
    BY <1>1, <1>2, RankingType
  <1>4. \A i \in 1 .. Len(s) : s[i] \in Pool(d)
    BY <1>3
  <1> QED
    BY <1>1, <1>3, <1>4

-----------------------------------------------------------------------------
(* Each action keeps the inductive invariant.                              *)

LEMMA InitIInv == Init => IInv
  <1> SUFFICES ASSUME Init PROVE IInv
    OBVIOUS
  <1>1. TypeOK
    <2>1. NewBreaker \in Breaker
      BY BreakerAssumption DEF Breaker, NewBreaker, Closed
    <2> QED
      BY <2>1 DEF Init, TypeOK, Idle
  <1>2. HardFiltersHold
    BY DEF Init, HardFiltersHold
  <1>3. OpenIffTripped
    BY BreakerAssumption DEF Init, OpenIffTripped, NewBreaker, Closed
  <1>4. ChainIsWalked
    BY DEF Init, ChainIsWalked
  <1> QED
    BY <1>1, <1>2, <1>3, <1>4 DEF IInv

LEMMA RouteStep ==
    ASSUME IInv, NEW c \in Calls, Route(c)
    PROVE  IInv'
  <1> USE DEF IInv
  <1> PICK d \in Demands :
        /\ demand' = [demand EXCEPT ![c] = d]
        /\ \/ /\ Eligible[d] = {} /\ pc' = [pc EXCEPT ![c] = "refused"]
              /\ chain' = [chain EXCEPT ![c] = <<>>]
              /\ safe' = [safe EXCEPT ![c] = FALSE]
           \/ /\ Eligible[d] # {} /\ pc' = [pc EXCEPT ![c] = "walk"]
              /\ \E s \in Rankings(Pool(d), d) : chain' = [chain EXCEPT ![c] = s]
              /\ safe' = [safe EXCEPT ![c] = Healthy(Eligible[d]) = {}]
    BY DEF Route, Goto
  <1>1. PICK s : /\ chain' = [chain EXCEPT ![c] = s]
                 /\ s \in Seq(Backends)
                 /\ \A i \in 1 .. Len(s) : s[i] \in Eligible[d]
                 /\ \A i, j \in 1 .. Len(s) : s[i] = s[j] => i = j
    <2>1. CASE Eligible[d] = {}
      <3>1. chain' = [chain EXCEPT ![c] = <<>>]
        BY <2>1
      <3>2. <<>> \in Seq(Backends) /\ Len(<<>>) = 0
        OBVIOUS
      <3>3. 1 .. Len(<<>>) = {}
        BY <3>2
      <3> QED
        BY <3>1, <3>2, <3>3
    <2>2. CASE Eligible[d] # {}
      <3>1. PICK s \in Rankings(Pool(d), d) : chain' = [chain EXCEPT ![c] = s]
        BY <2>2
      <3>2. /\ s \in Seq(Backends)
            /\ \A i \in 1 .. Len(s) : s[i] \in Eligible[d]
            /\ \A i, j \in 1 .. Len(s) : s[i] = s[j] => i = j
        BY <2>2, ChainType
      <3> QED
        BY <3>1, <3>2
    <2> QED
      BY <2>1, <2>2
  <1>2. TypeOK'
    <2>1. safe' \in [Calls -> BOOLEAN]
      BY DEF TypeOK
    <2>2. pc' \in [Calls -> Idle \cup {"walk", "calling"}]
      BY DEF TypeOK, Idle
    <2> QED
      BY <1>1, <2>1, <2>2 DEF TypeOK, Route
  <1>3. HardFiltersHold'
    BY <1>1 DEF HardFiltersHold, Route, TypeOK
  <1>4. OpenIffTripped'
    BY DEF OpenIffTripped, Route
  <1>5. ChainIsWalked'
    BY <1>1 DEF ChainIsWalked, Route, TypeOK
  <1> QED
    BY <1>2, <1>3, <1>4, <1>5

LEMMA SkipStep ==
    ASSUME IInv, NEW c \in Calls, Skip(c)
    PROVE  IInv'
  BY DEF IInv, TypeOK, HardFiltersHold, OpenIffTripped, ChainIsWalked, Skip

LEMMA SendStep ==
    ASSUME IInv, NEW c \in Calls, Send(c)
    PROVE  IInv'
  <1> USE DEF IInv, Send, Goto
  <1>1. chain[c][at[c]] \in Backends /\ chain[c][at[c]] \in Eligible[demand[c]]
    BY DEF TypeOK, HardFiltersHold
  <1>2. TypeOK'
    BY <1>1 DEF TypeOK
  <1>3. HardFiltersHold'
    BY <1>1 DEF TypeOK, HardFiltersHold
  <1>4. OpenIffTripped'
    BY DEF OpenIffTripped
  <1>5. ChainIsWalked'
    BY DEF TypeOK, ChainIsWalked
  <1> QED
    BY <1>2, <1>3, <1>4, <1>5

LEMMA ExhaustStep ==
    ASSUME IInv, NEW c \in Calls, Exhaust(c)
    PROVE  IInv'
  BY DEF IInv, TypeOK, HardFiltersHold, OpenIffTripped, ChainIsWalked, Exhaust, Goto, Idle

(* The backend a call awaits is in its chain, and has been sent the request.  *)
LEMMA OutcomeStep ==
    ASSUME IInv, NEW c \in Calls, pc[c] = "calling"
    PROVE  /\ chain[c][at[c]] \in Backends
           /\ at[c] \in 1 .. Len(chain[c])
           /\ chain[c][at[c]] \in tried[c]
  BY DEF IInv, TypeOK, ChainIsWalked

LEMMA SucceedStep ==
    ASSUME IInv, NEW c \in Calls, Succeed(c)
    PROVE  IInv'
  <1> USE DEF IInv, Succeed, Goto
  <1> DEFINE b == chain[c][at[c]]
  <1>1. b \in Backends
    BY OutcomeStep
  <1>2. breaker' = [breaker EXCEPT ![b] = RecordSuccess(breaker[b])]
    BY DEF TypeOK
  <1>3. RecordSuccess(breaker[b]) \in Breaker /\ Tripped(RecordSuccess(breaker[b]))
    BY <1>1, BreakerType, BreakerTripped DEF TypeOK, OpenIffTripped, Tripped
  <1> HIDE DEF b
  <1>4. TypeOK'
    BY <1>1, <1>2, <1>3 DEF TypeOK, Idle, b
  <1>5. HardFiltersHold'
    BY OutcomeStep DEF TypeOK, HardFiltersHold
  <1>6. OpenIffTripped'
    BY <1>1, <1>2, <1>3 DEF TypeOK, OpenIffTripped, Tripped
  <1>7. ChainIsWalked'
    BY DEF TypeOK, ChainIsWalked
  <1> QED
    BY <1>4, <1>5, <1>6, <1>7

LEMMA FailStep ==
    ASSUME IInv, NEW c \in Calls, Fail(c)
    PROVE  IInv'
  <1> USE DEF IInv, Fail, Goto
  <1> DEFINE b == chain[c][at[c]]
  <1>1. b \in Backends
    BY OutcomeStep
  <1>2. breaker' = [breaker EXCEPT ![b] = RecordFailure(breaker[b])]
    BY DEF TypeOK
  <1>3. RecordFailure(breaker[b]) \in Breaker /\ Tripped(RecordFailure(breaker[b]))
    BY <1>1, BreakerType, BreakerTripped DEF TypeOK, OpenIffTripped, Tripped
  <1> HIDE DEF b
  <1>4. TypeOK'
    <2>1. breaker' \in [Backends -> Breaker]
      BY <1>1, <1>2, <1>3 DEF TypeOK
    <2>2. at' \in [Calls -> Nat \ {0}]
      BY DEF TypeOK
    <2>3. pc' \in [Calls -> Idle \cup {"walk", "calling"}]
      BY DEF TypeOK
    <2> QED
      BY <2>1, <2>2, <2>3 DEF TypeOK
  <1>5. HardFiltersHold'
    BY DEF HardFiltersHold
  <1>6. OpenIffTripped'
    BY <1>1, <1>2, <1>3 DEF TypeOK, OpenIffTripped, Tripped
  <1>7. ChainIsWalked'
    BY DEF TypeOK, ChainIsWalked
  <1> QED
    BY <1>4, <1>5, <1>6, <1>7

LEMMA CancelStep ==
    ASSUME IInv, NEW c \in Calls, Cancel(c)
    PROVE  IInv'
  BY DEF IInv, TypeOK, HardFiltersHold, OpenIffTripped, ChainIsWalked, Cancel, Goto, Idle

LEMMA TickStep ==
    ASSUME IInv, Tick
    PROVE  IInv'
  <1> USE DEF IInv, Tick
  <1>1. TypeOK'
    BY BreakerType DEF TypeOK
  <1>2. OpenIffTripped'
    BY BreakerTripped DEF TypeOK, OpenIffTripped, Tripped
  <1> QED
    BY <1>1, <1>2 DEF HardFiltersHold, ChainIsWalked

LEMMA IInvStep == IInv /\ [Next]_vars => IInv'
  <1> SUFFICES ASSUME IInv, [Next]_vars PROVE IInv'
    OBVIOUS
  <1>1. ASSUME NEW c \in Calls, Route(c) PROVE IInv'
    BY <1>1, RouteStep
  <1>2. ASSUME NEW c \in Calls, Walk(c) PROVE IInv'
    BY <1>2, SkipStep, SendStep, ExhaustStep DEF Walk
  <1>3. ASSUME NEW c \in Calls, Succeed(c) PROVE IInv'
    BY <1>3, SucceedStep
  <1>4. ASSUME NEW c \in Calls, Fail(c) PROVE IInv'
    BY <1>4, FailStep
  <1>5. ASSUME NEW c \in Calls, Cancel(c) PROVE IInv'
    BY <1>5, CancelStep
  <1>6. ASSUME Tick PROVE IInv'
    BY <1>6, TickStep
  <1>7. ASSUME UNCHANGED vars PROVE IInv'
    BY <1>7 DEF vars, IInv, TypeOK, HardFiltersHold, OpenIffTripped, ChainIsWalked
  <1> QED
    BY <1>1, <1>2, <1>3, <1>4, <1>5, <1>6, <1>7 DEF Next

-----------------------------------------------------------------------------
(* The theorems.                                                           *)

(* Every reachable state is well typed, and a walk never leaves its chain.  *)
THEOREM Safety == Spec => []IInv
  BY InitIInv, IInvStep, PTL DEF Spec

(* No backend outside a tenant's hard filters is ever ranked, called or answers:  *)
(* the safe default and the fallback walk of _invoke_routed stay within them.     *)
THEOREM PolicyHolds == Spec => []HardFiltersHold
  <1>1. IInv => HardFiltersHold
    BY DEF IInv
  <1> QED
    BY <1>1, Safety, PTL

(* A breaker is open or half-open exactly when Threshold failures followed the  *)
(* last success, whatever the order in which concurrent calls record outcomes.  *)
THEOREM BreakerConsistent == Spec => []OpenIffTripped
  <1>1. IInv => OpenIffTripped
    BY DEF IInv
  <1> QED
    BY <1>1, Safety, PTL

-----------------------------------------------------------------------------
(* The walk implements the abstract call.                                  *)

LEMMA EmptyRest == Rest(<<>>, 1) = {}
  <1>1. 1 .. Len(<<>>) = {}
    OBVIOUS
  <1> QED
    BY <1>1 DEF Rest

LEMMA InitRefines == Init => Abstract!AbsInit
  <1> SUFFICES ASSUME Init PROVE Abstract!AbsInit
    OBVIOUS
  <1>1. \A c \in Calls : Rest(chain[c], at[c]) = {}
    BY EmptyRest DEF Init
  <1> QED
    BY <1>1, EligibleType DEF Init, Abstract!AbsInit, Unfinished, Nobody, Abstract!Nobody


(* What is left of the chain of c, as a set, when its walk moves on.        *)
LEMMA Remaining ==
    ASSUME NEW s \in Seq(Backends), NEW k \in 1 .. Len(s),
           \A i, j \in 1 .. Len(s) : s[i] = s[j] => i = j
    PROVE  /\ s[k] \in Rest(s, k)
           /\ Rest(s, k + 1) = Rest(s, k) \ {s[k]}
  <1>1. \A i \in k .. Len(s) : i \in 1 .. Len(s) /\ (i # k <=> i \in k + 1 .. Len(s))
    OBVIOUS
  <1>2. k \in k .. Len(s)
    OBVIOUS
  <1>3. \A i \in k + 1 .. Len(s) : i \in k .. Len(s)
    OBVIOUS
  <1> QED
    BY <1>1, <1>2, <1>3, Zenon DEF Rest

(* The mapped variables, by name.                                           *)
status   == [c \in Calls |-> IF Unfinished(c) THEN "pending" ELSE pc[c]]
eligible == [c \in Calls |-> Eligible[demand[c]]]
options  == [c \in Calls |-> Rest(chain[c], at[c])]

(* A step that only moves the pc of c leaves the mapped data alone.         *)
LEMMA OnlyStatus ==
    ASSUME IInv, NEW c \in Calls, NEW l, pc' = [pc EXCEPT ![c] = l],
           UNCHANGED <<demand, chain, at>>
    PROVE  /\ status' = [status EXCEPT ![c] =
                             IF l \in {"walk", "calling"} THEN "pending" ELSE l]
           /\ UNCHANGED <<eligible, options>>
  BY DEF IInv, TypeOK, status, eligible, options, Unfinished

(* A step that moves c past the current backend rules that one out.         *)
LEMMA MovesOn ==
    ASSUME IInv, NEW c \in Calls, at[c] <= Len(chain[c]), at' = [at EXCEPT ![c] = @ + 1],
           Unfinished(c), pc' = [pc EXCEPT ![c] = "walk"], UNCHANGED <<demand, chain, by>>
    PROVE  Abstract!RuleOut(c)
  <1> DEFINE b == chain[c][at[c]]
  <1>1. status[c] = "pending"
    BY DEF status
  <1>2. UNCHANGED <<status, eligible, by>>
    BY DEF IInv, TypeOK, status, eligible, Unfinished
  <1>3. /\ b \in options[c]
        /\ Rest(chain[c], at[c] + 1) = options[c] \ {b}
    <2>1. chain[c] \in Seq(Backends) /\ at[c] \in 1 .. Len(chain[c])
      BY DEF IInv, TypeOK
    <2>2. \A i, j \in 1 .. Len(chain[c]) : chain[c][i] = chain[c][j] => i = j
      BY DEF IInv, ChainIsWalked
    <2> QED
      BY <2>1, <2>2, Remaining DEF options
  <1> HIDE DEF b
  <1>4. options' = [options EXCEPT ![c] = options[c] \ {b}]
    BY <1>3 DEF IInv, TypeOK, options
  <1> QED
    BY <1>1, <1>2, <1>3, <1>4 DEF Abstract!RuleOut, status, eligible, options

LEMMA RouteRefines ==
    ASSUME IInv, NEW c \in Calls, Route(c)
    PROVE  Abstract!Accept(c) \/ Abstract!Refuse(c)
  <1>1. status[c] # "pending"
    BY DEF Route, Idle, status, Unfinished
  <1>2. /\ by' = [by EXCEPT ![c] = Nobody]
        /\ at' = [at EXCEPT ![c] = 1]
        /\ Nobody = Abstract!Nobody
    BY DEF Route, Nobody, Abstract!Nobody
  <1> PICK d \in Demands :
        /\ demand' = [demand EXCEPT ![c] = d]
        /\ \/ /\ Eligible[d] = {} /\ pc' = [pc EXCEPT ![c] = "refused"]
              /\ chain' = [chain EXCEPT ![c] = <<>>]
           \/ /\ Eligible[d] # {} /\ pc' = [pc EXCEPT ![c] = "walk"]
              /\ \E s \in Rankings(Pool(d), d) : chain' = [chain EXCEPT ![c] = s]
    BY DEF Route, Goto
  <1>3. eligible' = [eligible EXCEPT ![c] = Eligible[d]]
    BY DEF IInv, TypeOK, eligible
  <1>4. CASE Eligible[d] = {}
    <2>1. chain' = [chain EXCEPT ![c] = <<>>] /\ pc' = [pc EXCEPT ![c] = "refused"]
      BY <1>4
    <2>2. status' = [status EXCEPT ![c] = "refused"]
      BY <2>1 DEF IInv, TypeOK, status, Unfinished
    <2>4. options' = [options EXCEPT ![c] = {}]
      BY <1>2, <2>1, EmptyRest DEF IInv, TypeOK, options
    <2> QED
      BY <1>1, <1>2, <1>3, <1>4, <2>2, <2>4 DEF Abstract!Refuse, status, eligible, options
  <1>5. CASE Eligible[d] # {}
    <2>1. PICK s \in Rankings(Pool(d), d) : chain' = [chain EXCEPT ![c] = s]
      BY <1>5
    <2>2. status' = [status EXCEPT ![c] = "pending"]
      BY <1>5 DEF IInv, TypeOK, status, Unfinished
    <2> DEFINE O == Rest(s, 1)
    <2>3. s \in Seq(Pool(d)) /\ Len(s) \in Nat \ {0}
      BY <1>5, RankingType, PoolType, EligibleType
    <2>4. O \subseteq Eligible[d] /\ O # {}
      <3>1. \A i \in 1 .. Len(s) : s[i] \in Pool(d)
        BY <2>3
      <3>2. 1 \in 1 .. Len(s)
        BY <2>3
      <3>3. Pool(d) \subseteq Eligible[d]
        BY PoolType
      <3> QED
        BY <3>1, <3>2, <3>3 DEF Rest
    <2>5. options' = [options EXCEPT ![c] = O]
      BY <1>2, <2>1 DEF IInv, TypeOK, options
    <2>6. Eligible[d] \in SUBSET Backends
      BY EligibleType
    <2> HIDE DEF O
    <2>7. O \in (SUBSET Eligible[d]) \ {{}}
      BY <2>4
    <2>8. \E E \in SUBSET Backends :
            /\ eligible' = [eligible EXCEPT ![c] = E]
            /\ \E P \in (SUBSET E) \ {{}} : options' = [options EXCEPT ![c] = P]
      BY <1>3, <2>5, <2>6, <2>7
    <2> QED
      BY <1>1, <1>2, <2>2, <2>8 DEF Abstract!Accept, status, eligible, options
  <1> QED
    BY <1>4, <1>5

LEMMA StepRefines == IInv /\ [Next]_vars => [Abstract!AbsNext]_(Abstract!absVars)
  <1> SUFFICES ASSUME IInv, [Next]_vars
               PROVE  \/ \E c \in Calls :
                            \/ Abstract!Accept(c) \/ Abstract!Refuse(c) \/ Abstract!RuleOut(c)
                            \/ Abstract!Answer(c) \/ Abstract!GiveUp(c) \/ Abstract!Abandon(c)
                      \/ UNCHANGED <<status, eligible, options, by>>
    BY DEF Abstract!AbsNext, Abstract!absVars, status, eligible, options
  <1>1. ASSUME NEW c \in Calls, Route(c) PROVE Abstract!Accept(c) \/ Abstract!Refuse(c)
    BY <1>1, RouteRefines
  <1>2. ASSUME NEW c \in Calls, Skip(c) PROVE Abstract!RuleOut(c)
    <2>1. Unfinished(c) /\ pc' = [pc EXCEPT ![c] = "walk"]
      BY <1>2 DEF Skip, Unfinished, IInv, TypeOK
    <2> QED
      BY <1>2, <2>1, MovesOn DEF Skip
  <1>3. ASSUME NEW c \in Calls, Send(c) PROVE UNCHANGED <<status, eligible, options, by>>
    <2>1. /\ status' = [status EXCEPT ![c] = "pending"] /\ UNCHANGED <<eligible, options, by>>
      BY <1>3, OnlyStatus DEF Send, Goto
    <2>2. status[c] = "pending"
      BY <1>3 DEF Send, status, Unfinished
    <2> QED
      BY <2>1, <2>2 DEF status
  <1>4. ASSUME NEW c \in Calls, Exhaust(c) PROVE Abstract!GiveUp(c)
    <2>1. /\ status' = [status EXCEPT ![c] = "unavailable"]
          /\ UNCHANGED <<eligible, options, by>>
      BY <1>4, OnlyStatus DEF Exhaust, Goto
    <2>2. status[c] = "pending"
      BY <1>4 DEF Exhaust, status, Unfinished
    <2>3. options[c] = {}
      <3>1. chain[c] \in Seq(Backends) /\ at[c] \in Nat /\ at[c] > Len(chain[c])
        BY <1>4 DEF Exhaust, IInv, TypeOK
      <3>2. at[c] .. Len(chain[c]) = {}
        BY <3>1
      <3> QED
        BY <3>2 DEF options, Rest
    <2> QED
      BY <2>1, <2>2, <2>3 DEF Abstract!GiveUp, status, eligible, options
  <1>5. ASSUME NEW c \in Calls, Succeed(c) PROVE Abstract!Answer(c)
    <2>1. /\ status' = [status EXCEPT ![c] = "answered"]
          /\ UNCHANGED <<eligible, options>>
      BY <1>5, OnlyStatus DEF Succeed, Goto
    <2>2. status[c] = "pending"
      BY <1>5 DEF Succeed, status, Unfinished
    <2>3. chain[c][at[c]] \in options[c] /\ by' = [by EXCEPT ![c] = chain[c][at[c]]]
      <3>1. chain[c] \in Seq(Backends) /\ at[c] \in 1 .. Len(chain[c])
        BY <1>5, OutcomeStep DEF Succeed, IInv, TypeOK
      <3>2. at[c] \in at[c] .. Len(chain[c])
        BY <3>1
      <3> QED
        BY <1>5, <3>2 DEF Succeed, options, Rest
    <2> QED
      BY <2>1, <2>2, <2>3 DEF Abstract!Answer, status, eligible, options
  <1>6. ASSUME NEW c \in Calls, Fail(c) PROVE Abstract!RuleOut(c)
    <2>1. Unfinished(c) /\ at[c] <= Len(chain[c])
      BY <1>6, OutcomeStep DEF Fail, Unfinished, IInv, TypeOK
    <2> QED
      BY <1>6, <2>1, MovesOn DEF Fail, Goto
  <1>7. ASSUME NEW c \in Calls, Cancel(c) PROVE Abstract!Abandon(c)
    <2>1. /\ status' = [status EXCEPT ![c] = "cancelled"]
          /\ UNCHANGED <<eligible, options, by>>
      BY <1>7, OnlyStatus DEF Cancel, Goto
    <2>2. status[c] = "pending"
      BY <1>7 DEF Cancel, status, Unfinished
    <2> QED
      BY <2>1, <2>2 DEF Abstract!Abandon, status, eligible, options
  <1>8. ASSUME Tick \/ UNCHANGED vars PROVE UNCHANGED <<status, eligible, options, by>>
    BY <1>8 DEF Tick, vars, status, eligible, options, Unfinished
  <1> QED
    BY <1>1, <1>2, <1>3, <1>4, <1>5, <1>6, <1>7, <1>8 DEF Next, Walk

(* Routing and the fallback walk implement the abstract call: each backend of a   *)
(* decision is tried or skipped at most once, and a call is unavailable only when *)
(* none is left.                                                                  *)
THEOREM Refinement == Spec => ImplementsRoutedCall
  BY InitIInv, IInvStep, InitRefines, StepRefines, PTL
  DEF Spec, ImplementsRoutedCall, Abstract!AbsSpec

=============================================================================
