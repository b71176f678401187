--------------------------- MODULE PipelineProofs ---------------------------
(***************************************************************************)
(* Proofs about Pipeline for every set of requests, tenants, inputs and    *)
(* memories, and for every wiring of the process.                          *)
(***************************************************************************)
EXTENDS Pipeline, WellFoundedInduction, TLAPS

-----------------------------------------------------------------------------
(* Type correctness.                                                       *)

LEMMA Distinct == NoText \notin Text /\ NoBundle \notin Bundle /\ NoInput \notin Inputs
BY InputsAssumption DEF NoText, Text, NoBundle, Bundle, NoInput, Input

LEMMA KeyType == ASSUME NEW in \in Inputs, NEW m \in Models
                 PROVE  /\ KeyOf(in, m) \in [fp : Fp, query : Queries]
                        /\ Fingerprint(in, m) \in Fp
BY InputsAssumption, NormAssumption DEF Input, KeyOf, Fingerprint, Fp

\* Attaching an output to a bundle leaves a bundle.
LEMMA AttachType == ASSUME NEW b \in Bundle, NEW text \in Text
                    PROVE  [b EXCEPT !.output = text] \in Bundle
BY DEF Bundle

LEMMA WriteBackType ==
    ASSUME TypeOK, Started, NEW r \in Requests, pc[r] \in Awaiting, NEW text \in Text,
           NEW m \in Models, WriteBack(r, text, m)
    PROVE  /\ bundle' \in [Requests -> Bundle \cup {NoBundle}]
           /\ ledger' \in [Tenants -> Seq(Bill)]
           /\ out' = [out EXCEPT ![r] = text]
           /\ pc' = [pc EXCEPT ![r] = "done"]
<1>1. bundle' \in [Requests -> Bundle \cup {NoBundle}]
  <2>1. CASE bundle[r] # NoBundle
    <3>1. bundle[r] \in Bundle
      BY <2>1 DEF TypeOK
    <3>2. [bundle[r] EXCEPT !.output = text] \in Bundle
      BY <3>1, AttachType
    <3> QED BY <3>2 DEF TypeOK, WriteBack
  <2>2. CASE bundle[r] = NoBundle
    BY <2>2 DEF TypeOK, WriteBack
  <2> QED BY <2>1, <2>2
<1>2. ledger' \in [Tenants -> Seq(Bill)]
  <2>1. [by |-> r, model |-> m] \in Bill
    BY DEF Bill
  <2>2. \A t \in Tenants : Append(ledger[t], [by |-> r, model |-> m]) \in Seq(Bill)
    BY <2>1 DEF TypeOK
  <2> QED BY <2>2 DEF TypeOK, WriteBack
<1> QED BY <1>1, <1>2 DEF WriteBack, Goto

TypeInv == TypeOK /\ Started

LEMMA TypeInit == Init => TypeInv
BY DEF Init, TypeInv, TypeOK, Started, Delivered, Answered, Reused

LEMMA TypeBegin == ASSUME TypeInv, NEW r \in Requests, Begin(r) PROVE TypeInv'
<1> PICK in \in Inputs :
       /\ input' = [input EXCEPT ![r] = in]
       /\ chosen' = [chosen EXCEPT ![r] = in.model]
       /\ Goto(r, IF in.tenant \notin MayRoute THEN "denied"
                  ELSE IF "cache" \in Wired THEN "exact" ELSE "retrieve")
  BY DEF Begin
<1>1. in.model \in Models
  BY InputsAssumption DEF Input
<1>2. TypeOK'
  BY <1>1 DEF TypeInv, Begin, TypeOK, Goto, Awaiting, Ended
<1>3. Started'
  BY <1>1 DEF TypeInv, Begin, TypeOK, Started, Goto, Delivered, Answered, Reused
<1> QED BY <1>2, <1>3 DEF TypeInv

LEMMA TypeLookup ==
    ASSUME TypeInv, NEW r \in Requests, LookupExact(r) \/ LookupSemantic(r) PROVE TypeInv'
<1>1. \A e \in cache : e.text \in Text
  BY DEF TypeInv, TypeOK, Entry
<1>2. /\ GetExact(cache, input[r].tenant, KeyOf(input[r], chosen[r])) \subseteq cache
      /\ SearchSemantic(cache, input[r].tenant, Fingerprint(input[r], chosen[r]),
                        input[r].query) \subseteq cache
  BY DEF GetExact, SearchSemantic
<1>2a. chosen[r] \in Models /\ Models \subseteq Names
  BY WiringAssumption DEF TypeInv, Started, LookupExact, LookupSemantic
<1>2b. \A e \in cache : [e.text EXCEPT !.name = chosen[r]] \in Text
  BY <1>1, <1>2a DEF Text
<1>3. \/ \E e \in cache : ServeHit(r, e)
      \/ (Goto(r, "semantic") \/ Goto(r, "retrieve")) /\ UNCHANGED out
  BY <1>2 DEF LookupExact, LookupSemantic
<1>4. /\ pc[r] \in {"exact", "semantic"}
      /\ UNCHANGED <<memory, cache, bundle, ledger, input, chosen, found, kept, resp>>
  BY DEF LookupExact, LookupSemantic
<1>5. TypeOK'
  BY <1>2b, <1>3, <1>4 DEF TypeInv, TypeOK, ServeHit, Goto, Awaiting, Ended
<1>6. Started'
  BY <1>2b, <1>3, <1>4 DEF TypeInv, TypeOK, Started, ServeHit, Goto, Delivered, Answered, Reused
<1> QED BY <1>5, <1>6 DEF TypeInv

LEMMA TypeRetrieve == ASSUME TypeInv, NEW r \in Requests, Retrieve(r) PROVE TypeInv'
<1>1. TypeOK'
  BY DEF TypeInv, Retrieve, Candidates, Rows, TypeOK, Goto, Awaiting
<1>2. Started'
  BY DEF TypeInv, Retrieve, TypeOK, Started, Goto, Delivered, Answered, Reused
<1> QED BY <1>1, <1>2 DEF TypeInv

LEMMA TypeAssemble == ASSUME TypeInv, NEW r \in Requests, Assemble(r) PROVE TypeInv'
<1> DEFINE models == RoutedModels[input[r].tenant]
<1>1. input[r] \in Inputs /\ chosen[r] \in Models
  BY DEF TypeInv, Started, Assemble
<1>2. models \subseteq Models
  BY <1>1, InputsAssumption, WiringAssumption DEF Input
<1>3. PICK K \in SUBSET found[r] :
         /\ kept' = [kept EXCEPT ![r] = K]
         /\ bundle' = IF {"assembler", "replay"} \subseteq Wired
                        THEN [bundle EXCEPT ![r] = Captured(r, K)]
                        ELSE bundle
  BY DEF Assemble
<1>4. Captured(r, K) \in Bundle
  BY <1>1 DEF Captured, Bundle, TypeInv, TypeOK
<1>5. \E l \in {"invoke", "failed"} : Goto(r, l)
  BY DEF Assemble
<1>6. \/ UNCHANGED chosen
      \/ \E m \in Models : chosen' = [chosen EXCEPT ![r] = m]
  BY <1>2 DEF Assemble
<1>7. pc[r] = "assemble" /\ UNCHANGED <<memory, cache, ledger, input, found, resp, out>>
  BY DEF Assemble
<1>8. TypeOK'
  BY <1>3, <1>4, <1>5, <1>6, <1>7 DEF TypeInv, TypeOK, Goto, Awaiting, Ended
<1>9. Started'
  BY <1>5, <1>6, <1>7 DEF TypeInv, TypeOK, Started, Goto, Delivered, Answered, Reused
<1> QED BY <1>8, <1>9 DEF TypeInv

LEMMA TypeGenerate == ASSUME TypeInv, NEW r \in Requests, Generate(r) PROVE TypeInv'
<1>1. input[r] \in Inputs /\ chosen[r] \in Models
  BY DEF TypeInv, Started, Generate
<1>2. RoutedModels[input[r].tenant] \subseteq Models
  BY <1>1, InputsAssumption, WiringAssumption DEF Input
<1>3. PICK m \in Models, fin \in BOOLEAN, name \in Names :
        LET text == [by |-> r, model |-> m, name |-> name, facts |-> found[r],
                     kept |-> kept[r], terminal |-> fin]
        IN  /\ chosen' = [chosen EXCEPT ![r] = m]
            /\ resp' = [resp EXCEPT ![r] = text]
            /\ IF Cacheable(text)
                 THEN Goto(r, "store") /\ UNCHANGED <<bundle, ledger, out>>
                 ELSE WriteBack(r, text, m)
  BY <1>1, <1>2, WiringAssumption DEF Generate
<1> DEFINE text == [by |-> r, model |-> m, name |-> name, facts |-> found[r],
                    kept |-> kept[r], terminal |-> fin]
<1>4. text \in Text
  BY DEF Text, TypeInv, TypeOK
<1>5. pc[r] = "invoke" /\ UNCHANGED <<memory, cache, input, found, kept>>
  BY DEF Generate
<1>6. CASE Cacheable(text)
  <2>1. Goto(r, "store") /\ UNCHANGED <<bundle, ledger, out>>
    BY <1>3, <1>6
  <2>2. TypeOK'
    BY <1>3, <1>4, <1>5, <2>1 DEF TypeInv, TypeOK, Goto, Awaiting
  <2>3. Started'
    BY <1>3, <1>4, <1>5, <2>1 DEF TypeInv, TypeOK, Started, Goto, Delivered, Answered, Reused
  <2> QED BY <2>2, <2>3 DEF TypeInv
<1>7. CASE ~Cacheable(text)
  <2>1. WriteBack(r, text, m)
    BY <1>3, <1>7
  <2>2. /\ bundle' \in [Requests -> Bundle \cup {NoBundle}]
        /\ ledger' \in [Tenants -> Seq(Bill)]
        /\ out' = [out EXCEPT ![r] = text]
        /\ pc' = [pc EXCEPT ![r] = "done"]
    BY <1>4, <1>5, <2>1, WriteBackType DEF TypeInv, Awaiting
  <2>3. TypeOK'
    BY <1>3, <1>4, <1>5, <2>2 DEF TypeInv, TypeOK, Ended
  <2>4. Started'
    BY <1>3, <1>4, <1>5, <2>2 DEF TypeInv, TypeOK, Started, Delivered, Answered, Reused
  <2> QED BY <2>3, <2>4 DEF TypeInv
<1> QED BY <1>6, <1>7

LEMMA TypeStore == ASSUME TypeInv, NEW r \in Requests, Store(r) PROVE TypeInv'
<1> DEFINE entry == [tenant |-> input[r].tenant, key |-> KeyOf(input[r], chosen[r]),
                     text |-> resp[r]]
<1>1. input[r] \in Inputs /\ chosen[r] \in Models /\ resp[r] \in Text
  BY DEF TypeInv, Started, Store
<1>2. entry \in Entry
  BY <1>1, KeyType, InputsAssumption DEF Entry, Input
<1>3. cache' \subseteq Entry
  BY <1>2 DEF Store, PutEntry, TypeInv, TypeOK
<1>4. /\ pc' = [pc EXCEPT ![r] = "stored"] /\ pc[r] = "store"
      /\ UNCHANGED <<memory, bundle, ledger, input, chosen, found, kept, resp, out>>
  BY DEF Store, Goto
<1>5. TypeOK'
  BY <1>3, <1>4 DEF TypeInv, TypeOK, Awaiting
<1>6. Started'
  BY <1>4 DEF TypeInv, TypeOK, Started, Delivered, Answered, Reused
<1> QED BY <1>5, <1>6 DEF TypeInv

LEMMA TypeFinish == ASSUME TypeInv, NEW r \in Requests, Finish(r) PROVE TypeInv'
<1>1. /\ pc[r] = "stored" /\ resp[r] \in Text /\ chosen[r] \in Models
      /\ WriteBack(r, resp[r], chosen[r])
      /\ UNCHANGED <<memory, cache, input, chosen, found, kept, resp>>
  BY DEF Finish, TypeInv, Started
<1>2. /\ bundle' \in [Requests -> Bundle \cup {NoBundle}]
      /\ ledger' \in [Tenants -> Seq(Bill)]
      /\ out' = [out EXCEPT ![r] = resp[r]]
      /\ pc' = [pc EXCEPT ![r] = "done"]
  BY <1>1, WriteBackType DEF TypeInv, Awaiting
<1>3. TypeOK'
  BY <1>1, <1>2 DEF TypeInv, TypeOK, Ended
<1>4. Started'
  BY <1>1, <1>2 DEF TypeInv, TypeOK, Started, Delivered, Answered, Reused
<1> QED BY <1>3, <1>4 DEF TypeInv

\* The steps that only end a request.
LEMMA TypeAbort ==
    ASSUME TypeInv, NEW r \in Requests, PrepareFails(r) \/ GenerateFails(r) \/ Cancel(r)
    PROVE TypeInv'
<1>1. /\ pc[r] \in Awaiting
      /\ \E l \in {"failed", "cancelled"} : pc' = [pc EXCEPT ![r] = l]
      /\ UNCHANGED <<memory, cache, bundle, ledger, input, chosen, found, kept, resp, out>>
  BY DEF PrepareFails, GenerateFails, Cancel, Goto, Awaiting
<1>2. TypeOK'
  BY <1>1 DEF TypeInv, TypeOK, Ended
<1>3. Started'
  BY <1>1 DEF TypeInv, TypeOK, Started, Delivered, Answered, Reused, Awaiting
<1> QED BY <1>2, <1>3 DEF TypeInv

LEMMA TypeEnvironment == ASSUME TypeInv, Remember \/ Expire \/ UNCHANGED vars PROVE TypeInv'
<1>1. CASE Remember
  BY <1>1 DEF Remember, TypeInv, TypeOK, Started, Delivered, Answered, Reused
<1>2. CASE Expire
  BY <1>2 DEF Expire, TypeInv, TypeOK, Started, Delivered, Answered, Reused
<1>3. CASE UNCHANGED vars
  BY <1>3 DEF vars, TypeInv, TypeOK, Started, Delivered, Answered, Reused
<1> QED BY <1>1, <1>2, <1>3

LEMMA TypeStep == TypeInv /\ [Next]_vars => TypeInv'
<1> SUFFICES ASSUME TypeInv, [Next]_vars PROVE TypeInv'
  OBVIOUS
<1>1. CASE UNCHANGED vars \/ Remember \/ Expire
  BY <1>1, TypeEnvironment
<1>2. ASSUME NEW r \in Requests, Begin(r) \/ Progress(r) \/ Cancel(r) PROVE TypeInv'
  BY <1>2, TypeBegin, TypeLookup, TypeRetrieve, TypeAssemble, TypeGenerate, TypeStore,
     TypeFinish, TypeAbort DEF Progress
<1> QED BY <1>1, <1>2 DEF Next

\* Every variable of the pipeline keeps its type, whatever is wired: a request
\* past its policy check always has an input and a model, one in write-back a text.
THEOREM TypeCorrect == Spec => [](TypeOK /\ Started)
<1>1. TypeInv <=> TypeOK /\ Started
  BY DEF TypeInv
<1> QED BY <1>1, TypeInit, TypeStep, PTL DEF Spec

-----------------------------------------------------------------------------
(* What the steps of a request do, in the form the invariants need.        *)

Step(r) == Begin(r) \/ Progress(r) \/ Cancel(r)

\* A step of one request leaves every other request's variables alone.
LEMMA OthersUnchanged ==
    ASSUME TypeOK, NEW r \in Requests, Step(r), NEW o \in Requests \ {r}
    PROVE  /\ pc'[o] = pc[o] /\ input'[o] = input[o] /\ chosen'[o] = chosen[o]
           /\ found'[o] = found[o] /\ kept'[o] = kept[o] /\ resp'[o] = resp[o]
           /\ out'[o] = out[o] /\ bundle'[o] = bundle[o]
<1>1. CASE Begin(r)
  BY <1>1 DEF Begin, TypeOK, Goto
<1>2. CASE LookupExact(r) \/ LookupSemantic(r)
  BY <1>2 DEF LookupExact, LookupSemantic, ServeHit, TypeOK, Goto
<1>3. CASE Retrieve(r) \/ PrepareFails(r) \/ GenerateFails(r) \/ Cancel(r) \/ Store(r)
  BY <1>3 DEF Retrieve, PrepareFails, GenerateFails, Cancel, Store, TypeOK, Goto
<1>4. CASE Assemble(r)
  BY <1>4 DEF Assemble, TypeOK, Goto
<1>5. CASE Generate(r)
  BY <1>5 DEF Generate, WriteBack, TypeOK, Goto
<1>6. CASE Finish(r)
  BY <1>6 DEF Finish, WriteBack, TypeOK, Goto
<1> QED BY <1>1, <1>2, <1>3, <1>4, <1>5, <1>6 DEF Step, Progress

\* An input, once given, stays; no request becomes new again; what has been
\* answered stays as it is.
LEMMA Stable ==
    ASSUME TypeOK, [Next]_vars, NEW r \in Requests
    PROVE  /\ pc[r] # "new" => pc'[r] # "new" /\ input'[r] = input[r]
           /\ Answered(r) => Answered(r)' /\ out'[r] = out[r] /\ bundle'[r] = bundle[r]
                             /\ chosen'[r] = chosen[r] /\ found'[r] = found[r]
                             /\ kept'[r] = kept[r]
<1>1. CASE Step(r)
  <2>1. CASE Begin(r)
    BY <2>1 DEF Begin, Answered
  <2>2. CASE LookupExact(r) \/ LookupSemantic(r)
    BY <2>2 DEF LookupExact, LookupSemantic, ServeHit, TypeOK, Goto, Answered
  <2>3. CASE Retrieve(r) \/ PrepareFails(r) \/ GenerateFails(r) \/ Cancel(r) \/ Store(r)
    BY <2>3 DEF Retrieve, PrepareFails, GenerateFails, Cancel, Store, TypeOK, Goto, Answered, Awaiting
  <2>4. CASE Assemble(r)
    BY <2>4 DEF Assemble, TypeOK, Goto, Answered
  <2>5. CASE Generate(r) \/ Finish(r)
    BY <2>5 DEF Generate, Finish, WriteBack, TypeOK, Goto, Answered
  <2> QED BY <1>1, <2>1, <2>2, <2>3, <2>4, <2>5 DEF Step, Progress
<1>2. CASE \E o \in Requests \ {r} : Step(o)
  BY <1>2, OthersUnchanged DEF Answered
<1>3. CASE Remember \/ Expire \/ UNCHANGED vars
  BY <1>3 DEF Remember, Expire, vars, Answered
<1> QED BY <1>1, <1>2, <1>3 DEF Next, Step

-----------------------------------------------------------------------------
(* Each part of the inductive invariant is preserved.                      *)

LEMMA PromptStep ==
    ASSUME TypeInv, PromptInScope, [Next]_vars PROVE PromptInScope'
<1> DEFINE P(o) ==
      /\ \A m \in found[o] : pc[o] # "new" /\ m.tenant = input[o].tenant
                                             /\ m.namespace = input[o].namespace
      /\ kept[o] \subseteq found[o]
      /\ pc[o] \in {"new", "exact", "semantic", "retrieve", "assemble"} => kept[o] = {}
      /\ pc[o] \in {"new", "exact", "semantic", "retrieve", "assemble", "denied", "served"} =>
           bundle[o] = NoBundle
<1>1. ASSUME NEW o \in Requests, Step(o) PROVE P(o)'
  <2>0. P(o) /\ TypeOK
    BY DEF PromptInScope, TypeInv
  <2>1. CASE Begin(o)
    BY <2>0, <2>1 DEF Begin, Goto, TypeOK
  <2>2. CASE LookupExact(o) \/ LookupSemantic(o)
    BY <2>0, <2>2 DEF LookupExact, LookupSemantic, ServeHit, Goto, TypeOK
  <2>3. CASE Retrieve(o)
    <3>1. /\ found'[o] \subseteq Rows(input[o]) /\ pc[o] = "retrieve"
          /\ UNCHANGED <<memory, bundle, input, kept>> /\ pc'[o] = "assemble"
      BY <2>0, <2>3 DEF Retrieve, Candidates, Goto, TypeOK
    <3> QED BY <2>0, <3>1 DEF Rows
  <2>4. CASE PrepareFails(o) \/ GenerateFails(o) \/ Cancel(o) \/ Store(o)
    BY <2>0, <2>4 DEF PrepareFails, GenerateFails, Cancel, Store, Goto, TypeOK, Awaiting
  <2>5. CASE Assemble(o)
    BY <2>0, <2>5 DEF Assemble, Goto, TypeOK
  <2>6. CASE Generate(o) \/ Finish(o)
    <3>1. /\ UNCHANGED <<input, found, kept>> /\ pc[o] \in {"invoke", "stored"}
          /\ pc'[o] \in {"store", "done"}
      BY <2>0, <2>6 DEF Generate, Finish, WriteBack, Goto, TypeOK
    <3> QED BY <2>0, <3>1
  <2> QED BY <1>1, <2>1, <2>2, <2>3, <2>4, <2>5, <2>6 DEF Step, Progress
<1>2. ASSUME NEW r \in Requests, Step(r), NEW o \in Requests \ {r} PROVE P(o)'
  BY <1>2, OthersUnchanged DEF PromptInScope, TypeInv
<1>3. CASE Remember \/ Expire \/ UNCHANGED vars
  BY <1>3 DEF Remember, Expire, vars, PromptInScope
<1> QED BY <1>1, <1>2, <1>3 DEF Next, Step, PromptInScope

LEMMA TextStep ==
    ASSUME TypeInv, TextIsOwn, [Next]_vars PROVE TextIsOwn'
<1> DEFINE P(o) ==
      /\ pc[o] \in {"store", "stored"} => OwnText(o, resp[o]) /\ Cacheable(resp[o])
      /\ Answered(o) => OwnText(o, out[o])
<1>1. ASSUME NEW o \in Requests, Step(o) PROVE P(o)'
  <2>0. P(o) /\ TypeOK
    BY DEF TextIsOwn, TypeInv
  <2>1. CASE Begin(o) \/ PrepareFails(o) \/ GenerateFails(o) \/ Cancel(o)
    BY <2>0, <2>1 DEF Begin, PrepareFails, GenerateFails, Cancel, Goto, TypeOK, Answered
  <2>2. CASE LookupExact(o) \/ LookupSemantic(o)
    BY <2>0, <2>2 DEF LookupExact, LookupSemantic, ServeHit, Goto, TypeOK, Answered
  <2>3. CASE Retrieve(o) \/ Assemble(o)
    BY <2>0, <2>3 DEF Retrieve, Assemble, Goto, TypeOK, Answered
  <2>4. CASE Generate(o)
    BY <2>0, <2>4 DEF Generate, WriteBack, Goto, TypeOK, Answered, OwnText
  <2>5. CASE Store(o)
    BY <2>0, <2>5 DEF Store, Goto, TypeOK, Answered, OwnText, Cacheable
  <2>6. CASE Finish(o)
    BY <2>0, <2>6 DEF Finish, WriteBack, Goto, TypeOK, Answered, OwnText
  <2> QED BY <1>1, <2>1, <2>2, <2>3, <2>4, <2>5, <2>6 DEF Step, Progress
<1>2. ASSUME NEW r \in Requests, Step(r), NEW o \in Requests \ {r} PROVE P(o)'
  BY <1>2, OthersUnchanged DEF TextIsOwn, TypeInv, Answered, OwnText, Cacheable
<1>3. CASE Remember \/ Expire \/ UNCHANGED vars
  BY <1>3 DEF Remember, Expire, vars, TextIsOwn, Answered, OwnText, Cacheable
<1> QED BY <1>1, <1>2, <1>3 DEF Next, Step, TextIsOwn

LEMMA EntryStep ==
    ASSUME TypeInv, TextIsOwn, EntryMatchesText, CacheHoldsCommittedPublicText, [Next]_vars
    PROVE  EntryMatchesText' /\ CacheHoldsCommittedPublicText'
<1> DEFINE P(e) == /\ pc[e.text.by] # "new"
                   /\ e.tenant = input[e.text.by].tenant
                   /\ e.key = KeyOf(input[e.text.by], e.text.model)
                   /\ e.text.kept = {} /\ e.text.terminal
<1>0. \A e \in cache : P(e) /\ e.text.by \in Requests
  BY DEF EntryMatchesText, CacheHoldsCommittedPublicText, TypeInv, TypeOK, Entry, Text
<1>a. \A r \in Requests : pc[r] # "new" => pc'[r] # "new" /\ input'[r] = input[r]
  BY Stable DEF TypeInv
<1>1. ASSUME NEW e \in cache PROVE P(e)'
  <2>1. KeyOf(input[e.text.by], e.text.model)' = KeyOf(input'[e.text.by], e.text.model)
    BY DEF KeyOf, Fingerprint
  <2> QED BY <1>0, <1>a, <2>1
<1>2. ASSUME NEW r \in Requests, Store(r) PROVE \A e \in cache' : P(e)'
  <2> DEFINE entry == [tenant |-> input[r].tenant, key |-> KeyOf(input[r], chosen[r]),
                       text |-> resp[r]]
  <2>1. cache' \subseteq cache \cup {entry}
    BY <1>2 DEF Store, PutEntry
  <2>2. entry.text.by = r /\ entry.text.model = chosen[r] /\ Cacheable(entry.text)
    BY <1>2 DEF Store, TextIsOwn, OwnText
  <2>3. pc'[r] # "new" /\ input' = input
    BY <1>2 DEF Store, Goto, TypeInv, TypeOK
  <2>4. P(entry)'
    <3>1. entry.tenant = input'[r].tenant /\ entry.key = KeyOf(input[r], chosen[r])'
      BY <1>2, <2>3 DEF Store, KeyOf, Fingerprint
    <3>2. entry.text.by = r /\ entry.text.kept = {} /\ entry.text.terminal
      BY <2>2 DEF Cacheable
    <3> QED BY <1>2, <2>2, <2>3, <3>1, <3>2 DEF Store
  <2> QED BY <1>1, <1>2, <2>1, <2>4 DEF Store
<1>3. (\E r \in Requests : Store(r)) \/ cache' \subseteq cache
  <2>1. ASSUME NEW r \in Requests, Step(r), ~Store(r) PROVE cache' = cache
    BY <2>1 DEF Step, Progress, Begin, LookupExact, LookupSemantic, Retrieve, PrepareFails,
                Assemble, Generate, GenerateFails, Finish, Cancel
  <2> QED BY <2>1 DEF Next, Step, Remember, Expire, vars
<1>4. \A e \in cache' : P(e)'
  BY <1>1, <1>2, <1>3
<1> QED BY <1>4 DEF EntryMatchesText, CacheHoldsCommittedPublicText

LEMMA ReuseStep ==
    ASSUME TypeInv, EntryMatchesText, CacheHoldsCommittedPublicText, ReusedWasCached,
           ReuseMatchesRequest, [Next]_vars
    PROVE  ReusedWasCached' /\ ReuseMatchesRequest'
<1> DEFINE P(o) == Reused(o) =>
                     /\ out[o].kept = {} /\ out[o].terminal /\ pc[out[o].by] # "new"
                     /\ SameAsk(input[o], input[out[o].by])
                     /\ out[o].model = chosen[o] /\ out[o].name = chosen[o]
<1>0. \A o \in Requests : P(o) /\ (Reused(o) => out[o].by \in Requests)
  BY DEF ReusedWasCached, ReuseMatchesRequest, TypeInv, Started, Delivered, Text
<1>a. \A r \in Requests : pc[r] # "new" => pc'[r] # "new" /\ input'[r] = input[r]
  BY Stable DEF TypeInv
<1>1. ASSUME NEW o \in Requests, UNCHANGED <<pc[o], input[o], chosen[o], out[o]>> PROVE P(o)'
  <2>1. Reused(o)' <=> Reused(o)
    BY <1>1 DEF Reused
  <2>2. Reused(o) => input'[out[o].by] = input[out[o].by] /\ pc'[out[o].by] # "new"
    BY <1>0, <1>a
  <2> QED BY <1>0, <1>1, <2>1, <2>2
<1>2. ASSUME NEW o \in Requests, LookupExact(o) \/ LookupSemantic(o) PROVE P(o)'
  <2>1. CASE \E e \in cache : ServeHit(o, e)
                /\ e.tenant = input[o].tenant /\ e.key.fp = Fingerprint(input[o], chosen[o])
                /\ \/ e.key.query = Norm[input[o].query]
                   \/ Similarity[Norm[input[o].query], e.key.query] >= Threshold
    <3>0. PICK e \in cache : /\ ServeHit(o, e)
                           /\ e.tenant = input[o].tenant
                           /\ e.key.fp = Fingerprint(input[o], chosen[o])
                           /\ \/ e.key.query = Norm[input[o].query]
                              \/ Similarity[Norm[input[o].query], e.key.query] >= Threshold
      BY <2>1
    <3>1. /\ out'[o].by = e.text.by /\ out'[o].kept = e.text.kept
          /\ out'[o].terminal = e.text.terminal
          /\ out'[o].model = e.text.model /\ out'[o].name = chosen[o]
          /\ pc'[o] = "served"
          /\ input' = input /\ chosen' = chosen /\ e.text.by \in Requests
      <4>1. e.text \in Text
        BY DEF TypeInv, TypeOK, Entry
      <4>2. /\ out' = [out EXCEPT ![o] = [e.text EXCEPT !.name = chosen[o]]]
            /\ pc' = [pc EXCEPT ![o] = "served"]
        BY <3>0 DEF ServeHit, Goto
      <4>3. input' = input /\ chosen' = chosen
        BY <1>2 DEF LookupExact, LookupSemantic
      <4>4. out'[o] = [e.text EXCEPT !.name = chosen[o]] /\ pc'[o] = "served"
        BY <4>2 DEF TypeInv, TypeOK
      <4> QED BY <4>1, <4>3, <4>4 DEF Text
    <3>2. /\ pc[e.text.by] # "new" /\ e.text.kept = {} /\ e.text.terminal
          /\ e.key = KeyOf(input[e.text.by], e.text.model)
      BY DEF EntryMatchesText, CacheHoldsCommittedPublicText
    <3>3. pc'[e.text.by] # "new"
      BY <3>1, <3>2, Stable DEF TypeInv
    <3>4. /\ Fingerprint(input[e.text.by], e.text.model) = Fingerprint(input[o], chosen[o])
          /\ e.key.query = Norm[input[e.text.by].query]
      <4>1. e.key = KeyOf(input[e.text.by], e.text.model)
        BY <3>2
      <4>2. e.key.fp = Fingerprint(input[o], chosen[o])
        BY <3>0
      <4> QED BY <4>1, <4>2 DEF KeyOf
    <3>5. SameAsk(input[o], input[e.text.by]) /\ e.text.model = chosen[o]
      BY <3>0, <3>4 DEF Fingerprint, SameAsk
    <3> QED BY <3>1, <3>2, <3>3, <3>5
  <2>2. CASE (Goto(o, "semantic") \/ Goto(o, "retrieve")) /\ UNCHANGED out
    BY <2>2 DEF Goto, TypeInv, TypeOK, Reused
  <2>3. CASE LookupExact(o)
    <3>1. \A e \in GetExact(cache, input[o].tenant, KeyOf(input[o], chosen[o])) :
             /\ e \in cache /\ e.tenant = input[o].tenant
             /\ e.key.fp = Fingerprint(input[o], chosen[o])
             /\ e.key.query = Norm[input[o].query]
      BY DEF GetExact, KeyOf
    <3> QED BY <2>1, <2>2, <2>3, <3>1 DEF LookupExact
  <2>4. CASE LookupSemantic(o)
    BY <2>1, <2>2, <2>4 DEF LookupSemantic, SearchSemantic
  <2> QED BY <1>2, <2>3, <2>4
<1>3. ASSUME NEW o \in Requests, Step(o) PROVE P(o)'
  <2>1. ASSUME ~(LookupExact(o) \/ LookupSemantic(o)) PROVE pc'[o] # "served"
    <3>1. CASE Begin(o)
      BY <3>1 DEF Begin, Goto, TypeInv, TypeOK
    <3>2. CASE Retrieve(o) \/ PrepareFails(o) \/ Store(o) \/ GenerateFails(o) \/ Cancel(o)
      BY <3>2 DEF Retrieve, PrepareFails, Store, GenerateFails, Cancel, Goto, TypeInv, TypeOK
    <3>3. CASE Assemble(o)
      BY <3>3 DEF Assemble, Goto, TypeInv, TypeOK
    <3>4. CASE Generate(o) \/ Finish(o)
      BY <3>4 DEF Generate, Finish, WriteBack, Goto, TypeInv, TypeOK
    <3> QED BY <1>3, <2>1, <3>1, <3>2, <3>3, <3>4 DEF Step, Progress
  <2> QED BY <1>2, <2>1 DEF Reused
<1>4. ASSUME NEW r \in Requests, Step(r), NEW o \in Requests \ {r} PROVE P(o)'
  BY <1>1, <1>4, OthersUnchanged DEF TypeInv
<1>5. ASSUME Remember \/ Expire \/ UNCHANGED vars, NEW o \in Requests PROVE P(o)'
  BY <1>1, <1>5 DEF Remember, Expire, vars
<1>6. \A o \in Requests : P(o)'
  BY <1>3, <1>4, <1>5 DEF Next, Step
<1> QED BY <1>6 DEF ReusedWasCached, ReuseMatchesRequest

LEMMA BundleStep ==
    ASSUME TypeInv, PromptInScope, TextIsOwn, BundleMatchesPrompt, [Next]_vars
    PROVE  BundleMatchesPrompt'
<1> DEFINE P(o) ==
      /\ bundle[o] # NoBundle =>
           /\ bundle[o].kept = kept[o] /\ bundle[o].found = found[o]
           /\ bundle[o].output # NoText =>
                Answered(o) /\ out[o].terminal /\ bundle[o].output = out[o]
      /\ {"assembler", "replay"} \subseteq Wired =>
           /\ pc[o] \in {"invoke", "store", "stored", "done"} => bundle[o] # NoBundle
           /\ Answered(o) /\ out[o].terminal => bundle[o].output = out[o]
<1>1. ASSUME NEW o \in Requests, Step(o) PROVE P(o)'
  <2>0. P(o) /\ TypeOK
    BY DEF BundleMatchesPrompt, TypeInv
  <2>1. CASE \/ Begin(o) \/ LookupExact(o) \/ LookupSemantic(o) \/ Retrieve(o) \/ PrepareFails(o)
    <3>1. /\ pc[o] \in {"new", "exact", "semantic", "retrieve", "assemble"} /\ bundle' = bundle
          /\ pc'[o] \in {"denied", "exact", "semantic", "retrieve", "assemble", "served", "failed"}
      BY <2>0, <2>1 DEF Begin, LookupExact, LookupSemantic, ServeHit, Retrieve, PrepareFails,
                        Goto, TypeOK
    <3>2. bundle'[o] = NoBundle
      BY <3>1 DEF PromptInScope
    <3> QED BY <3>1, <3>2 DEF Answered
  <2>2. CASE GenerateFails(o) \/ Cancel(o) \/ Store(o)
    <3>1. /\ ~Answered(o) /\ ~Answered(o)' /\ UNCHANGED <<bundle, kept, found>>
          /\ pc'[o] = "stored" => pc[o] = "store"
          /\ pc'[o] \in {"failed", "cancelled", "stored"}
      BY <2>0, <2>2 DEF GenerateFails, Cancel, Store, Goto, TypeOK, Answered, Awaiting
    <3> QED BY <2>0, <3>1
  <2>3. CASE Assemble(o)
    <3>1. PICK K \in SUBSET found[o] :
            /\ kept' = [kept EXCEPT ![o] = K]
            /\ bundle' = IF {"assembler", "replay"} \subseteq Wired
                           THEN [bundle EXCEPT ![o] = Captured(o, K)]
                           ELSE bundle
      BY <2>3 DEF Assemble
    <3>2. bundle[o] = NoBundle /\ ~Answered(o)' /\ found' = found
      BY <2>0, <2>3 DEF PromptInScope, Assemble, Goto, TypeOK, Answered
    <3>3. Captured(o, K) \in Bundle
      BY <2>3 DEF Captured, Bundle, TypeInv, TypeOK, Started, Assemble
    <3> QED BY <2>0, <3>1, <3>2, <3>3, Distinct DEF TypeOK, Captured
  <2>4. ASSUME NEW text \in Text, NEW m, WriteBack(o, text, m), UNCHANGED <<found, kept>>,
               pc[o] \in {"invoke", "stored"}
        PROVE  P(o)'
    <3>1. /\ out'[o] = text /\ Answered(o)' /\ pc'[o] = "done" /\ ~Answered(o)
      BY <2>0, <2>4 DEF WriteBack, Goto, TypeOK, Answered
    <3>2. CASE "replay" \in Wired /\ text.terminal /\ bundle[o] # NoBundle
      <4>1. bundle[o] \in Bundle /\ bundle'[o] = [bundle[o] EXCEPT !.output = text]
        BY <2>0, <2>4, <3>2 DEF TypeOK, WriteBack
      <4>2. [bundle[o] EXCEPT !.output = text] \in Bundle
        BY <4>1, AttachType
      <4>3. /\ bundle'[o] # NoBundle /\ bundle'[o].output = text
            /\ bundle'[o].kept = bundle[o].kept /\ bundle'[o].found = bundle[o].found
        BY <4>1, <4>2, Distinct DEF Bundle
      <4> QED BY <2>0, <2>4, <3>1, <3>2, <4>3
    <3>3. CASE ~("replay" \in Wired /\ text.terminal /\ bundle[o] # NoBundle)
      BY <2>0, <2>4, <3>1, <3>3 DEF WriteBack
    <3> QED BY <3>2, <3>3
  <2>5. CASE Generate(o)
    <3>1. PICK m \in Models, fin \in BOOLEAN, name \in Names :
            LET text == [by |-> o, model |-> m, name |-> name, facts |-> found[o],
                         kept |-> kept[o], terminal |-> fin]
            IN  IF Cacheable(text)
                  THEN Goto(o, "store") /\ UNCHANGED <<bundle, ledger, out>>
                  ELSE WriteBack(o, text, m)
      BY <2>5, InputsAssumption, WiringAssumption DEF Generate, TypeInv, Started, Input
    <3> DEFINE text == [by |-> o, model |-> m, name |-> name, facts |-> found[o],
                        kept |-> kept[o], terminal |-> fin]
    <3>2. text \in Text
      BY DEF Text, TypeInv, TypeOK
    <3>3. pc[o] = "invoke" /\ UNCHANGED <<found, kept>>
      BY <2>5 DEF Generate
    <3>4. CASE Cacheable(text)
      BY <2>0, <3>1, <3>3, <3>4 DEF Goto, TypeOK, Answered
    <3> QED BY <2>4, <3>1, <3>2, <3>3, <3>4
  <2>6. CASE Finish(o)
    BY <2>4, <2>6 DEF Finish, TypeInv, Started
  <2> QED BY <1>1, <2>1, <2>2, <2>3, <2>5, <2>6 DEF Step, Progress
<1>2. ASSUME NEW r \in Requests, Step(r), NEW o \in Requests \ {r} PROVE P(o)'
  BY <1>2, OthersUnchanged DEF BundleMatchesPrompt, TypeInv, Answered
<1>3. ASSUME Remember \/ Expire \/ UNCHANGED vars, NEW o \in Requests PROVE P(o)'
  BY <1>3 DEF Remember, Expire, vars, BundleMatchesPrompt, Answered
<1> QED BY <1>1, <1>2, <1>3 DEF Next, Step, BundleMatchesPrompt

\* Without a router a bundle names the model the request ends with.
ModelStands ==
    "router" \notin Wired =>
        \A r \in Requests : bundle[r] # NoBundle => bundle[r].model = chosen[r]

LEMMA ModelStep ==
    ASSUME TypeInv, PromptInScope, ModelStands, [Next]_vars
    PROVE  ModelStands'
<1> DEFINE P(o) == bundle[o] # NoBundle => bundle[o].model = chosen[o]
<1> SUFFICES ASSUME "router" \notin Wired PROVE \A o \in Requests : P(o)'
  BY DEF ModelStands
<1>0. TypeOK /\ \A o \in Requests : P(o)
  BY DEF TypeInv, ModelStands
<1>1. ASSUME NEW o \in Requests, Step(o) PROVE P(o)'
  <2>1. CASE Begin(o)
    <3>1. bundle'[o] = NoBundle
      BY <2>1 DEF PromptInScope, Begin
    <3> QED BY <3>1
  <2>2. CASE LookupExact(o) \/ LookupSemantic(o) \/ Retrieve(o) \/ PrepareFails(o)
             \/ GenerateFails(o) \/ Store(o) \/ Cancel(o)
    BY <1>0, <2>2 DEF LookupExact, LookupSemantic, Retrieve, PrepareFails, GenerateFails, Store, Cancel
  <2>3. CASE Assemble(o)
    <3>1. chosen' = chosen
      BY <2>3 DEF Assemble
    <3>2. bundle'[o] = bundle[o] \/ bundle'[o].model = chosen[o]
      BY <1>0, <2>3 DEF Assemble, Captured, TypeOK
    <3> QED BY <1>0, <3>1, <3>2
  <2>4. ASSUME NEW text, NEW m, WriteBack(o, text, m)
        PROVE  bundle'[o] # NoBundle =>
                 bundle[o] # NoBundle /\ bundle'[o].model = bundle[o].model
    <3>1. CASE bundle[o] = NoBundle
      BY <2>4, <3>1 DEF WriteBack
    <3>2. CASE bundle[o] # NoBundle
      <4>1. bundle[o] \in Bundle
        BY <1>0, <3>2 DEF TypeOK
      <4>2. bundle'[o] \in {bundle[o], [bundle[o] EXCEPT !.output = text]}
        BY <1>0, <2>4 DEF WriteBack, TypeOK
      <4> QED BY <3>2, <4>1, <4>2 DEF Bundle
    <3> QED BY <3>1, <3>2
  <2>5. CASE Generate(o)
    <3>1. chosen'[o] = chosen[o]
      BY <1>0, <2>5 DEF Generate, TypeOK
    <3>2. bundle' = bundle \/ \E text, m : WriteBack(o, text, m)
      BY <2>5 DEF Generate
    <3> QED BY <1>0, <2>4, <3>1, <3>2
  <2>6. CASE Finish(o)
    BY <1>0, <2>4, <2>6 DEF Finish
  <2> QED BY <1>1, <2>1, <2>2, <2>3, <2>5, <2>6 DEF Step, Progress
<1>2. ASSUME NEW r \in Requests, Step(r), NEW o \in Requests \ {r} PROVE P(o)'
  BY <1>0, <1>2, OthersUnchanged
<1>3. CASE Remember \/ Expire \/ UNCHANGED vars
  BY <1>0, <1>3 DEF Remember, Expire, vars
<1> QED BY <1>1, <1>2, <1>3 DEF Next, Step

\* Without a router a request is answered by the model it asks for, so a text in
\* the cache is of the model its own request asked for.
AskedModel ==
    "router" \notin Wired =>
        /\ \A r \in Requests : pc[r] # "new" => chosen[r] = input[r].model
        /\ \A e \in cache : e.text.model = input[e.text.by].model

LEMMA AskedInit == Init => AskedModel
BY DEF Init, AskedModel

LEMMA AskedStep ==
    ASSUME TypeInv, TextIsOwn, EntryMatchesText, AskedModel, [Next]_vars
    PROVE  AskedModel'
<1> SUFFICES ASSUME "router" \notin Wired
             PROVE  /\ \A r \in Requests : pc'[r] # "new" => chosen'[r] = input'[r].model
                    /\ \A e \in cache' : e.text.model = input'[e.text.by].model
  BY DEF AskedModel
<1>0. /\ TypeOK /\ \A r \in Requests : pc[r] # "new" => chosen[r] = input[r].model
      /\ \A e \in cache : /\ e.text.model = input[e.text.by].model
                         /\ e.text.by \in Requests /\ pc[e.text.by] # "new"
  BY DEF TypeInv, TypeOK, Entry, Text, AskedModel, EntryMatchesText
<1>1. ASSUME NEW r \in Requests, Step(r) PROVE pc'[r] # "new" => chosen'[r] = input'[r].model
  <2>1. CASE Begin(r)
    BY <1>0, <2>1 DEF Begin, TypeOK
  <2>2. CASE Generate(r)
    <3>1. chosen'[r] = chosen[r] /\ input' = input /\ pc[r] # "new"
      BY <1>0, <2>2 DEF Generate, TypeOK
    <3> QED BY <1>0, <3>1
  <2>3. CASE Assemble(r)
    BY <1>0, <2>3 DEF Assemble
  <2>4. CASE LookupExact(r) \/ LookupSemantic(r) \/ Retrieve(r) \/ PrepareFails(r)
             \/ GenerateFails(r) \/ Store(r) \/ Finish(r) \/ Cancel(r)
    BY <1>0, <2>4 DEF LookupExact, LookupSemantic, Retrieve, PrepareFails, GenerateFails, Store,
                      Finish, Cancel, Awaiting
  <2> QED BY <1>1, <2>1, <2>2, <2>3, <2>4 DEF Step, Progress
<1>2. ASSUME NEW r \in Requests, Step(r), NEW o \in Requests \ {r}
      PROVE  pc'[o] # "new" => chosen'[o] = input'[o].model
  BY <1>0, <1>2, OthersUnchanged
<1>3. CASE Remember \/ Expire \/ UNCHANGED vars
  BY <1>0, <1>3 DEF Remember, Expire, vars
<1>4. ASSUME NEW e \in cache' PROVE e.text.model = input'[e.text.by].model
  <2>1. CASE e \in cache
    BY <1>0, <2>1, Stable
  <2>2. CASE e \notin cache
    <3>1. PICK r \in Requests : Store(r)
      BY <1>4, <2>2 DEF Next, vars, Begin, Progress, LookupExact, LookupSemantic, Retrieve,
            PrepareFails, Assemble, Generate, GenerateFails, Finish, Cancel, Remember, Expire
    <3>2. e.text = resp[r]
      BY <1>4, <2>2, <3>1 DEF Store, PutEntry
    <3>3. resp[r].by = r /\ resp[r].model = chosen[r] /\ pc[r] # "new" /\ input' = input
      BY <3>1 DEF Store, TextIsOwn, OwnText
    <3> QED BY <1>0, <3>2, <3>3
  <2> QED BY <2>1, <2>2
<1> QED BY <1>1, <1>2, <1>3, <1>4 DEF Next, Step

\* Percentages have a largest.
LEMMA Largest ==
    ASSUME NEW S \in SUBSET (0 .. 100), S # {}
    PROVE  \E m \in S : \A n \in S : m >= n
<1> DEFINE T == {100 - n : n \in S}
<1>1. \A n \in S : n \in Nat /\ n <= 100 /\ 100 - n \in Nat
  OBVIOUS
<1>2. T \subseteq Nat /\ T # {}
  BY <1>1
<1>3. PICK x \in T : \A y \in T : ~ (<<y, x>> \in OpToRel(<, Nat))
  BY <1>2, NatLessThanWellFounded, WFMin
<1>4. \A y \in T : ~ (y < x)
  BY <1>2, <1>3 DEF OpToRel
<1>5. PICK m \in S : x = 100 - m
  OBVIOUS
<1>6. \A n \in S : 100 - n \in T
  OBVIOUS
<1> HIDE DEF T
<1> QED BY <1>4, <1>5, <1>6

\* The semantic tier has an answer wherever an entry is near enough.
LEMMA NearIsFound ==
    ASSUME TypeOK, NEW e \in cache, NEW q \in Queries,
           Similarity[Norm[q], e.key.query] >= Threshold
    PROVE  SearchSemantic(cache, e.tenant, e.key.fp, q) # {}
<1> DEFINE near == {f \in cache : /\ f.tenant = e.tenant /\ f.key.fp = e.key.fp
                                  /\ Similarity[Norm[q], f.key.query] >= Threshold}
           S == {Similarity[Norm[q], f.key.query] : f \in near}
<1>1. \A f \in cache : f.key.query \in Queries
  BY DEF TypeOK, Entry
<1>2. S \in SUBSET (0 .. 100) /\ S # {}
  BY <1>1, NormAssumption, SimilarityAssumption
<1>3. PICK m \in S : \A n \in S : m >= n
  <2> HIDE DEF S
  <2> QED BY <1>2, Largest
<1>4. PICK x \in near : m = Similarity[Norm[q], x.key.query]
  OBVIOUS
<1>5. \A y \in near : Similarity[Norm[q], x.key.query] >= Similarity[Norm[q], y.key.query]
  BY <1>3, <1>4
<1>6. x \in SearchSemantic(cache, e.tenant, e.key.fp, q)
  BY <1>5 DEF SearchSemantic
<1> QED BY <1>6

\* Only its own look at the similar tier takes a request on to retrieval from there.
LEMMA MissIsLookup ==
    ASSUME TypeOK, [Next]_vars, NEW r \in Requests, pc[r] = "semantic", pc'[r] = "retrieve"
    PROVE  LookupSemantic(r)
<1>1. PICK o \in Requests : Step(o)
  BY DEF Next, Step, Remember, Expire, vars
<1>2. o = r
  BY <1>1, OthersUnchanged
<1> QED
  BY <1>1, <1>2 DEF Step, Progress, Begin, LookupExact, Retrieve, PrepareFails, Assemble, Generate,
                    GenerateFails, Store, Finish, Cancel, Goto, TypeOK

\* A lookup that misses has no text before it that was generated for its request.
LEMMA RepeatIsServed ==
    ASSUME TypeInv, EntryMatchesText, AskedModel, "router" \notin Wired, ~CacheMayFail,
           NEW r \in Requests, LookupSemantic(r), pc'[r] = "retrieve",
           FindsItself(input[r].query),
           NEW e \in cache, input[e.text.by] = input[r]
    PROVE  FALSE
<1> DEFINE in == input[r]
<1>1. pc[r] = "semantic" /\ in \in Inputs /\ chosen[r] = in.model
  BY DEF LookupSemantic, TypeInv, Started, AskedModel
<1>2. in.query \in Queries
  BY <1>1, InputsAssumption DEF Input
<1>3. e.tenant = in.tenant /\ e.key = KeyOf(in, chosen[r])
  BY <1>1 DEF EntryMatchesText, AskedModel
<1>4. e.key.fp = Fingerprint(in, chosen[r]) /\ e.key.query = Norm[in.query]
  BY <1>3 DEF KeyOf
<1>5. SearchSemantic(cache, in.tenant, Fingerprint(in, chosen[r]), in.query) # {}
  BY <1>2, <1>3, <1>4, NearIsFound DEF TypeInv, FindsItself
<1>6. pc'[r] # "retrieve"
  BY <1>5 DEF LookupSemantic, ServeHit, Goto, TypeInv, TypeOK
<1> QED BY <1>6

\* The ledger is empty if there is none, and matches the deliveries otherwise.
LedgerInv ==
    /\ "cost" \notin Wired => \A t \in Tenants : ledger[t] = <<>>
    /\ LedgerMatchesDeliveries

LEMMA LedgerType ==
    ASSUME TypeOK, NEW t \in Tenants, NEW i \in 1 .. Len(ledger[t])
    PROVE  ledger[t][i] \in Bill /\ ledger[t][i].by \in Requests
<1>1. ledger[t] \in Seq(Bill)
  BY DEF TypeOK
<1>2. ledger[t][i] \in Bill
  BY <1>1
<1> QED BY <1>2 DEF Bill

\* A step that returns no generated text leaves the ledger as it was.
LEMMA LedgerUnchanged ==
    ASSUME TypeInv, LedgerInv, [Next]_vars, ledger' = ledger,
           \A r \in Requests : pc'[r] = "done" => pc[r] = "done"
    PROVE  LedgerInv'
<1>1. \A r \in Requests : pc[r] = "done" =>
         pc'[r] = "done" /\ input'[r] = input[r] /\ out'[r] = out[r]
  BY Stable DEF TypeInv, Answered
<1>2. SUFFICES ASSUME "cost" \in Wired PROVE LedgerMatchesDeliveries'
  BY DEF LedgerInv, LedgerMatchesDeliveries
<1>3. ASSUME NEW t \in Tenants, NEW i \in 1 .. Len(ledger[t])
      PROVE  Due(t, ledger[t][i])'
  <2>1. ledger[t][i].by \in Requests
    BY LedgerType DEF TypeInv
  <2>2. Due(t, ledger[t][i])
    BY <1>2 DEF LedgerInv, LedgerMatchesDeliveries
  <2> QED BY <1>1, <2>1, <2>2 DEF Due, Answered
<1>4. ASSUME NEW r \in Requests, pc'[r] = "done", out'[r].terminal
      PROVE  \E i \in 1 .. Len(ledger[input'[r].tenant]) : ledger[input'[r].tenant][i].by = r
  <2>1. Answered(r) /\ out[r].terminal /\ input'[r] = input[r]
    BY <1>1, <1>4 DEF Answered
  <2> QED BY <1>2, <2>1 DEF LedgerInv, LedgerMatchesDeliveries
<1>5. \A t \in Tenants : \A i, j \in 1 .. Len(ledger[t]) :
         ledger[t][i].by = ledger[t][j].by => i = j
  BY <1>2 DEF LedgerInv, LedgerMatchesDeliveries
<1> QED BY <1>3, <1>4, <1>5 DEF LedgerMatchesDeliveries, Answered

\* A write-back appends the one record of its request, if it is committed.
LEMMA LedgerWriteBack ==
    ASSUME TypeInv, LedgerInv, [Next]_vars, NEW r \in Requests, NEW text \in Text,
           pc[r] \in {"invoke", "stored"}, text.by = r, WriteBack(r, text, text.model), input' = input
    PROVE  LedgerInv'
<1> DEFINE t0 == input[r].tenant
           rec == [by |-> r, model |-> text.model]
           D(t, b) == /\ pc'[b.by] = "done" /\ out'[b.by].terminal
                      /\ input[b.by].tenant = t /\ out'[b.by].model = b.model
<1>1. /\ \A o \in Requests : pc[o] = "done" => pc'[o] = "done" /\ out'[o] = out[o]
      /\ \A o \in Requests \ {r} : pc'[o] = "done" => pc[o] = "done"
  BY Stable DEF TypeInv, TypeOK, Answered, WriteBack, Goto
<1>2. pc'[r] = "done" /\ out'[r] = text /\ pc[r] # "done"
  BY DEF WriteBack, Goto, TypeInv, TypeOK
<1>3. t0 \in Tenants
  BY InputsAssumption DEF TypeInv, Started, Input
<1>4. CASE "cost" \notin Wired
  BY <1>4 DEF LedgerInv, LedgerMatchesDeliveries, WriteBack
<1>5. ASSUME "cost" \in Wired, NEW t \in Tenants, NEW i \in 1 .. Len(ledger[t])
      PROVE  D(t, ledger[t][i]) /\ ledger[t][i].by # r
  <2>1. Due(t, ledger[t][i]) /\ ledger[t][i].by \in Requests
    BY <1>5, LedgerType DEF LedgerInv, LedgerMatchesDeliveries, TypeInv
  <2> QED BY <1>1, <1>2, <2>1 DEF Due, Answered
<1>6. ASSUME "cost" \in Wired, NEW o \in Requests, o # r, pc'[o] = "done", out'[o].terminal
      PROVE  \E i \in 1 .. Len(ledger[input[o].tenant]) : ledger[input[o].tenant][i].by = o
  <2>1. Answered(o) /\ out[o].terminal
    BY <1>1, <1>6 DEF Answered
  <2> QED BY <1>6, <2>1 DEF LedgerInv, LedgerMatchesDeliveries
<1>7. CASE "cost" \in Wired /\ ~text.terminal
  <2>1. ledger' = ledger
    BY <1>7 DEF WriteBack
  <2>2. \A t \in Tenants : \A i, j \in 1 .. Len(ledger[t]) :
           ledger[t][i].by = ledger[t][j].by => i = j
    BY <1>7 DEF LedgerInv, LedgerMatchesDeliveries
  <2>3. \A t \in Tenants : \A i \in 1 .. Len(ledger[t]) : Due(t, ledger[t][i])'
    BY <1>5, <1>7, <2>1 DEF Due, Answered
  <2>4. \A o \in Requests : pc'[o] = "done" /\ out'[o].terminal =>
          \E i \in 1 .. Len(ledger[input[o].tenant]) : ledger[input[o].tenant][i].by = o
    BY <1>2, <1>6, <1>7
  <2> QED BY <1>7, <2>1, <2>2, <2>3, <2>4 DEF LedgerInv, LedgerMatchesDeliveries, Answered
<1>8. CASE "cost" \in Wired /\ text.terminal
  <2> DEFINE n == Len(ledger[t0])
  <2>1. n \in Nat /\ ledger[t0] \in Seq(Bill)
    BY <1>3 DEF TypeInv, TypeOK
  <2>2. /\ ledger'[t0] = Append(ledger[t0], rec)
        /\ \A t \in Tenants \ {t0} : ledger'[t] = ledger[t]
    BY <1>3, <1>8 DEF WriteBack, TypeInv, TypeOK
  <2>3. /\ Len(ledger'[t0]) = n + 1
        /\ \A i \in 1 .. n : ledger'[t0][i] = ledger[t0][i]
        /\ ledger'[t0][n + 1] = rec
    BY <2>1, <2>2
  <2>4. ASSUME NEW t \in Tenants, NEW i \in 1 .. Len(ledger'[t])
        PROVE  \/ i \in 1 .. Len(ledger[t]) /\ ledger'[t][i] = ledger[t][i]
               \/ t = t0 /\ i = n + 1 /\ ledger'[t][i] = rec
    <3>1. CASE t = t0
      <4>1. i \in 1 .. n \/ i = n + 1
        BY <2>1, <2>3, <3>1
      <4> QED BY <2>3, <3>1, <4>1
    <3>2. CASE t # t0
      BY <2>2, <3>2
    <3> QED BY <3>1, <3>2
  <2>5. ASSUME NEW t \in Tenants, NEW i \in 1 .. Len(ledger'[t])
        PROVE  Due(t, ledger[t][i])'
    <3>1. D(t, ledger'[t][i])
      <4>1. CASE i \in 1 .. Len(ledger[t]) /\ ledger'[t][i] = ledger[t][i]
        BY <1>5, <1>8, <4>1
      <4>2. CASE t = t0 /\ ledger'[t][i] = rec
        BY <1>2, <1>8, <4>2
      <4> QED BY <2>4, <4>1, <4>2
    <3> QED BY <3>1 DEF Due, Answered
  <2>6. ASSUME NEW t \in Tenants, NEW i \in 1 .. Len(ledger'[t]), NEW j \in 1 .. Len(ledger'[t]),
               ledger'[t][i].by = ledger'[t][j].by
        PROVE  i = j
    <3>1. \A k \in 1 .. Len(ledger[t]) : ledger[t][k].by # r
      BY <1>5, <1>8
    <3>2. CASE i \in 1 .. Len(ledger[t]) /\ j \in 1 .. Len(ledger[t])
      <4>1. ledger'[t][i] = ledger[t][i] /\ ledger'[t][j] = ledger[t][j]
        BY <2>2, <2>3, <3>2
      <4> QED BY <1>8, <2>6, <3>2, <4>1 DEF LedgerInv, LedgerMatchesDeliveries
    <3> QED BY <2>4, <2>6, <3>1, <3>2
  <2>7. ASSUME NEW o \in Requests, pc'[o] = "done", out'[o].terminal
        PROVE  \E i \in 1 .. Len(ledger'[input[o].tenant]) : ledger'[input[o].tenant][i].by = o
    <3>1. CASE o = r
      <4>1. n + 1 \in 1 .. Len(ledger'[t0])
        BY <2>1, <2>3
      <4> QED BY <2>3, <3>1, <4>1
    <3>2. CASE o # r
      <4>1. PICK i \in 1 .. Len(ledger[input[o].tenant]) : ledger[input[o].tenant][i].by = o
        BY <1>6, <1>8, <2>7, <3>2
      <4>2. input[o].tenant \in Tenants
        BY <1>1, <2>7, <3>2, InputsAssumption DEF TypeInv, Started, Input
      <4>3. i \in 1 .. Len(ledger'[input[o].tenant]) /\ ledger'[input[o].tenant][i].by = o
        <5>1. CASE input[o].tenant = t0
          <6>1. i \in 1 .. n /\ ledger[t0][i].by = o
            BY <4>1, <5>1
          <6>2. i \in 1 .. n + 1
            BY <2>1, <6>1
          <6>3. ledger'[t0][i].by = o /\ Len(ledger'[t0]) = n + 1
            BY <2>3, <6>1
          <6> QED BY <5>1, <6>2, <6>3
        <5>2. CASE input[o].tenant # t0
          BY <2>2, <4>1, <4>2, <5>2
        <5> QED BY <5>1, <5>2
      <4> QED BY <4>3
    <3> QED BY <3>1, <3>2
  <2>8. \A t \in Tenants : \A i, j \in 1 .. Len(ledger'[t]) :
           ledger'[t][i].by = ledger'[t][j].by => i = j
    BY <2>6
  <2> QED BY <1>8, <2>5, <2>7, <2>8 DEF LedgerInv, LedgerMatchesDeliveries, Answered
<1> QED BY <1>4, <1>7, <1>8

LEMMA LedgerStep ==
    ASSUME TypeInv, TextIsOwn, LedgerInv, [Next]_vars PROVE LedgerInv'
<1>1. ASSUME NEW r \in Requests, Generate(r) PROVE LedgerInv'
  <2>1. PICK m \in Models, fin \in BOOLEAN, name \in Names :
          LET text == [by |-> r, model |-> m, name |-> name, facts |-> found[r],
                       kept |-> kept[r], terminal |-> fin]
          IN  IF Cacheable(text)
                THEN Goto(r, "store") /\ UNCHANGED <<bundle, ledger, out>>
                ELSE WriteBack(r, text, m)
    BY <1>1, InputsAssumption, WiringAssumption DEF Generate, TypeInv, Started, Input
  <2> DEFINE text == [by |-> r, model |-> m, name |-> name, facts |-> found[r],
                      kept |-> kept[r], terminal |-> fin]
  <2>2. text \in Text
    BY DEF Text, TypeInv, TypeOK
  <2>3. pc[r] = "invoke" /\ input' = input
    BY <1>1 DEF Generate
  <2>4. CASE Cacheable(text)
    BY <2>1, <2>3, <2>4, LedgerUnchanged DEF Goto, TypeInv, TypeOK
  <2>5. CASE ~Cacheable(text)
    BY <2>1, <2>2, <2>3, <2>5, LedgerWriteBack
  <2> QED BY <2>4, <2>5
<1>2. ASSUME NEW r \in Requests, Finish(r) PROVE LedgerInv'
  BY <1>2, LedgerWriteBack DEF Finish, TypeInv, Started, TextIsOwn, OwnText
<1>3. ASSUME NEW r \in Requests, Step(r), ~Generate(r), ~Finish(r) PROVE LedgerInv'
  <2>1. ledger' = ledger
    BY <1>3 DEF Step, Progress, Begin, LookupExact, LookupSemantic, Retrieve, PrepareFails,
                Assemble, GenerateFails, Store, Cancel
  <2>2. pc'[r] # "done"
    <3>1. CASE Begin(r) \/ Retrieve(r) \/ PrepareFails(r) \/ GenerateFails(r) \/ Store(r) \/ Cancel(r)
      BY <3>1 DEF Begin, Retrieve, PrepareFails, GenerateFails, Store, Cancel, Goto, TypeInv, TypeOK
    <3>2. CASE LookupExact(r) \/ LookupSemantic(r) \/ Assemble(r)
      BY <3>2 DEF LookupExact, LookupSemantic, ServeHit, Assemble, Goto, TypeInv, TypeOK
    <3> QED BY <1>3, <3>1, <3>2 DEF Step, Progress
  <2>3. \A o \in Requests : pc'[o] = "done" => pc[o] = "done"
    BY <1>3, <2>2, OthersUnchanged DEF TypeInv
  <2> QED BY <2>1, <2>3, LedgerUnchanged
<1>4. CASE Remember \/ Expire \/ UNCHANGED vars
  BY <1>4, LedgerUnchanged DEF Remember, Expire, vars
<1> QED BY <1>1, <1>2, <1>3, <1>4 DEF Next, Step

-----------------------------------------------------------------------------
(* The invariant, and what it gives the callers.                           *)

Core == /\ TypeInv /\ PromptInScope /\ TextIsOwn
        /\ EntryMatchesText /\ CacheHoldsCommittedPublicText
        /\ ReusedWasCached /\ ReuseMatchesRequest
        /\ BundleMatchesPrompt /\ LedgerInv

\* A charge is for a delivered, finished text, and the bundle has that text.
LEMMA CoreGivesReplay == Core => BilledIsReplayable
<1> SUFFICES ASSUME Core PROVE BilledIsReplayable
  OBVIOUS
<1>1. ASSUME NEW r \in Requests, bundle[r] # NoBundle, bundle[r].output # NoText
      PROVE  /\ bundle[r].output = out[r] /\ out[r].terminal
             /\ bundle[r].kept = out[r].kept /\ bundle[r].found = out[r].facts
  BY <1>1 DEF Core, BundleMatchesPrompt, TextIsOwn, OwnText
<1>2. ASSUME {"assembler", "replay"} \subseteq Wired,
             NEW t \in Tenants, NEW i \in 1 .. Len(ledger[t])
      PROVE  bundle[ledger[t][i].by] # NoBundle /\ bundle[ledger[t][i].by].output # NoText
  <2> DEFINE r == ledger[t][i].by
  <2>1. "cost" \in Wired
    BY <1>2 DEF Core, LedgerInv
  <2>2. r \in Requests /\ Due(t, ledger[t][i])
    BY <2>1, LedgerType DEF Core, TypeInv, LedgerInv, LedgerMatchesDeliveries
  <2>3. Answered(r) /\ out[r].terminal /\ out[r] \in Text
    BY <2>2 DEF Due, Core, TypeInv, Started, Delivered
  <2> QED BY <1>2, <2>2, <2>3, Distinct DEF Core, BundleMatchesPrompt, Answered
<1> QED BY <1>1, <1>2 DEF BilledIsReplayable

LEMMA CoreGivesIInv == Core => IInv
BY CoreGivesReplay DEF Core, IInv, TypeInv, LedgerInv

LEMMA CoreInit == Init => Core
<1> SUFFICES ASSUME Init PROVE Core
  OBVIOUS
<1>1. \A r \in Requests : /\ pc[r] = "new" /\ found[r] = {} /\ kept[r] = {}
                         /\ bundle[r] = NoBundle
  BY DEF Init
<1>2. cache = {} /\ \A t \in Tenants : ledger[t] = <<>>
  BY DEF Init
<1>3. PromptInScope /\ TextIsOwn /\ ReusedWasCached /\ ReuseMatchesRequest /\ BundleMatchesPrompt
  BY <1>1 DEF PromptInScope, TextIsOwn, ReusedWasCached, ReuseMatchesRequest,
              BundleMatchesPrompt, Answered, Reused
<1>4. EntryMatchesText /\ CacheHoldsCommittedPublicText
  BY <1>2 DEF EntryMatchesText, CacheHoldsCommittedPublicText
<1>5. LedgerInv
  BY <1>1, <1>2 DEF LedgerInv, LedgerMatchesDeliveries, Answered
<1> QED BY <1>3, <1>4, <1>5, TypeInit DEF Core

LEMMA CoreStep == Core /\ [Next]_vars => Core'
BY TypeStep, PromptStep, TextStep, EntryStep, ReuseStep, BundleStep, LedgerStep DEF Core

\* The strengthened invariant of a request's whole course: each await finds the
\* cache, the bundles, the ledger and the texts in flight in agreement.
THEOREM Safety == Spec => []IInv
<1>1. Spec => []Core
  BY CoreInit, CoreStep, PTL DEF Spec
<1> QED BY <1>1, CoreGivesIInv, PTL

\* Whatever a caller receives, generated or reused, is grounded only in memories
\* of the caller's own tenant and namespace.
THEOREM Isolation == Spec => []GroundingStaysInScope
<1>1. IInv => GroundingStaysInScope
  BY DEF IInv, PromptInScope, TextIsOwn, OwnText, ReusedWasCached,
         GroundingStaysInScope, Delivered, Answered
<1> QED BY <1>1, Safety, PTL

\* Only texts with a finish_reason and without injected memory are ever cached.
THEOREM CacheSafety == Spec => []CacheHoldsCommittedPublicText
BY Safety, PTL DEF IInv

\* A cache hit is for the same scope, system prompt and model, and for an equal
\* or similar prompt.
THEOREM ReuseSafety == Spec => []ReuseMatchesRequest
BY Safety, PTL DEF IInv

\* Exactly the delivered, finished generations are billed, each once, to the
\* tenant that asked.
THEOREM BillingSafety == Spec => []LedgerMatchesDeliveries
BY Safety, PTL DEF IInv

\* Every bill can be replayed: the bundle exists and holds the delivered text.
THEOREM ReplaySafety == Spec => []BilledIsReplayable
BY Safety, PTL DEF IInv

\* Without a router and with a cache that does not fail, a request that asks what
\* is cached for the very same request is served from the cache.
THEOREM RepeatsAreServed ==
    ASSUME "router" \notin Wired, ~CacheMayFail
    PROVE  Spec => IdenticalQueryIsServed
<1>1. Core /\ AskedModel /\ [Next]_vars => AskedModel'
  BY AskedStep DEF Core
<1>2. ASSUME Core, AskedModel, [Next]_vars, NEW r \in Requests,
             pc[r] = "semantic", pc'[r] = "retrieve", FindsItself(input[r].query),
             NEW e \in cache, input[e.text.by] = input[r]
      PROVE  FALSE
  <2>1. LookupSemantic(r)
    BY <1>2, MissIsLookup DEF Core, TypeInv
  <2> QED BY <1>2, <2>1, RepeatIsServed DEF Core
<1>3. Core /\ AskedModel /\ [Next]_vars => [\A r \in Requests :
          pc[r] = "semantic" /\ pc'[r] = "retrieve" /\ FindsItself(input[r].query) =>
              ~ \E e \in cache : input[e.text.by] = input[r]]_vars
  BY <1>2
<1> QED BY <1>1, <1>3, AskedInit, CoreInit, CoreStep, PTL DEF Spec, IdenticalQueryIsServed

=============================================================================
