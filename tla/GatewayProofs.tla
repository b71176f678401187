---------------------------- MODULE GatewayProofs ----------------------------
(***************************************************************************)
(* Proofs about module Gateway for any requests, tenants, inputs, memories *)
(* and number of restarts: between two starts of the process its pipeline  *)
(* is an ordinary run of module Pipeline over the requests of that life, so*)
(* what PipelineProofs proves of a run holds of each life, and with it what*)
(* the read routes answer.                                                 *)
(***************************************************************************)
EXTENDS Gateway, PipelineProofs, FiniteSetTheorems

-----------------------------------------------------------------------------
(* The requests of this life of the process.                               *)

(* A request's variable as if the requests of earlier lives had not been.  *)
Unless(f, x) == [r \in Requests |-> IF r \in before THEN x ELSE f[r]]

PcNow     == Unless(pc, "new")
InputNow  == Unless(input, NoInput)
ChosenNow == Unless(chosen, "none")
FoundNow  == Unless(found, {})
KeptNow   == Unless(kept, {})
RespNow   == Unless(resp, NoText)
OutNow    == Unless(out, NoText)

Life == INSTANCE PipelineProofs WITH
    pc <- PcNow, input <- InputNow, chosen <- ChosenNow, found <- FoundNow,
    kept <- KeptNow, resp <- RespNow, out <- OutNow

(* What g shows of f at request r, before and after a step, is f.          *)
Moves(f, g, r) ==
    /\ g[r] = f[r]
    /\ \A v : f' = [f EXCEPT ![r] = v] => g' = [g EXCEPT ![r] = v]
    /\ f' = f => g' = g

Seen(r) ==
    /\ Moves(pc, PcNow, r) /\ Moves(input, InputNow, r) /\ Moves(chosen, ChosenNow, r)
    /\ Moves(found, FoundNow, r) /\ Moves(kept, KeptNow, r) /\ Moves(resp, RespNow, r)
    /\ Moves(out, OutNow, r)

LEMMA IsSeen ==
    ASSUME TypeOK, NEW r \in Requests \ before, before' = before
    PROVE  Seen(r)
  <1>1. Moves(pc, PcNow, r)
    BY DEF Moves, PcNow, Unless, TypeOK
  <1>2. Moves(input, InputNow, r)
    BY DEF Moves, InputNow, Unless, TypeOK
  <1>3. Moves(chosen, ChosenNow, r)
    BY DEF Moves, ChosenNow, Unless, TypeOK
  <1>4. Moves(found, FoundNow, r)
    BY DEF Moves, FoundNow, Unless, TypeOK
  <1>5. Moves(kept, KeptNow, r)
    BY DEF Moves, KeptNow, Unless, TypeOK
  <1>6. Moves(resp, RespNow, r)
    BY DEF Moves, RespNow, Unless, TypeOK
  <1>7. Moves(out, OutNow, r)
    BY DEF Moves, OutNow, Unless, TypeOK
  <1> QED
    BY <1>1, <1>2, <1>3, <1>4, <1>5, <1>6, <1>7 DEF Seen

(* So what the actions share does to this life what it does to the process.*)
LEMMA SameParts ==
    ASSUME NEW r \in Requests, Seen(r)
    PROVE  /\ PcNow[r] = pc[r] /\ InputNow[r] = input[r] /\ ChosenNow[r] = chosen[r]
           /\ FoundNow[r] = found[r] /\ KeptNow[r] = kept[r] /\ RespNow[r] = resp[r]
           /\ OutNow[r] = out[r]
           /\ \A l : Goto(r, l) => Life!Goto(r, l)
           /\ \A e : ServeHit(r, e) => Life!ServeHit(r, e)
           /\ \A text, m : WriteBack(r, text, m) => Life!WriteBack(r, text, m)
           /\ \A text : Cacheable(text) <=> Life!Cacheable(text)
           /\ KeyOf(input[r], chosen[r]) = Life!KeyOf(InputNow[r], ChosenNow[r])
           /\ Fingerprint(input[r], chosen[r]) = Life!Fingerprint(InputNow[r], ChosenNow[r])
  <1>1. /\ PcNow[r] = pc[r] /\ InputNow[r] = input[r] /\ ChosenNow[r] = chosen[r]
        /\ FoundNow[r] = found[r] /\ KeptNow[r] = kept[r] /\ RespNow[r] = resp[r]
        /\ OutNow[r] = out[r]
    BY DEF Seen, Moves
  <1>2. \A l : Goto(r, l) => Life!Goto(r, l)
    BY DEF Seen, Moves, Goto, Life!Goto
  <1>3. ASSUME NEW e, ServeHit(r, e) PROVE Life!ServeHit(r, e)
    <2> DEFINE text == [e.text EXCEPT !.name = chosen[r]]
    <2>1. text = [e.text EXCEPT !.name = ChosenNow[r]]
      BY <1>1
    <2>2. out' = [out EXCEPT ![r] = text] /\ Life!Goto(r, "served")
      BY <1>2, <1>3 DEF ServeHit
    <2> HIDE DEF text
    <2>3. OutNow' = [OutNow EXCEPT ![r] = text]
      BY <2>2 DEF Seen, Moves
    <2> QED
      BY <2>1, <2>2, <2>3 DEF Life!ServeHit
  <1>4. \A text, m : WriteBack(r, text, m) => Life!WriteBack(r, text, m)
    BY <1>1, <1>2 DEF Seen, Moves, WriteBack, Life!WriteBack, NoBundle, Life!NoBundle
  <1>5. \A text : Cacheable(text) <=> Life!Cacheable(text)
    BY DEF Cacheable, Life!Cacheable
  <1>6. /\ KeyOf(input[r], chosen[r]) = Life!KeyOf(InputNow[r], ChosenNow[r])
        /\ Fingerprint(input[r], chosen[r]) = Life!Fingerprint(InputNow[r], ChosenNow[r])
    BY <1>1 DEF KeyOf, Fingerprint, Life!KeyOf, Life!Fingerprint
  <1> QED
    BY <1>1, <1>2, <1>3, <1>4, <1>5, <1>6

LEMMA SameBegin ==
    ASSUME NEW r \in Requests, Seen(r), Begin(r)
    PROVE  Life!Begin(r)
  <1>1. PICK in \in Inputs :
          /\ input' = [input EXCEPT ![r] = in]
          /\ chosen' = [chosen EXCEPT ![r] = in.model]
          /\ Goto(r, IF in.tenant \notin MayRoute THEN "denied"
                     ELSE IF "cache" \in Wired THEN "exact" ELSE "retrieve")
    BY DEF Begin
  <1>2. /\ InputNow' = [InputNow EXCEPT ![r] = in]
        /\ ChosenNow' = [ChosenNow EXCEPT ![r] = in.model]
    BY <1>1 DEF Seen, Moves
  <1>3. Life!Goto(r, IF in.tenant \notin MayRoute THEN "denied"
                     ELSE IF "cache" \in Wired THEN "exact" ELSE "retrieve")
    BY <1>1, SameParts
  <1>4. PcNow[r] = "new" /\ UNCHANGED <<memory, cache, bundle, ledger, FoundNow, KeptNow, RespNow, OutNow>>
    BY DEF Begin, Seen, Moves
  <1> QED
    BY <1>2, <1>3, <1>4 DEF Life!Begin

LEMMA SameLookup ==
    ASSUME NEW r \in Requests, Seen(r), LookupExact(r) \/ LookupSemantic(r)
    PROVE  Life!LookupExact(r) \/ Life!LookupSemantic(r)
  <1>1. UNCHANGED <<memory, cache, bundle, ledger, InputNow, ChosenNow, FoundNow, KeptNow, RespNow>>
    BY DEF Seen, Moves, LookupExact, LookupSemantic
  <1>2. /\ \A t, k : GetExact(cache, t, k) = Life!GetExact(cache, t, k)
        /\ \A t, f, q : SearchSemantic(cache, t, f, q) = Life!SearchSemantic(cache, t, f, q)
    BY DEF GetExact, Life!GetExact, SearchSemantic, Life!SearchSemantic
  <1>3. UNCHANGED out => UNCHANGED OutNow
    BY DEF Seen, Moves
  <1>4. CASE LookupExact(r)
    BY <1>1, <1>2, <1>3, <1>4, SameParts DEF LookupExact, Life!LookupExact
  <1>5. CASE LookupSemantic(r)
    BY <1>1, <1>2, <1>3, <1>5, SameParts DEF LookupSemantic, Life!LookupSemantic
  <1> QED
    BY <1>4, <1>5

LEMMA SameRetrieve ==
    ASSUME NEW r \in Requests, Seen(r), Retrieve(r)
    PROVE  Life!Retrieve(r)
  <1>1. PICK C \in Candidates(IF "memory" \in Wired THEN Rows(input[r]) ELSE {}) :
          found' = [found EXCEPT ![r] = C]
    BY DEF Retrieve
  <1>2. FoundNow' = [FoundNow EXCEPT ![r] = C]
    BY <1>1 DEF Seen, Moves
  <1>3. UNCHANGED <<memory, cache, bundle, ledger, InputNow, ChosenNow, KeptNow, RespNow, OutNow>>
    BY DEF Seen, Moves, Retrieve
  <1>4. Rows(input[r]) = Life!Rows(InputNow[r])
    BY SameParts DEF Rows, Life!Rows
  <1>5. \A S : Cardinality(S) = Life!Cardinality(S)
    BY DEF Cardinality, Life!Cardinality
  <1>6. \A rows : Candidates(rows) = Life!Candidates(rows)
    BY <1>5 DEF Candidates, Life!Candidates
  <1> QED
    BY <1>1, <1>2, <1>3, <1>4, <1>6, SameParts DEF Retrieve, Life!Retrieve

LEMMA SameEnd ==
    ASSUME NEW r \in Requests, Seen(r), PrepareFails(r) \/ GenerateFails(r) \/ Cancel(r)
    PROVE  Life!PrepareFails(r) \/ Life!GenerateFails(r) \/ Life!Cancel(r)
  <1>1. UNCHANGED <<memory, cache, bundle, ledger, InputNow, ChosenNow, FoundNow, KeptNow, RespNow,
                    OutNow>>
    BY DEF Seen, Moves, PrepareFails, GenerateFails, Cancel
  <1> QED
    BY <1>1, SameParts
       DEF PrepareFails, GenerateFails, Cancel, Awaiting,
           Life!PrepareFails, Life!GenerateFails, Life!Cancel, Life!Awaiting

LEMMA SameAssemble ==
    ASSUME NEW r \in Requests, Seen(r), Assemble(r)
    PROVE  Life!Assemble(r)
  <1>1. PICK K \in (IF "assembler" \in Wired THEN SUBSET found[r] ELSE {{}}) :
          /\ bundle' = IF {"assembler", "replay"} \subseteq Wired
                         THEN [bundle EXCEPT ![r] = Captured(r, K)]
                         ELSE bundle
          /\ kept' = [kept EXCEPT ![r] = K]
    BY DEF Assemble
  <1>2. KeptNow' = [KeptNow EXCEPT ![r] = K] /\ Captured(r, K) = Life!Captured(r, K)
    BY <1>1, SameParts DEF Seen, Moves, Captured, Life!Captured, NoText, Life!NoText
  <1>3. UNCHANGED <<memory, cache, ledger, InputNow, FoundNow, RespNow, OutNow>>
    BY DEF Seen, Moves, Assemble
  <1>4. /\ UNCHANGED chosen => UNCHANGED ChosenNow
        /\ \A m : chosen' = [chosen EXCEPT ![r] = m] => ChosenNow' = [ChosenNow EXCEPT ![r] = m]
    BY DEF Seen, Moves
  <1>5. \/ /\ "router" \notin Wired
           /\ Life!Goto(r, "invoke") /\ UNCHANGED ChosenNow
        \/ /\ "router" \in Wired
           /\ \E m \in RoutedModels[InputNow[r].tenant] : ChosenNow' = [ChosenNow EXCEPT ![r] = m]
           /\ Life!Goto(r, "invoke")
        \/ /\ "router" \in Wired /\ RoutedModels[InputNow[r].tenant] = {}
           /\ Life!Goto(r, "failed") /\ UNCHANGED ChosenNow
    BY <1>4, SameParts DEF Assemble
  <1>6. /\ PcNow[r] = "assemble"
        /\ K \in (IF "assembler" \in Wired THEN SUBSET FoundNow[r] ELSE {{}})
    BY <1>1, SameParts DEF Assemble
  <1> QED
    BY <1>1, <1>2, <1>3, <1>5, <1>6 DEF Life!Assemble

LEMMA SameGenerate ==
    ASSUME NEW r \in Requests, Seen(r), Generate(r)
    PROVE  Life!Generate(r)
  <1>0. PICK m \in (IF "router" \in Wired THEN RoutedModels[input[r].tenant] ELSE {chosen[r]}),
             fin \in BOOLEAN : \E name \in ReportedAs[m] :
          LET text == [by |-> r, model |-> m, name |-> name, facts |-> found[r],
                       kept |-> kept[r], terminal |-> fin]
          IN  /\ chosen' = [chosen EXCEPT ![r] = m]
              /\ resp' = [resp EXCEPT ![r] = text]
              /\ IF Cacheable(text)
                   THEN Goto(r, "store") /\ UNCHANGED <<bundle, ledger, out>>
                   ELSE WriteBack(r, text, m)
    BY DEF Generate
  <1>1. PICK name \in ReportedAs[m] :
          LET text == [by |-> r, model |-> m, name |-> name, facts |-> found[r],
                       kept |-> kept[r], terminal |-> fin]
          IN  /\ chosen' = [chosen EXCEPT ![r] = m]
              /\ resp' = [resp EXCEPT ![r] = text]
              /\ IF Cacheable(text)
                   THEN Goto(r, "store") /\ UNCHANGED <<bundle, ledger, out>>
                   ELSE WriteBack(r, text, m)
    BY <1>0
  <1> DEFINE text == [by |-> r, model |-> m, name |-> name, facts |-> found[r],
                      kept |-> kept[r], terminal |-> fin]
  <1>2. text = [by |-> r, model |-> m, name |-> name, facts |-> FoundNow[r],
                kept |-> KeptNow[r], terminal |-> fin]
    BY SameParts
  <1>3. /\ chosen' = [chosen EXCEPT ![r] = m]
        /\ resp' = [resp EXCEPT ![r] = text]
        /\ IF Cacheable(text)
             THEN Goto(r, "store") /\ UNCHANGED <<bundle, ledger, out>>
             ELSE WriteBack(r, text, m)
    BY <1>1
  <1> HIDE DEF text
  <1>4. /\ ChosenNow' = [ChosenNow EXCEPT ![r] = m]
        /\ RespNow' = [RespNow EXCEPT ![r] = text]
        /\ IF Life!Cacheable(text)
             THEN Life!Goto(r, "store") /\ UNCHANGED <<bundle, ledger, OutNow>>
             ELSE Life!WriteBack(r, text, m)
    <2>1. /\ ChosenNow' = [ChosenNow EXCEPT ![r] = m]
          /\ RespNow' = [RespNow EXCEPT ![r] = text]
          /\ UNCHANGED out => UNCHANGED OutNow
      BY <1>3 DEF Seen, Moves
    <2> QED
      BY <1>3, <2>1, SameParts
  <1>5. PcNow[r] = "invoke" /\ UNCHANGED <<memory, cache, InputNow, FoundNow, KeptNow>>
    BY DEF Seen, Moves, Generate
  <1>6. m \in (IF "router" \in Wired THEN RoutedModels[InputNow[r].tenant] ELSE {ChosenNow[r]})
    BY <1>0, SameParts
  <1> QED
    BY <1>1, <1>2, <1>4, <1>5, <1>6 DEF Life!Generate

LEMMA SameStore ==
    ASSUME NEW r \in Requests, Seen(r), Store(r) \/ Finish(r)
    PROVE  Life!Store(r) \/ Life!Finish(r)
  <1>1. CASE Store(r)
    <2>1. UNCHANGED <<memory, bundle, ledger, InputNow, ChosenNow, FoundNow, KeptNow, RespNow, OutNow>>
      BY <1>1 DEF Seen, Moves, Store
    <2>2. \A e : PutEntry(cache, e) = Life!PutEntry(cache, e)
      BY DEF PutEntry, Life!PutEntry
    <2> QED
      BY <1>1, <2>1, <2>2, SameParts DEF Store, Life!Store
  <1>2. CASE Finish(r)
    <2>1. UNCHANGED <<memory, cache, InputNow, ChosenNow, FoundNow, KeptNow, RespNow>>
      BY <1>2 DEF Seen, Moves, Finish
    <2> QED
      BY <1>2, <2>1, SameParts DEF Finish, Life!Finish
  <1> QED
    BY <1>1, <1>2

(* Every step of the process but its restart is one of this life's.        *)

EarlierEnded == \A r \in before : pc[r] \in Ended

LEMMA RequestStep ==
    ASSUME TypeOK, EarlierEnded, before' = before, NEW r \in Requests, Step(r)
    PROVE  r \notin before /\ Seen(r) /\ Life!Next
  <1>1. pc[r] \in {"new"} \cup Awaiting
    BY DEF Step, Begin, Progress, LookupExact, LookupSemantic, Retrieve, PrepareFails, Assemble,
           Generate, GenerateFails, Store, Finish, Cancel, Awaiting
  <1>2. r \notin before
    BY <1>1 DEF EarlierEnded, Ended, Awaiting
  <1>3. Seen(r)
    BY <1>2, IsSeen
  <1>4. Life!Begin(r) \/ Life!Progress(r) \/ Life!Cancel(r)
    BY <1>3, SameBegin, SameLookup, SameRetrieve, SameEnd, SameAssemble, SameGenerate, SameStore
       DEF Step, Progress, Life!Progress
  <1> QED
    BY <1>2, <1>3, <1>4 DEF Life!Next

LEMMA SameEnvironment ==
    ASSUME before' = before, Remember \/ Expire \/ UNCHANGED vars
    PROVE  [Life!Next]_(Life!vars)
  <1>1. UNCHANGED <<pc, input, chosen, found, kept, resp, out>>
    BY DEF Remember, Expire, vars
  <1>2. UNCHANGED <<PcNow, InputNow, ChosenNow, FoundNow, KeptNow, RespNow, OutNow>>
    BY <1>1 DEF PcNow, InputNow, ChosenNow, FoundNow, KeptNow, RespNow, OutNow, Unless
  <1>3. CASE Remember
    <2>1. Life!Remember
      BY <1>2, <1>3 DEF Remember, Memory, Life!Remember, Life!Memory
    <2> QED
      BY <2>1 DEF Life!Next
  <1>4. CASE Expire
    <2>1. Life!Expire
      BY <1>2, <1>4 DEF Expire, Life!Expire
    <2> QED
      BY <2>1 DEF Life!Next
  <1>5. CASE UNCHANGED vars
    BY <1>2, <1>5 DEF vars, Life!vars
  <1> QED
    BY <1>3, <1>4, <1>5

LEMMA LifeStep ==
    ASSUME TypeOK, EarlierEnded, before' = before, [Next]_vars
    PROVE  [Life!Next]_(Life!vars)
  <1>1. ASSUME NEW r \in Requests, Step(r)
        PROVE  Life!Next
    BY <1>1, RequestStep
  <1> QED
    BY <1>1, SameEnvironment DEF Next, Step

-----------------------------------------------------------------------------
(* The invariant of the process.                                           *)

(* A request that has not begun has left nothing.                          *)
NewIsBlank ==
    \A r \in Requests : pc[r] = "new" =>
        /\ input[r] = NoInput /\ chosen[r] = "none" /\ found[r] = {} /\ kept[r] = {}
        /\ resp[r] = NoText /\ out[r] = NoText

(* The requests begun in this life.                                        *)
Begun == {r \in Requests : r \notin before /\ pc[r] # "new"}

TracesOfLife == traces = {[id |-> r, tenant |-> input[r].tenant] : r \in Begun}

(* What PipelineProofs proves of a run, of this one.                       *)
LifeInv == Life!Core /\ Life!ModelStands /\ Life!AskedModel

GatewayInv ==
    /\ TypeInv /\ GatewayTypeOK
    /\ EarlierEnded /\ NewIsBlank /\ TracesOfLife
    /\ LifeInv

(* A life that begins is an initial state of the pipeline.                 *)
NewLife ==
    /\ memory = {} /\ cache = {}
    /\ bundle = [r \in Requests |-> NoBundle]
    /\ ledger = [t \in Tenants |-> <<>>]
    /\ \A r \in Requests \ before : pc[r] = "new"
    /\ NewIsBlank

LEMMA LifeInit == NewLife => Life!Init
  <1> SUFFICES ASSUME NewLife PROVE Life!Init
    OBVIOUS
  <1>1. /\ PcNow = [r \in Requests |-> "new"]
        /\ InputNow = [r \in Requests |-> NoInput]
        /\ ChosenNow = [r \in Requests |-> "none"]
    BY DEF PcNow, InputNow, ChosenNow, Unless, NewLife, NewIsBlank
  <1>2. /\ FoundNow = [r \in Requests |-> {}]
        /\ KeptNow = [r \in Requests |-> {}]
        /\ RespNow = [r \in Requests |-> NoText]
        /\ OutNow = [r \in Requests |-> NoText]
    BY DEF FoundNow, KeptNow, RespNow, OutNow, Unless, NewLife, NewIsBlank
  <1> QED
    BY <1>1, <1>2
       DEF NewLife, Life!Init, NoBundle, Life!NoBundle, NoText, Life!NoText, NoInput, Life!NoInput

LEMMA LifeInitNext == NewLife' => Life!Init'
  BY LifeInit, PTL

(* The constants are those the pipeline's proofs assume.                   *)
LEMMA LifeConstants == Inputs \subseteq Life!Input
  BY InputsAssumption DEF Input, Life!Input

LEMMA LifeBegins == Life!Init => LifeInv
  <1>1. Life!Init => Life!Core
    BY Life!CoreInit, LifeConstants, WiringAssumption, SimilarityAssumption, NormAssumption
  <1>2. Life!Init => Life!ModelStands
    BY DEF Life!Init, Life!ModelStands
  <1>3. Life!Init => Life!AskedModel
    BY DEF Life!Init, Life!AskedModel
  <1> QED
    BY <1>1, <1>2, <1>3 DEF LifeInv

LEMMA LifeBeginsNext == Life!Init' => LifeInv'
  BY LifeBegins, PTL

LEMMA LifeGoesOn == LifeInv /\ [Life!Next]_(Life!vars) => LifeInv'
  <1>1. Life!Core /\ [Life!Next]_(Life!vars) => Life!Core'
    BY Life!CoreStep, LifeConstants, WiringAssumption, SimilarityAssumption, NormAssumption
  <1>2. ASSUME Life!TypeInv, Life!PromptInScope, Life!ModelStands, [Life!Next]_(Life!vars)
        PROVE  Life!ModelStands'
    BY <1>2, Life!ModelStep, LifeConstants, WiringAssumption, SimilarityAssumption,
       NormAssumption
  <1>3. ASSUME Life!TypeInv, Life!TextIsOwn, Life!EntryMatchesText, Life!AskedModel,
               [Life!Next]_(Life!vars)
        PROVE  Life!AskedModel'
    BY <1>3, Life!AskedStep, LifeConstants, WiringAssumption, SimilarityAssumption,
       NormAssumption
  <1>4. Life!Core => Life!TypeInv /\ Life!PromptInScope /\ Life!TextIsOwn /\ Life!EntryMatchesText
    BY DEF Life!Core
  <1> QED
    BY <1>1, <1>2, <1>3, <1>4 DEF LifeInv

LEMMA GatewayBegins == GatewayInit => GatewayInv /\ Life!Init
  <1> SUFFICES ASSUME GatewayInit PROVE GatewayInv /\ Life!Init
    OBVIOUS
  <1>1. Init /\ traces = {} /\ restarts = 0 /\ before = {}
    BY DEF GatewayInit
  <1>2. TypeInv
    BY <1>1, TypeInit
  <1>3. GatewayTypeOK /\ EarlierEnded
    BY <1>1, RestartsAssumption DEF GatewayTypeOK, EarlierEnded
  <1>4. NewIsBlank /\ \A r \in Requests : pc[r] = "new"
    BY <1>1 DEF Init, NewIsBlank
  <1>5. TracesOfLife
    BY <1>1, <1>4 DEF TracesOfLife, Begun
  <1>6. Life!Init
    BY <1>1, <1>4, LifeInit DEF Init, NewLife
  <1> QED
    BY <1>2, <1>3, <1>4, <1>5, <1>6, LifeBegins DEF GatewayInv

(* While the process lives, a request that is new stays blank.             *)
LEMMA BlankStep ==
    ASSUME TypeInv, NewIsBlank, [Next]_vars
    PROVE  NewIsBlank'
  <1> DEFINE P(o) == pc[o] = "new" =>
               /\ input[o] = NoInput /\ chosen[o] = "none" /\ found[o] = {} /\ kept[o] = {}
               /\ resp[o] = NoText /\ out[o] = NoText
  <1>1. ASSUME NEW r \in Requests, Step(r), NEW o \in Requests
        PROVE  P(o)'
    <2>1. CASE o # r
      BY <1>1, <2>1, OthersUnchanged DEF TypeInv, NewIsBlank
    <2>2. CASE o = r
      <3>1. CASE pc[r] = "new"
        <4>1. Begin(r)
          BY <1>1, <3>1 DEF Step, Progress, LookupExact, LookupSemantic, Retrieve, PrepareFails,
                            Assemble, Generate, GenerateFails, Store, Finish, Cancel, Awaiting
        <4>2. pc'[r] # "new"
          BY <4>1 DEF Begin, Goto, TypeInv, TypeOK
        <4> QED
          BY <2>2, <4>2
      <3>2. CASE pc[r] # "new"
        BY <1>1, <2>2, <3>2, Stable DEF TypeInv, Next, Step
      <3> QED
        BY <3>1, <3>2
    <2> QED
      BY <2>1, <2>2
  <1>2. CASE Remember \/ Expire \/ UNCHANGED vars
    BY <1>2 DEF Remember, Expire, vars, NewIsBlank
  <1> QED
    BY <1>1, <1>2 DEF Next, Step, NewIsBlank

(* A request that has begun keeps its input, and so its trace its tenant.  *)
LEMMA BegunStep ==
    ASSUME TypeOK, before' = before, NEW r \in Requests, [Next]_vars,
           \A o \in Requests \ {r} : pc'[o] = "new" <=> pc[o] = "new", pc'[r] # "new"
    PROVE  /\ Begun' = Begun \cup ({r} \ before)
           /\ \A o \in Begun : input'[o] = input[o]
  BY Stable DEF Begun

LEMMA NotNew ==
    ASSUME TypeOK, NEW r \in Requests, Step(r)
    PROVE  /\ pc'[r] # "new"
           /\ \A o \in Requests \ {r} : pc'[o] = pc[o]
           /\ ~ Begin(r) => pc[r] # "new"
  <1>1. pc[r] # "new" => pc'[r] # "new"
    BY Stable DEF Next, Step
  <1>2. Begin(r) => pc'[r] # "new"
    BY DEF Begin, Goto, TypeOK
  <1>3. ~ Begin(r) => pc[r] # "new"
    BY DEF Step, Progress, LookupExact, LookupSemantic, Retrieve, PrepareFails, Assemble,
           Generate, GenerateFails, Store, Finish, Cancel, Awaiting
  <1> QED
    BY <1>1, <1>2, <1>3, OthersUnchanged

LEMMA ChatHolds ==
    ASSUME GatewayInv, NEW r \in Requests, Chat(r)
    PROVE  GatewayInv' /\ [Life!Next]_(Life!vars)
  <1>1. /\ Begin(r) /\ Step(r) /\ [Next]_vars
        /\ traces' = traces \cup {[id |-> r, tenant |-> input'[r].tenant]}
        /\ UNCHANGED <<restarts, before>>
    BY DEF Chat, StartTrace, Step, Next
  <1>2. TypeOK /\ EarlierEnded /\ TypeInv'
    BY <1>1, TypeStep DEF GatewayInv, TypeInv
  <1>3. [Life!Next]_(Life!vars)
    BY <1>1, <1>2, LifeStep
  <1>4. r \notin before /\ Begun' = Begun \cup {r} /\ \A o \in Begun : input'[o] = input[o]
    BY <1>1, <1>2, RequestStep, NotNew, BegunStep
  <1>5. TracesOfLife'
    BY <1>1, <1>4 DEF GatewayInv, TracesOfLife
  <1>6. EarlierEnded'
    BY <1>1, <1>2, <1>4, OthersUnchanged DEF EarlierEnded, GatewayInv, GatewayTypeOK
  <1>7. GatewayTypeOK'
    <2>1. input'[r] \in Inputs
      BY <1>1, <1>2, NotNew DEF TypeInv, Started
    <2>2. input'[r].tenant \in Tenants
      BY <2>1, InputsAssumption DEF Input
    <2> QED
      BY <1>1, <2>2 DEF GatewayInv, GatewayTypeOK, Trace
  <1>8. NewIsBlank' /\ LifeInv'
    BY <1>1, <1>3, BlankStep, LifeGoesOn DEF GatewayInv
  <1> QED
    BY <1>2, <1>3, <1>5, <1>6, <1>7, <1>8 DEF GatewayInv

LEMMA RunHolds ==
    ASSUME GatewayInv, Run \/ UNCHANGED gatewayVars
    PROVE  GatewayInv' /\ [Life!Next]_(Life!vars)
  <1>1. [Next]_vars /\ UNCHANGED <<traces, restarts, before>>
    BY DEF Run, Next, gatewayVars
  <1>2. TypeOK /\ EarlierEnded /\ TypeInv'
    BY <1>1, TypeStep DEF GatewayInv, TypeInv
  <1>3. [Life!Next]_(Life!vars)
    BY <1>1, <1>2, LifeStep
  <1>4. /\ \A o \in Requests : pc'[o] = "new" <=> pc[o] = "new"
        /\ \A o \in before : pc'[o] = pc[o]
    <2>1. ASSUME NEW r \in Requests, Progress(r) \/ Cancel(r)
          PROVE  /\ \A o \in Requests : pc'[o] = "new" <=> pc[o] = "new"
                 /\ \A o \in before : pc'[o] = pc[o]
      <3>1. Step(r)
        BY <2>1 DEF Step
      <3>2. r \notin before
        BY <1>1, <1>2, <3>1, RequestStep
      <3>3. pc[r] # "new"
        BY <2>1 DEF Progress, LookupExact, LookupSemantic, Retrieve, PrepareFails, Assemble,
                    Generate, GenerateFails, Store, Finish, Cancel, Awaiting
      <3> QED
        BY <1>2, <3>1, <3>2, <3>3, NotNew DEF GatewayInv, GatewayTypeOK
    <2>2. CASE Remember \/ Expire \/ UNCHANGED gatewayVars
      BY <2>2 DEF Remember, Expire, gatewayVars, vars
    <2> QED
      BY <2>1, <2>2 DEF Run
  <1>5. Begun' = Begun /\ \A o \in Begun : input'[o] = input[o]
    BY <1>1, <1>2, <1>4, Stable DEF Begun
  <1>6. TracesOfLife' /\ EarlierEnded' /\ GatewayTypeOK'
    BY <1>1, <1>4, <1>5 DEF GatewayInv, TracesOfLife, EarlierEnded, GatewayTypeOK
  <1>7. NewIsBlank' /\ LifeInv'
    BY <1>1, <1>3, BlankStep, LifeGoesOn DEF GatewayInv
  <1> QED
    BY <1>2, <1>3, <1>6, <1>7 DEF GatewayInv

(* A restart forgets every request, and starts another life.               *)
LEMMA RestartHolds ==
    ASSUME GatewayInv, Restart
    PROVE  GatewayInv' /\ Life!Init'
  <1>1. /\ before' = {r \in Requests : pc[r] # "new"} /\ restarts < MaxRestarts
        /\ restarts' = restarts + 1
        /\ pc' = [r \in Requests |-> IF pc[r] \in Awaiting THEN "cancelled" ELSE pc[r]]
        /\ traces' = {} /\ memory' = {} /\ cache' = {}
        /\ bundle' = [r \in Requests |-> NoBundle]
        /\ ledger' = [t \in Tenants |-> <<>>]
        /\ UNCHANGED <<input, chosen, found, kept, resp, out>>
    BY DEF Restart
  <1>2. /\ \A r \in Requests : pc[r] \in {"new"} \cup Awaiting \cup Ended
        /\ restarts \in 0 .. MaxRestarts
    BY DEF GatewayInv, GatewayTypeOK, TypeInv, TypeOK
  <1>3. /\ \A r \in Requests : pc'[r] \in {"new"} \cup Ended
        /\ \A r \in Requests : pc'[r] = "new" <=> pc[r] = "new"
        /\ \A r \in Requests : pc'[r] = pc[r] \/ pc'[r] = "cancelled"
    BY <1>1, <1>2 DEF Ended, Awaiting
  <1>4. TypeInv'
    <2>1. TypeOK'
      BY <1>1, <1>3 DEF GatewayInv, TypeInv, TypeOK
    <2>2. Started'
      BY <1>1, <1>3 DEF GatewayInv, TypeInv, Started, Ended, Delivered, Answered, Reused
    <2> QED
      BY <2>1, <2>2 DEF TypeInv
  <1>5. GatewayTypeOK'
    BY <1>1, <1>2, RestartsAssumption DEF GatewayTypeOK
  <1>6. EarlierEnded' /\ \A r \in Requests \ before' : pc'[r] = "new"
    BY <1>1, <1>3 DEF EarlierEnded
  <1>7. NewIsBlank'
    BY <1>1, <1>3 DEF GatewayInv, NewIsBlank
  <1>8. TracesOfLife'
    BY <1>1, <1>6 DEF TracesOfLife, Begun
  <1>9. Life!Init'
    BY <1>1, <1>6, <1>7, LifeInitNext DEF NewLife
  <1>10. LifeInv'
    BY <1>9, LifeBeginsNext
  <1> QED
    BY <1>4, <1>5, <1>6, <1>7, <1>8, <1>9, <1>10 DEF GatewayInv

LEMMA GatewayStep ==
    ASSUME GatewayInv, [GatewayNext]_gatewayVars
    PROVE  GatewayInv' /\ [Life!Next \/ Life!Init']_(Life!vars)
  <1>1. ASSUME NEW r \in Requests, Chat(r)
        PROVE  GatewayInv' /\ [Life!Next]_(Life!vars)
    BY <1>1, ChatHolds
  <1>2. CASE Run \/ UNCHANGED gatewayVars
    BY <1>2, RunHolds
  <1>3. CASE Restart
    BY <1>3, RestartHolds
  <1> QED
    BY <1>1, <1>2, <1>3 DEF GatewayNext

(* However often the process ends and starts again, what it keeps is of    *)
(* its present life and obeys the pipeline's invariant there; the replies  *)
(* of earlier lives stay with the callers (gateway/app.py:133-160).        *)
THEOREM GatewaySafety == GatewaySpec => []GatewayInv
  <1>1. GatewayInv /\ [GatewayNext]_gatewayVars => GatewayInv'
    BY GatewayStep
  <1>2. GatewayInit => GatewayInv
    BY GatewayBegins
  <1> QED
    BY <1>1, <1>2, PTL DEF GatewaySpec

(* Whatever is in flight when the process ends, each of its lives is a run *)
(* of the pipeline over the requests that life has seen.                   *)
THEOREM LivesAreRuns == GatewaySpec => Life!Init /\ [][Life!Next \/ Life!Init']_(Life!vars)
  <1>1. GatewayInv /\ [GatewayNext]_gatewayVars => [Life!Next \/ Life!Init']_(Life!vars)
    BY GatewayStep
  <1>2. GatewayInit => Life!Init
    BY GatewayBegins
  <1> QED
    BY <1>1, <1>2, GatewaySafety, PTL DEF GatewaySpec

-----------------------------------------------------------------------------
(* What the routes answer.                                                 *)

LEMMA IsNow ==
    ASSUME NEW r \in Requests
    PROVE  /\ PcNow[r] # "new" => r \notin before
           /\ r \notin before =>
                /\ PcNow[r] = pc[r] /\ InputNow[r] = input[r] /\ ChosenNow[r] = chosen[r]
                /\ FoundNow[r] = found[r] /\ OutNow[r] = out[r]
  BY DEF Unless, PcNow, InputNow, ChosenNow, FoundNow, OutNow

(* A generated reply of this life has its bundle, with what it was made of;*)
(* a reused one has none.                                                  *)
LEMMA ToldBundle ==
    ASSUME GatewayInv, NEW r \in Requests \ before
    PROVE  /\ Answered(r) =>
                /\ bundle[r] # NoBundle
                /\ bundle[r].found = out[r].facts /\ bundle[r].model = input[r].model
                /\ out[r].terminal => bundle[r].output = out[r]
           /\ Reused(r) => bundle[r] = NoBundle
  <1>1. /\ PcNow[r] = pc[r] /\ InputNow[r] = input[r] /\ ChosenNow[r] = chosen[r]
        /\ FoundNow[r] = found[r] /\ OutNow[r] = out[r] /\ NoBundle = Life!NoBundle
    BY IsNow DEF NoBundle, Life!NoBundle
  <1>2. /\ Life!BundleMatchesPrompt /\ Life!TextIsOwn /\ Life!PromptInScope
        /\ Life!ModelStands /\ Life!AskedModel
        /\ {"assembler", "replay"} \subseteq Wired /\ "router" \notin Wired
    BY WiredAssumption DEF GatewayInv, LifeInv, Life!Core
  <1>3. CASE Answered(r)
    <2>1. Life!Answered(r)
      BY <1>1, <1>3 DEF Answered, Life!Answered
    <2>2. bundle[r] # NoBundle /\ bundle[r].found = found[r] /\ bundle[r].model = chosen[r]
      BY <1>1, <1>2, <2>1 DEF Life!BundleMatchesPrompt, Life!Answered, Life!ModelStands
    <2>3. out[r].facts = found[r]
      BY <1>1, <1>2, <2>1 DEF Life!TextIsOwn, Life!OwnText
    <2>3a. chosen[r] = input[r].model
      BY <1>1, <1>2, <1>3 DEF Life!AskedModel, Answered
    <2>4. out[r].terminal => bundle[r].output = out[r]
      BY <1>1, <1>2, <2>1 DEF Life!BundleMatchesPrompt
    <2> QED
      BY <1>3, <2>2, <2>3, <2>3a, <2>4 DEF Answered, Reused
  <1>4. CASE Reused(r)
    BY <1>1, <1>2, <1>4 DEF Reused, Answered, Life!PromptInScope
  <1> QED
    BY <1>3, <1>4

LEMMA ToldTrace ==
    ASSUME GatewayInv, NEW r \in Requests, Told(r), NEW s
    PROVE  GetTrace(s, r).status = 200 <=> s.tenant = input[r].tenant
  <1>1. r \in Begun
    BY DEF Told, Delivered, Answered, Reused, Begun
  <1>2. (\E t \in traces : t.id = r /\ t.tenant = s.tenant) <=> s.tenant = input[r].tenant
    <2>1. traces = {[id |-> q, tenant |-> input[q].tenant] : q \in Begun}
      BY DEF GatewayInv, TracesOfLife
    <2>2. \A t \in traces : t.id = r => t.tenant = input[r].tenant
      BY <2>1
    <2>3. \E t \in traces : t.id = r /\ t.tenant = input[r].tenant
      <3>1. [id |-> r, tenant |-> input[r].tenant] \in traces
        BY <1>1, <2>1
      <3> QED
        BY <3>1
    <2> QED
      BY <2>2, <2>3
  <1> QED
    BY <1>2 DEF GetTrace, Ok, NotFound

LEMMA ResolveHolds == GatewayInv => HandlesResolve
  <1> SUFFICES ASSUME GatewayInv, NEW r \in Requests, NEW s \in Callers, Told(r)
               PROVE  LET own(q) == Told(q) /\ s.tenant = input[q].tenant /\ Answered(q)
                      IN  /\ GetTrace(s, r).status = 200 <=> s.tenant = input[r].tenant
                          /\ GetBundle(s, r).status = 200 <=> own(r)
                          /\ own(r) /\ out[r].terminal => GetBundle(s, r).body.output = out[r]
                          /\ \A q \in Requests : own(r) /\ own(q) =>
                               LET d == TraceDiff(s, q, r)
                               IN  /\ d.status = 200
                                   /\ {m.id : m \in out[r].facts} =
                                        ({m.id : m \in out[q].facts} \cup d.body.added) \ d.body.removed
                                   /\ d.body.models = <<>> <=> input[q].model = input[r].model
    BY DEF HandlesResolve
  <1> DEFINE own(q) == Told(q) /\ s.tenant = input[q].tenant /\ Answered(q)
             ids(q) == {m.id : m \in out[q].facts}
  <1>1. GetTrace(s, r).status = 200 <=> s.tenant = input[r].tenant
    BY ToldTrace
  <1>2. \A q \in Requests : own(q) =>
          /\ bundle[q] # NoBundle /\ Stored(s, q)
          /\ bundle[q].found = out[q].facts /\ bundle[q].model = input[q].model
          /\ out[q].terminal => bundle[q].output = out[q]
    BY ToldBundle DEF Told, Stored
  <1>3. Stored(s, r) <=> own(r)
    <2>1. Answered(r) \/ Reused(r)
      BY DEF Told, Delivered
    <2> QED
      BY <1>2, <2>1, ToldBundle DEF Told, Stored
  <1>4. GetBundle(s, r).status = 200 <=> own(r)
    BY <1>3 DEF GetBundle, Ok, NotFound
  <1>5. own(r) /\ out[r].terminal => GetBundle(s, r).body.output = out[r]
    BY <1>2 DEF GetBundle, Ok
  <1>6. ASSUME NEW q \in Requests, own(r), own(q)
        PROVE  LET d == TraceDiff(s, q, r)
               IN  /\ d.status = 200
                   /\ ids(r) = (ids(q) \cup d.body.added) \ d.body.removed
                   /\ d.body.models = <<>> <=> input[q].model = input[r].model
    <2> DEFINE d == TraceDiff(s, q, r)
    <2>1. d = Ok(DiffBundles(bundle[q], bundle[r]))
      BY <1>2, <1>6 DEF TraceDiff
    <2> DEFINE e == DiffBundles(bundle[q], bundle[r])
    <2>1a. /\ e.added = ids(r) \ ids(q) /\ e.removed = ids(q) \ ids(r)
          /\ e.models = IF input[q].model = input[r].model THEN <<>>
                        ELSE <<input[q].model, input[r].model>>
      <3>1. /\ e.added = {m.id : m \in bundle[r].found} \ {m.id : m \in bundle[q].found}
            /\ e.removed = {m.id : m \in bundle[q].found} \ {m.id : m \in bundle[r].found}
            /\ e.models = IF bundle[q].model = bundle[r].model THEN <<>>
                          ELSE <<bundle[q].model, bundle[r].model>>
        BY DEF DiffBundles
      <3>2. /\ bundle[q].found = out[q].facts /\ bundle[q].model = input[q].model
            /\ bundle[r].found = out[r].facts /\ bundle[r].model = input[r].model
        BY <1>2, <1>6
      <3> QED
        BY <3>1, <3>2
    <2> HIDE DEF e
    <2>1b. d.status = 200 /\ d.body = e
      BY <2>1 DEF Ok, e
    <2>2. /\ d.status = 200
          /\ d.body.added = ids(r) \ ids(q) /\ d.body.removed = ids(q) \ ids(r)
          /\ d.body.models = IF input[q].model = input[r].model THEN <<>>
                             ELSE <<input[q].model, input[r].model>>
      BY <2>1a, <2>1b
    <2> HIDE DEF d, ids
    <2>3. ids(r) = (ids(q) \cup d.body.added) \ d.body.removed
      BY <2>2
    <2>4. \A a, b : <<a, b>> # <<>>
      OBVIOUS
    <2>5. d.body.models = <<>> <=> input[q].model = input[r].model
      BY <2>2, <2>4
    <2> QED
      BY <2>2, <2>3, <2>5 DEF d
  <1> QED
    BY <1>1, <1>4, <1>5, <1>6

(* An id a caller was given answers, and answers truly, for as long as the *)
(* process lives, for its tenant and for no other.                         *)
THEOREM HandlesSafety == GatewaySpec => []HandlesResolve
  BY GatewaySafety, ResolveHolds, PTL

(* What is numbered one to one has as many members.                        *)
LEMMA OneToOne ==
    ASSUME NEW S, IsFiniteSet(S), NEW T, NEW f \in [S -> T],
           \A a, b \in S : f[a] = f[b] => a = b,
           \A t \in T : \E a \in S : f[a] = t
    PROVE  Cardinality(T) = Cardinality(S)
  <1>1. f \in Injection(S, T) /\ f \in Surjection(S, T)
    BY DEF Injection, Surjection, IsInjective, Range
  <1>2. f \in Bijection(S, T)
    BY <1>1 DEF Bijection
  <1>3. ExistsBijection(S, T)
    BY <1>2 DEF ExistsBijection
  <1> QED
    BY <1>3, FS_Bijection

LEMMA SpendHolds == GatewayInv => SpendMatchesReplies
  <1> SUFFICES ASSUME GatewayInv, NEW s \in Callers
               PROVE  LET paid == {r \in Requests : Told(r) /\ Answered(r) /\ out[r].terminal
                                                       /\ input[r].tenant = s.tenant}
                      IN  /\ Summary(s).requests = Cardinality(paid)
                          /\ \A m \in Models :
                               Summary(s).by_model[m] = Cardinality({r \in paid : input[r].model = m})
    BY DEF SpendMatchesReplies
  <1> DEFINE t == s.tenant
             L == ledger[t]
             N == 1 .. Len(L)
             paid == {r \in Requests : Told(r) /\ Answered(r) /\ out[r].terminal
                                          /\ input[r].tenant = s.tenant}
             by == [i \in N |-> L[i].by]
  <1>1. t \in Tenants /\ TypeOK
    BY InputsAssumption DEF Callers, Input, GatewayInv, TypeInv
  <1>2. L \in Seq(Bill) /\ Len(L) \in Nat /\ IsFiniteSet(N) /\ Cardinality(N) = Len(L)
    <2>1. L \in Seq(Bill) /\ Len(L) \in Nat
      BY <1>1 DEF TypeOK
    <2> HIDE DEF L
    <2>2. IsFiniteSet(N) /\ Cardinality(N) = IF 1 > Len(L) THEN 0 ELSE Len(L) - 1 + 1
      BY <2>1, FS_Interval
    <2> QED
      BY <2>1, <2>2
  <1>3. Life!LedgerMatchesDeliveries /\ "cost" \in Wired
    BY WiredAssumption DEF GatewayInv, LifeInv, Life!Core, Life!LedgerInv
  <1>3a. \A r \in Requests : PcNow[r] = "done" => OutNow[r].model = InputNow[r].model
    BY WiredAssumption
       DEF GatewayInv, LifeInv, Life!Core, Life!TextIsOwn, Life!OwnText, Life!Answered, Life!AskedModel
  <1>4. ASSUME NEW i \in N
        PROVE  L[i].by \in paid /\ input[L[i].by].model = L[i].model
    <2>1. L[i].by \in Requests
      BY <1>1, LedgerType
    <2>2. Life!Due(t, L[i])
      BY <1>1, <1>3 DEF Life!LedgerMatchesDeliveries
    <2> DEFINE b == L[i]
    <2> HIDE DEF b
    <2>3. /\ PcNow[b.by] = "done" /\ OutNow[b.by].terminal
          /\ InputNow[b.by].tenant = t /\ OutNow[b.by].model = b.model
      BY <2>2 DEF Life!Due, Life!Answered, b
    <2>4. b.by \in Requests \ before
      BY <2>1, <2>3, IsNow DEF b
    <2>5. b.by \in paid /\ input[b.by].model = b.model
      BY <1>3a, <2>3, <2>4, IsNow DEF Told, Delivered, Answered
    <2> QED
      BY <2>5 DEF b
  <1>5. \A i, j \in N : L[i].by = L[j].by => i = j
    BY <1>1, <1>3 DEF Life!LedgerMatchesDeliveries
  <1>6. ASSUME NEW r \in paid
        PROVE  \E i \in N : L[i].by = r
    <2>1. r \in Requests \ before /\ pc[r] = "done" /\ out[r].terminal /\ input[r].tenant = t
      BY DEF Told, Answered
    <2>2. Life!Answered(r) /\ OutNow[r].terminal /\ InputNow[r].tenant = t
      BY <2>1, IsNow DEF Life!Answered
    <2> QED
      BY <1>3, <2>1, <2>2 DEF Life!LedgerMatchesDeliveries
  <1> HIDE DEF t, L, N, paid
  <1>7. Cardinality(paid) = Cardinality(N)
    <2>1. /\ by \in [N -> paid]
          /\ \A i, j \in N : by[i] = by[j] => i = j
          /\ \A r \in paid : \E i \in N : by[i] = r
      BY <1>4, <1>5, <1>6
    <2> HIDE DEF by
    <2> QED
      BY <1>2, <2>1, OneToOne
  <1>8. ASSUME NEW m \in Models
        PROVE  Cardinality({r \in paid : input[r].model = m}) = Cardinality({i \in N : L[i].model = m})
    <2> DEFINE S == {i \in N : L[i].model = m}
               T == {r \in paid : input[r].model = m}
               f == [i \in S |-> L[i].by]
    <2>1. IsFiniteSet(S)
      BY <1>2, FS_Subset
    <2>2. f \in [S -> T] /\ \A i, j \in S : f[i] = f[j] => i = j
      BY <1>4, <1>5
    <2>3. \A r \in T : \E i \in S : f[i] = r
      BY <1>4, <1>6
    <2> HIDE DEF S, T, f
    <2>4. Cardinality(T) = Cardinality(S)
      BY <2>1, <2>2, <2>3, OneToOne
    <2> QED
      BY <2>4 DEF S, T
  <1>9. /\ Summary(s).requests = Len(L)
        /\ \A m \in Models : Summary(s).by_model[m] = Cardinality({i \in N : L[i].model = m})
    BY DEF Summary, L, N, t
  <1> QED
    BY <1>2, <1>7, <1>8, <1>9 DEF paid

(* The cost summary of a tenant counts exactly the finished texts that its *)
(* callers were given since the process started, by the model they asked for,*)
(* whatever name the backend reported.                                     *)
THEOREM SpendSafety == GatewaySpec => []SpendMatchesReplies
  BY GatewaySafety, SpendHolds, PTL

(* A step of a request from the cache to retrieval is a miss of this life. *)
LEMMA MissOfThisLife ==
    ASSUME GatewayInv, [GatewayNext]_gatewayVars, NEW r \in Requests,
           pc[r] = "semantic", pc'[r] = "retrieve"
    PROVE  r \notin before /\ Life!LookupSemantic(r) /\ PcNow'[r] = "retrieve"
  <1>1. TypeOK /\ EarlierEnded
    BY DEF GatewayInv, TypeInv
  <1>2. [Next]_vars /\ before' = before
    <2>1. ~Restart
      BY DEF Restart, Awaiting
    <2>2. \A o \in Requests : Chat(o) => Begin(o) /\ before' = before
      BY DEF Chat
    <2> QED
      BY <2>1, <2>2 DEF GatewayNext, Run, Next, gatewayVars
  <1>3. LookupSemantic(r) /\ r \notin before
    BY <1>1, <1>2, MissIsLookup DEF EarlierEnded, Ended
  <1>4. Seen(r)
    BY <1>1, <1>2, <1>3, IsSeen
  <1>5. Life!LookupExact(r) \/ Life!LookupSemantic(r)
    BY <1>3, <1>4, SameLookup
  <1>6. PcNow[r] = "semantic" /\ PcNow'[r] = pc'[r]
    BY <1>2, <1>3 DEF PcNow, Unless
  <1>7. ~Life!LookupExact(r)
    BY <1>6 DEF Life!LookupExact
  <1> QED
    BY <1>3, <1>5, <1>6, <1>7

(* In whatever life of the process: while a text generated for the very    *)
(* same request is in the cache, its repetition does not miss, so far as   *)
(* the cache does not fail (cache/keys.py:19, cache/engine.py:60-95).      *)
THEOREM RepeatsSafety ==
    ASSUME ~CacheMayFail
    PROVE  GatewaySpec => IdenticalQueryIsServed
  <1>1. ASSUME GatewayInv, [GatewayNext]_gatewayVars, NEW r \in Requests,
               pc[r] = "semantic", pc'[r] = "retrieve", FindsItself(input[r].query),
               NEW e \in cache, input[e.text.by] = input[r]
        PROVE  FALSE
    <2>1. r \notin before /\ Life!LookupSemantic(r) /\ PcNow'[r] = "retrieve"
      BY <1>1, MissOfThisLife
    <2>2. Life!TypeInv /\ Life!EntryMatchesText /\ Life!AskedModel
      BY <1>1 DEF GatewayInv, LifeInv, Life!Core
    <2>3. InputNow[r] = input[r] /\ InputNow[e.text.by] = input[e.text.by]
      <3>1. e.text.by \in Requests
        BY <1>1 DEF GatewayInv, TypeInv, TypeOK, Entry, Text
      <3>2. PcNow[e.text.by] # "new"
        BY <2>2 DEF Life!EntryMatchesText
      <3> QED
        BY <2>1, <3>1, <3>2, IsNow
    <2>4. Life!FindsItself(InputNow[r].query)
      BY <1>1, <2>3 DEF FindsItself, Life!FindsItself
    <2>5. "router" \notin Wired
      BY WiredAssumption
    <2> QED
      BY <1>1, <2>1, <2>2, <2>3, <2>4, <2>5, Life!RepeatIsServed, LifeConstants, WiringAssumption,
         SimilarityAssumption, NormAssumption
  <1>2. GatewayInv /\ [GatewayNext]_gatewayVars => [\A r \in Requests :
            pc[r] = "semantic" /\ pc'[r] = "retrieve" /\ FindsItself(input[r].query) =>
                ~ \E e \in cache : input[e.text.by] = input[r]]_vars
    BY <1>1
  <1> QED
    BY <1>2, GatewaySafety, PTL DEF GatewaySpec, IdenticalQueryIsServed

=============================================================================
