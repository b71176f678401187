----------------------------- MODULE RoutedCall -----------------------------
(***************************************************************************)
(* What the router and the fallback walk together promise for one call:    *)
(* it is refused if no backend passes the hard filters; otherwise a set of *)
(* eligible backends is fixed, each of them is tried or passed over at     *)
(* most once, the answer comes from one of those that remain, and the call *)
(* is given up only when none remain.  How backends are ranked, and the    *)
(* circuit breakers, are not visible here.                                 *)
(***************************************************************************)
CONSTANTS Calls, Backends

VARIABLES
    status,    \* of each call
    eligible,  \* the backends that pass the hard filters for it
    options,   \* those it may still be answered by
    server     \* the backend that answered it

absVars == <<status, eligible, options, server>>

Nobody == "nobody"

AbsInit ==
    /\ status = [c \in Calls |-> "new"]
    /\ eligible = [c \in Calls |-> {}]
    /\ options = [c \in Calls |-> {}]
    /\ server = [c \in Calls |-> Nobody]

Accept(c) ==
    /\ status[c] # "pending"
    /\ status' = [status EXCEPT ![c] = "pending"]
    /\ server' = [server EXCEPT ![c] = Nobody]
    /\ \E E \in SUBSET Backends :
         /\ eligible' = [eligible EXCEPT ![c] = E]
         /\ \E O \in (SUBSET E) \ {{}} : options' = [options EXCEPT ![c] = O]

Refuse(c) ==
    /\ status[c] # "pending"
    /\ status' = [status EXCEPT ![c] = "refused"]
    /\ eligible' = [eligible EXCEPT ![c] = {}]
    /\ options' = [options EXCEPT ![c] = {}]
    /\ server' = [server EXCEPT ![c] = Nobody]

RuleOut(c) ==
    /\ status[c] = "pending"
    /\ UNCHANGED <<status, eligible, server>>
    /\ \E b \in options[c] : options' = [options EXCEPT ![c] = @ \ {b}]

Answer(c) ==
    /\ status[c] = "pending"
    /\ status' = [status EXCEPT ![c] = "answered"]
    /\ \E b \in options[c] : server' = [server EXCEPT ![c] = b]
    /\ UNCHANGED <<eligible, options>>

GiveUp(c) ==
    /\ status[c] = "pending" /\ options[c] = {}
    /\ status' = [status EXCEPT ![c] = "unavailable"]
    /\ UNCHANGED <<eligible, options, server>>

Abandon(c) ==
    /\ status[c] = "pending"
    /\ status' = [status EXCEPT ![c] = "cancelled"]
    /\ UNCHANGED <<eligible, options, server>>

AbsNext ==
    \E c \in Calls : \/ Accept(c) \/ Refuse(c) \/ RuleOut(c)
                     \/ Answer(c) \/ GiveUp(c) \/ Abandon(c)

AbsSpec == AbsInit /\ [][AbsNext]_absVars

=============================================================================
