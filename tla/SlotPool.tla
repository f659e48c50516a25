------------------------------ MODULE SlotPool ------------------------------
(***************************************************************************)
(* What the transcode session manager promises to its callers, without     *)
(* saying how: a pool of Limit encoder slots.  A request is granted a slot *)
(* while one is free, it is refused only at a moment when every slot is    *)
(* taken or when its encoder could not be started, and an encoder runs     *)
(* only for a request that holds a slot.                                   *)
(*                                                                         *)
(* Sessions implements this specification (see Sessions!Pool).             *)
(***************************************************************************)
EXTENDS Naturals, FiniteSets

CONSTANTS
  Requests,   \* the HTTP requests for a transcoded stream
  Limit       \* the number of encoder slots

VARIABLES
  holders,    \* the requests that hold a slot
  encoding,   \* the requests whose encoder runs
  refused     \* the requests answered with an error

poolVars == <<holders, encoding, refused>>

Init ==
  /\ holders = {}
  /\ encoding = {}
  /\ refused = {}

Grant(r) ==
  /\ r \notin holders
  /\ Cardinality(holders) < Limit
  /\ holders' = holders \union {r}
  /\ UNCHANGED <<encoding, refused>>

Refuse(r) ==
  /\ r \notin holders
  /\ Cardinality(holders) = Limit
  /\ refused' = refused \union {r}
  /\ UNCHANGED <<holders, encoding>>

Encode(r) ==
  /\ r \in holders
  /\ encoding' = encoding \union {r}
  /\ UNCHANGED <<holders, refused>>

StopEncoding(r) ==
  /\ encoding' = encoding \ {r}
  /\ UNCHANGED <<holders, refused>>

\* A slot is given back only after its encoder stopped; a request whose
\* encoder never started is refused in the same step.
GiveBack(r) ==
  /\ r \in holders \ encoding
  /\ holders' = holders \ {r}
  /\ refused' \in {refused, refused \union {r}}
  /\ UNCHANGED encoding

Next ==
  \E r \in Requests :
    \/ Grant(r)
    \/ Refuse(r)
    \/ Encode(r)
    \/ StopEncoding(r)
    \/ GiveBack(r)

Spec == Init /\ [][Next]_poolVars
=============================================================================
