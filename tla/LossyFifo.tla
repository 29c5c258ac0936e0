------------------------------ MODULE LossyFifo ------------------------------
(***************************************************************************)
(* What the event sink promises, without saying how: a lossy FIFO channel. *)
(* A message is offered once; it is then accepted or rejected.  Accepted   *)
(* messages are delivered in the order of acceptance, each at most once,   *)
(* and the channel may lose the oldest message instead of delivering it.   *)
(* EventSink implements this specification.                                *)
(***************************************************************************)
EXTENDS Integers, Sequences, Functions

CONSTANT Msg                 \* the messages that can be offered

VARIABLES
  fresh,       \* messages not yet accepted or rejected
  transit,     \* accepted and not yet settled, oldest first
  delivered    \* delivered, in order of delivery

vars == <<fresh, transit, delivered>>

TypeOK ==
  /\ fresh \in SUBSET Msg
  /\ transit \in Seq(Msg)
  /\ delivered \in Seq(Msg)

Init ==
  /\ fresh = Msg
  /\ transit = <<>>
  /\ delivered = <<>>

Accept(m) ==
  /\ m \in fresh
  /\ fresh' = fresh \ {m}
  /\ transit' = Append(transit, m)
  /\ UNCHANGED delivered

Reject(m) ==
  /\ m \in fresh
  /\ fresh' = fresh \ {m}
  /\ UNCHANGED <<transit, delivered>>

Deliver ==
  /\ transit # <<>>
  /\ transit' = Tail(transit)
  /\ delivered' = Append(delivered, Head(transit))
  /\ UNCHANGED fresh

Lose ==
  /\ transit # <<>>
  /\ transit' = Tail(transit)
  /\ UNCHANGED <<fresh, delivered>>

Settle == Deliver \/ Lose

Next == (\E m \in Msg : Accept(m) \/ Reject(m)) \/ Settle

Spec == Init /\ [][Next]_vars

\* An accepted message does not stay in the channel for ever.
FairSpec == Spec /\ WF_vars(Settle)
-----------------------------------------------------------------------------
\* No message is delivered twice, none is delivered and still in transit, and
\* none of them can be accepted again.
AtMostOnce ==
  /\ IsInjective(delivered)
  /\ IsInjective(transit)
  /\ Range(delivered) \cap Range(transit) = {}
  /\ (Range(delivered) \cup Range(transit)) \cap fresh = {}
=============================================================================
