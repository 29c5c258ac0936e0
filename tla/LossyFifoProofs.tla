--------------------------- MODULE LossyFifoProofs ---------------------------
(* What the lossy FIFO guarantees, for every set of messages. *)
EXTENDS LossyFifo, SequenceFacts, TLAPS

\* The state of the channel is well typed.
THEOREM TypeCorrect == Spec => []TypeOK
<1>1. Init => TypeOK
  BY DEF Init, TypeOK
<1>2. TypeOK /\ [Next]_vars => TypeOK'
  <2> SUFFICES ASSUME TypeOK, [Next]_vars PROVE TypeOK'
    OBVIOUS
  <2> USE DEF TypeOK
  <2>1. ASSUME NEW m \in Msg, Accept(m) PROVE TypeOK'
    BY <2>1 DEF Accept
  <2>5. ASSUME NEW m \in Msg, Reject(m) PROVE TypeOK'
    BY <2>5 DEF Reject
  <2>2. CASE Deliver
    BY <2>2 DEF Deliver
  <2>3. CASE Lose
    BY <2>3 DEF Lose
  <2>4. CASE UNCHANGED vars
    BY <2>4 DEF vars
  <2> QED
    BY <2>1, <2>2, <2>3, <2>4, <2>5 DEF Next, Settle
<1> QED
  BY <1>1, <1>2, PTL DEF Spec

\* No message is delivered twice, nor accepted again once it is in the channel.
THEOREM DeliveredOnce == Spec => []AtMostOnce
<1>1. Init => AtMostOnce
  BY DEF Init, AtMostOnce, IsInjective, Range
<1>2. TypeOK /\ AtMostOnce /\ [Next]_vars => AtMostOnce'
  <2> SUFFICES ASSUME TypeOK, AtMostOnce, [Next]_vars PROVE AtMostOnce'
    OBVIOUS
  <2> USE DEF TypeOK, AtMostOnce
  <2>1. ASSUME NEW m \in Msg, Accept(m) PROVE AtMostOnce'
    <3>1. Range(transit') = Range(transit) \cup {m} /\ IsInjective(transit')
      BY <2>1, RangeOfAppend, InjectiveAppend DEF Accept
    <3> QED
      BY <2>1, <3>1 DEF Accept
  <2>2. ASSUME NEW m \in Msg, Reject(m) PROVE AtMostOnce'
    BY <2>2 DEF Reject
  <2>3. CASE Settle
    <3>1. /\ Range(transit) = {Head(transit)} \cup Range(transit')
          /\ IsInjective(transit') /\ Head(transit) \notin Range(transit')
      BY <2>3, RangeOfTail, InjectiveTail DEF Settle, Deliver, Lose
    <3>2. CASE Deliver
      <4>1. Head(transit) \in Msg
        BY <3>2 DEF Deliver
      <4>2. Range(delivered') = Range(delivered) \cup {Head(transit)} /\ IsInjective(delivered')
        BY <3>1, <3>2, <4>1, RangeOfAppend, InjectiveAppend DEF Deliver
      <4> QED
        BY <3>1, <3>2, <4>2 DEF Deliver
    <3>3. CASE Lose
      BY <3>1, <3>3 DEF Lose
    <3> QED
      BY <2>3, <3>2, <3>3 DEF Settle
  <2>4. CASE UNCHANGED vars
    BY <2>4 DEF vars
  <2> QED
    BY <2>1, <2>2, <2>3, <2>4 DEF Next
<1> QED
  BY <1>1, <1>2, TypeCorrect, PTL DEF Spec
=============================================================================
