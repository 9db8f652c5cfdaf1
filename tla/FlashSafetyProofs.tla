------------------------- MODULE FlashSafetyProofs -------------------------
(***************************************************************************)
(* Proofs about LossTracking and about FlashSafety, which extends it: for  *)
(* every plausible gap and every bound, any number of viewers and every    *)
(* limit.  First LossTracking by itself.                                   *)
(***************************************************************************)
EXTENDS FlashSafety, TLAPS

\* Two Ethernet frames numbered one after the other by the same sender: if the
\* numbers advance, all those between them were counted as skipped.
Follows(f, g) ==
    /\ f.skip <= g.skip
    /\ g.seq > f.seq => g.seq - f.seq - 1 <= g.skip - f.skip

\* The frame received last and the frame to be sent next, in the same form.
Received == [seq |-> lastRxSeq, skip |-> rxSkip]
Upcoming == [seq |-> txSeq, skip |-> Skipped]

\* The wire is a chain of such frames that starts at the one received last and
\* ends at the one to be sent next.
WireChain == \A i \in 1..(Len(wire) - 1) : Follows(wire[i], wire[i + 1])
WireStart == wire # <<>> => /\ rxSkip <= wire[1].skip
                            /\ lastRxSeq # NoSeq => Follows(Received, wire[1])
WireEnd ==
    /\ wire # <<>> => Follows(wire[Len(wire)], Upcoming)
    /\ wire = <<>> /\ lastRxSeq # NoSeq => Follows(Received, Upcoming)

\* No mark is ahead of the numbers skipped so far.
WireMarks ==
    /\ rxSkip <= Skipped
    /\ \A i \in 1..Len(wire) : wire[i].skip <= Skipped

\* The inductive invariant: the loss charged is within what had been skipped
\* when the frame received last was sent.
LossInv ==
    /\ TypeOK
    /\ WireChain
    /\ WireStart
    /\ WireEnd
    /\ WireMarks
    /\ seqGaps <= rxSkip
-----------------------------------------------------------------------------
(***************************************************************************)
(* What record_rx charges (stats.rs:117-146) is a natural number, and with *)
(* the frame received last it is at most the numbers skipped since.        *)
(***************************************************************************)
LEMMA ChargedLossBounds ==
    ASSUME TypeOK, NEW f \in Frames
    PROVE  /\ ChargedLoss(f.seq) \in Nat
           /\ lastRxSeq # NoSeq /\ Follows(Received, f) => ChargedLoss(f.seq) <= f.skip - rxSkip
           /\ lastRxSeq = NoSeq => ChargedLoss(f.seq) = 0
  BY GapAssumption DEF TypeOK, StatsTypeOK, ChargedLoss, SeqGap, Frames, Follows, Received, NoSeq

(***************************************************************************)
(* Every step keeps the types.                                             *)
(***************************************************************************)
LEMMA TypeStep == TypeOK /\ [Next]_vars => TypeOK'
<1> SUFFICES ASSUME TypeOK, [Next]_vars
             PROVE  TypeOK'
  OBVIOUS
<1> USE DEF TypeOK, StatsTypeOK, NoSeq
<1>1. CASE SendEthernet
  <2> DEFINE f == [seq |-> txSeq, skip |-> Skipped]
  <2>1. f \in Frames
    BY DEF Frames, Skipped
  <2> HIDE DEF f
  <2>2. wire' \in {Append(wire, f), Append(Append(wire, f), f)}
    BY <1>1, Zenon DEF SendEthernet, f
  <2>3. Append(wire, f) \in Seq(Frames)
    BY <2>1
  <2>4. wire' \in Seq(Frames)
    BY <2>1, <2>2, <2>3
  <2>5. /\ UNCHANGED <<statsVars, ctlWire, restarts, ctlSent, ethLost, rxSkip>>
        /\ txSeq' = txSeq + 1
        /\ ethSent' = ethSent + 1
    BY <1>1, Zenon DEF SendEthernet
  <2>6. QED
    BY <2>4, <2>5 DEF statsVars
<1>2. CASE LoseEthernet
  BY <1>2 DEF LoseEthernet, statsVars
<1>3. CASE SendControl
  BY <1>3 DEF SendControl, statsVars
<1>4. CASE RestartSender
  BY <1>4 DEF RestartSender, statsVars, histVars
<1>5. CASE ReceiveEthernet
  <2> DEFINE f == Head(wire)
  <2>1. f \in Frames /\ Tail(wire) \in Seq(Frames)
    BY <1>5 DEF ReceiveEthernet
  <2>2. f.seq \in Nat /\ f.skip \in Nat
    BY <2>1 DEF Frames
  <2>3. ChargedLoss(f.seq) \in Nat
    BY <2>1, ChargedLossBounds
  <2> HIDE DEF f
  <2>4. wire' \in Seq(Frames) /\ rxSkip' \in Nat
    BY <1>5, <2>1, <2>2 DEF ReceiveEthernet, f
  <2>5. RecordRxSeq(f.seq) /\ UNCHANGED <<txSeq, ctlWire, restarts, ctlSent, ethSent, ethLost>>
    BY <1>5, Zenon DEF ReceiveEthernet, f
  <2>6. UNCHANGED <<txSeq, ctlWire, restarts, ctlSent, ethSent, ethLost>>
    BY <2>5
  <2>7. StatsTypeOK'
    BY <2>2, <2>3, <2>5 DEF RecordRxSeq
  <2>8. QED
    BY <2>4, <2>6, <2>7
<1>6. CASE ReceiveControl
  BY <1>6 DEF ReceiveControl, RecordRxNoSeq, histVars
<1>7. CASE PeerIdentityChanged
  BY <1>7 DEF PeerIdentityChanged, ResetRxSequence, netVars, histVars
<1>8. CASE PollStatus
  BY <1>8 DEF PollStatus, Snapshot, netVars, histVars
<1>9. CASE UNCHANGED vars
  BY <1>9 DEF vars, statsVars, netVars, histVars
<1>10. QED
  BY <1>1, <1>2, <1>3, <1>4, <1>5, <1>6, <1>7, <1>8, <1>9 DEF Next

(***************************************************************************)
(* The statistics and the channel keep their types; in particular no       *)
(* counter of PacketStats ever goes below zero, although record_rx         *)
(* subtracts sequence numbers (stats.rs:127-130).                          *)
(***************************************************************************)
THEOREM TypeCorrect == Spec => []TypeOK
<1>1. Init => TypeOK
  BY DEF Init, StatsInit, TypeOK, StatsTypeOK, NoSeq
<1>2. QED
  BY <1>1, TypeStep, PTL DEF Spec
-----------------------------------------------------------------------------
(***************************************************************************)
(* A frame followed by the one to be sent next is still so when a number   *)
(* is skipped, and when the sender starts over.                            *)
(***************************************************************************)
LEMMA FollowsUpcoming ==
    ASSUME NEW g \in Frames, NEW u \in Frames, NEW v \in Frames, Follows(g, u),
           \/ v.seq = u.seq + 1 /\ v.skip = u.skip + 1
           \/ v.seq = 1 /\ v.skip = u.skip
    PROVE  Follows(g, v)
  BY DEF Follows, Frames

(***************************************************************************)
(* Steps that leave the wire and the receiver's sequence alone and skip    *)
(* one number, or restart the sender, keep the chain.                      *)
(***************************************************************************)
LEMMA UpcomingStep ==
    ASSUME LossInv, TypeOK',
           UNCHANGED <<lastRxSeq, seqGaps, wire, rxSkip>>,
           \/ txSeq' = txSeq + 1 /\ Skipped' = Skipped + 1
           \/ txSeq' = 1 /\ Skipped' = Skipped
    PROVE  LossInv'
<1> USE DEF LossInv
<1>1. /\ wire \in Seq(Frames) /\ lastRxSeq \in Nat \cup {NoSeq} /\ rxSkip \in Nat
      /\ txSeq \in Nat /\ txSeq' \in Nat /\ Skipped \in Nat /\ Skipped' \in Nat
  <2>1. wire \in Seq(Frames) /\ lastRxSeq \in Nat \cup {NoSeq} /\ rxSkip \in Nat
    BY DEF TypeOK, StatsTypeOK
  <2>2. txSeq \in Nat /\ txSeq' \in Nat
    BY DEF TypeOK
  <2>3. Skipped \in Nat /\ Skipped' \in Nat
    <3>1. Skipped \in Nat
      BY DEF TypeOK, Skipped
    <3>2. QED
      BY <3>1
  <2>4. QED
    BY <2>1, <2>2, <2>3
<1>2. ASSUME NEW g \in Frames, Follows(g, Upcoming) PROVE Follows(g, Upcoming')
  <2> DEFINE u == Upcoming
             v == [seq |-> txSeq', skip |-> Skipped']
  <2>1. u \in Frames /\ v \in Frames /\ v = Upcoming'
    BY <1>1 DEF Upcoming, Frames
  <2>2. \/ v.seq = u.seq + 1 /\ v.skip = u.skip + 1
        \/ v.seq = 1 /\ v.skip = u.skip
    BY DEF Upcoming
  <2> HIDE DEF u, v
  <2>3. Follows(g, u)
    BY <1>2 DEF u
  <2>4. Follows(g, v)
    BY <2>1, <2>2, <2>3, FollowsUpcoming
  <2>5. QED
    BY <2>1, <2>4
<1>3. WireChain' /\ WireStart' /\ Received' = Received
  BY DEF WireChain, WireStart, Received
<1>4. ASSUME wire # <<>> PROVE Follows(wire[Len(wire)], Upcoming')
  <2>1. wire[Len(wire)] \in Frames /\ Follows(wire[Len(wire)], Upcoming)
    BY <1>1, <1>4 DEF WireEnd
  <2>2. QED
    BY <1>2, <2>1
<1>5. ASSUME lastRxSeq # NoSeq, wire = <<>> PROVE Follows(Received, Upcoming')
  <2>1. Received \in Frames /\ Follows(Received, Upcoming)
    BY <1>1, <1>5 DEF WireEnd, Received, Frames
  <2>2. QED
    BY <1>2, <2>1
<1>6. WireEnd'
  BY <1>3, <1>4, <1>5 DEF WireEnd
<1>7. WireMarks'
  <2>1. Skipped <= Skipped'
    BY <1>1
  <2>2. \A i \in 1..Len(wire) : wire[i].skip \in Nat
    <3> SUFFICES ASSUME NEW i \in 1..Len(wire) PROVE wire[i].skip \in Nat
      OBVIOUS
    <3>1. wire[i] \in Frames
      BY <1>1
    <3>2. QED
      BY <3>1 DEF Frames
  <2>3. QED
    BY <1>1, <2>1, <2>2 DEF WireMarks
<1>8. QED
  BY <1>3, <1>6, <1>7

(***************************************************************************)
(* An Ethernet frame appended to the wire extends the chain.               *)
(***************************************************************************)
LEMMA SendStep == LossInv /\ TypeOK' /\ SendEthernet => LossInv'
<1> SUFFICES ASSUME LossInv, TypeOK', SendEthernet
             PROVE  LossInv'
  OBVIOUS
<1> DEFINE f == [seq |-> txSeq, skip |-> Skipped]
<1>1. f \in Frames /\ f = Upcoming
  BY DEF LossInv, TypeOK, StatsTypeOK, Frames, Skipped, Upcoming
<1>2. /\ wire' \in {Append(wire, f), Append(Append(wire, f), f)}
      /\ UNCHANGED <<statsVars, ctlWire, restarts, ctlSent, ethLost, rxSkip>>
      /\ txSeq' = txSeq + 1
  BY Zenon DEF SendEthernet
<1> HIDE DEF f
<1>3. /\ wire \in Seq(Frames) /\ wire' \in Seq(Frames)
      /\ lastRxSeq \in Nat \cup {NoSeq} /\ rxSkip \in Nat /\ txSeq \in Nat /\ Skipped \in Nat
  BY DEF LossInv, TypeOK, StatsTypeOK, Skipped
<1>4. /\ wire' # <<>>
      /\ Len(wire') \in {Len(wire) + 1, Len(wire) + 2}
      /\ \A i \in 1..Len(wire) : wire'[i] = wire[i]
      /\ \A i \in (Len(wire) + 1)..Len(wire') : wire'[i] = f
  <2>1. CASE wire' = Append(wire, f)
    BY <1>1, <1>3, <2>1
  <2>2. CASE wire' = Append(Append(wire, f), f)
    BY <1>1, <1>3, <2>2
  <2>3. QED
    BY <1>2, <2>1, <2>2
<1>5. Follows(f, f) /\ Follows(f, Upcoming')
  BY <1>1, <1>2, <1>3 DEF Follows, Upcoming, Skipped
<1>6. WireChain'
  <2> SUFFICES ASSUME NEW i \in 1..(Len(wire') - 1)
               PROVE  Follows(wire'[i], wire'[i + 1])
    BY DEF WireChain
  <2>1. CASE i < Len(wire)
    BY <1>3, <1>4, <2>1 DEF WireChain, LossInv
  <2>2. CASE i = Len(wire)
    BY <1>1, <1>3, <1>4, <2>2 DEF WireEnd, LossInv
  <2>3. CASE i > Len(wire)
    BY <1>3, <1>4, <1>5, <2>3
  <2>4. QED
    BY <1>3, <2>1, <2>2, <2>3
<1>7. WireStart'
  <2>1. CASE wire = <<>>
    BY <1>1, <1>2, <1>3, <1>4, <2>1 DEF WireEnd, WireMarks, WireStart, LossInv, Received, statsVars, Upcoming
  <2>2. CASE wire # <<>>
    BY <1>2, <1>3, <1>4, <2>2 DEF WireStart, LossInv, Received, statsVars
  <2>3. QED
    BY <2>1, <2>2
<1>8. WireEnd'
  BY <1>3, <1>4, <1>5 DEF WireEnd
<1>9. WireMarks'
  <2>1. f.skip = Skipped /\ Skipped' = Skipped
    BY <1>1, <1>2 DEF Upcoming, Skipped
  <2>2. QED
    BY <1>2, <1>3, <1>4, <2>1 DEF WireMarks, LossInv
<1>10. QED
  BY <1>2, <1>6, <1>7, <1>8, <1>9 DEF LossInv, statsVars

(***************************************************************************)
(* The frame received takes the place of the one received before; what is  *)
(* charged for it is within what was skipped between the two.              *)
(***************************************************************************)
LEMMA ReceiveStep == LossInv /\ TypeOK' /\ ReceiveEthernet => LossInv'
<1> SUFFICES ASSUME LossInv, TypeOK', ReceiveEthernet
             PROVE  LossInv'
  OBVIOUS
<1> DEFINE f == Head(wire)
<1>1. /\ wire # <<>> /\ wire' = Tail(wire) /\ wire \in Seq(Frames)
      /\ f = wire[1] /\ f \in Frames
  BY DEF ReceiveEthernet, LossInv, TypeOK
<1>2. RecordRxSeq(f.seq) /\ rxSkip' = f.skip /\ UNCHANGED <<txSeq, ctlSent, ethLost>>
  BY Zenon DEF ReceiveEthernet
<1> HIDE DEF f
<1>3. Received' = f /\ lastRxSeq' = f.seq
  BY <1>1, <1>2 DEF Received, RecordRxSeq, Frames
<1>4. /\ Len(wire') = Len(wire) - 1
      /\ \A i \in 1..Len(wire') : wire'[i] = wire[i + 1]
  BY <1>1
<1>5. WireChain'
  BY <1>1, <1>4 DEF WireChain, LossInv
<1>6. WireStart'
  <2> SUFFICES ASSUME wire' # <<>>
               PROVE  Follows(f, wire'[1])
    BY <1>2, <1>3 DEF WireStart, Follows
  <2>1. 1 \in 1..(Len(wire) - 1) /\ wire'[1] = wire[2]
    BY <1>1, <1>4
  <2>2. QED
    BY <1>1, <2>1 DEF WireChain, LossInv
<1>7. WireEnd'
  <2>1. Upcoming' = Upcoming
    BY <1>2 DEF Upcoming, Skipped
  <2>2. Follows(wire[Len(wire)], Upcoming)
    BY <1>1 DEF WireEnd, LossInv
  <2>3. ASSUME wire' # <<>> PROVE wire'[Len(wire')] = wire[Len(wire)]
    BY <1>1, <1>4, <2>3
  <2>4. ASSUME wire' = <<>> PROVE f = wire[Len(wire)]
    <3>1. Len(wire) - 1 = 0
      BY <1>4, <2>4
    <3>2. Len(wire) = 1
      BY <1>1, <3>1
    <3>3. QED
      BY <1>1, <3>2
  <2>5. QED
    BY <1>3, <2>1, <2>2, <2>3, <2>4 DEF WireEnd
<1>8. seqGaps' <= rxSkip'
  <2>1. /\ ChargedLoss(f.seq) \in Nat
        /\ lastRxSeq # NoSeq /\ Follows(Received, f) => ChargedLoss(f.seq) <= f.skip - rxSkip
        /\ lastRxSeq = NoSeq => ChargedLoss(f.seq) = 0
    BY <1>1, ChargedLossBounds DEF LossInv
  <2>2. /\ rxSkip <= f.skip
        /\ lastRxSeq # NoSeq => Follows(Received, f)
        /\ seqGaps <= rxSkip
    BY <1>1 DEF WireStart, LossInv
  <2>3. f.skip \in Nat /\ rxSkip \in Nat /\ seqGaps \in Nat
    BY <1>1 DEF LossInv, TypeOK, StatsTypeOK, Frames
  <2>4. seqGaps' = seqGaps + ChargedLoss(f.seq)
    BY <1>2 DEF RecordRxSeq
  <2>5. QED
    BY <1>2, <2>1, <2>2, <2>3, <2>4
<1>9. WireMarks'
  <2>1. Skipped' = Skipped
    BY <1>2 DEF Skipped
  <2>2. QED
    BY <1>1, <1>2, <1>4, <2>1 DEF WireMarks, LossInv
<1>10. QED
  BY <1>5, <1>6, <1>7, <1>8, <1>9 DEF LossInv

(***************************************************************************)
(* The loss that record_rx charges never exceeds the numbers that control  *)
(* and lost frames used up (LossIsAccounted), for any number of frames,    *)
(* restarts, resets and polls and whatever gap is held plausible, as long  *)
(* as the network keeps the order of Ethernet frames.                      *)
(***************************************************************************)
THEOREM LossAccounted == Spec => []LossIsAccounted
<1>1. Init => LossInv
  BY DEF Init, StatsInit, LossInv, TypeOK, StatsTypeOK, WireChain, WireStart, WireEnd, WireMarks, NoSeq, Skipped
<1>2. LossInv /\ [Next]_vars => LossInv'
  <2> SUFFICES ASSUME LossInv, [Next]_vars
               PROVE  LossInv'
    OBVIOUS
  <2>1. TypeOK'
    BY TypeStep DEF LossInv
  <2>2. CASE SendEthernet
    BY <2>1, <2>2, SendStep
  <2>3. CASE LoseEthernet
    BY <2>1, <2>3, UpcomingStep DEF LoseEthernet, statsVars, Skipped, LossInv, TypeOK
  <2>4. CASE SendControl
    BY <2>1, <2>4, UpcomingStep DEF SendControl, statsVars, Skipped, LossInv, TypeOK
  <2>5. CASE RestartSender
    BY <2>1, <2>5, UpcomingStep DEF RestartSender, statsVars, histVars, Skipped
  <2>6. CASE ReceiveEthernet
    BY <2>1, <2>6, ReceiveStep
  <2>7. CASE ReceiveControl
    BY <2>1, <2>7 DEF ReceiveControl, RecordRxNoSeq, histVars, LossInv,
       WireChain, WireStart, WireEnd, WireMarks, Received, Upcoming, Skipped
  <2>8. CASE PeerIdentityChanged
    BY <2>1, <2>8 DEF PeerIdentityChanged, ResetRxSequence, netVars, histVars, LossInv,
       WireChain, WireStart, WireEnd, WireMarks, Received, Upcoming, Skipped, Follows
  <2>9. CASE PollStatus
    BY <2>1, <2>9 DEF PollStatus, Snapshot, netVars, histVars, LossInv,
       WireChain, WireStart, WireEnd, WireMarks, Received, Upcoming, Skipped
  <2>10. CASE UNCHANGED vars
    BY <2>1, <2>10 DEF vars, statsVars, netVars, histVars, LossInv,
       WireChain, WireStart, WireEnd, WireMarks, Received, Upcoming, Skipped
  <2>11. QED
    BY <2>2, <2>3, <2>4, <2>5, <2>6, <2>7, <2>8, <2>9, <2>10 DEF Next
<1>3. LossInv => LossIsAccounted
  BY DEF LossInv, WireMarks, LossIsAccounted, TypeOK, StatsTypeOK, Skipped
<1>4. QED
  BY <1>1, <1>2, <1>3, PTL DEF Spec
-----------------------------------------------------------------------------
(***************************************************************************)
(* As long as nobody else ends the window, a viewer's window is the one    *)
(* the statistics keep (stats.rs:205-231).                                 *)
(***************************************************************************)
WindowIsOwn ==
    \A v \in Viewers : alone[v] => lost[v] = windowLoss /\ got[v] = windowRx

SafetyInv ==
    /\ TypeOK
    /\ lost \in [Viewers -> Int] /\ got \in [Viewers -> Int]
    /\ alone \in [Viewers -> BOOLEAN]
    /\ verdict \in [Viewers -> {"none", "safe", "unsafe"}]
    /\ WindowIsOwn
-----------------------------------------------------------------------------
(***************************************************************************)
(* To the statistics and the network, the verdicts are nothing but         *)
(* snapshots: every step of FlashSafety is one of LossTracking.            *)
(***************************************************************************)
LEMMA SafetyStep == SafetyNext \/ UNCHANGED allVars => [Next]_vars
  BY DEF SafetyNext, Send, Receive, PeerChanges, ReadyChanges, Silence, Judge, Next, allVars

(***************************************************************************)
(* Whoever asks for verdicts, and however often, the loss estimate stays   *)
(* within what LossTracking promises: FlashSafety implements it.           *)
(***************************************************************************)
THEOREM ImplementsLossTracking == SafetySpec => Spec
<1>1. SafetyInit => Init
  BY DEF SafetyInit
<1>2. [SafetyNext]_allVars => [Next]_vars
  BY SafetyStep
<1>3. QED
  BY <1>1, <1>2, PTL DEF SafetySpec, Spec

(***************************************************************************)
(* The window and the viewers' counts stay equal (stats.rs:117-153,        *)
(* 205-231; main.rs:743-800 of the gateway).                               *)
(***************************************************************************)
LEMMA SafetyInvStep == SafetyInv /\ [SafetyNext]_allVars => SafetyInv'
<1> SUFFICES ASSUME SafetyInv, [SafetyNext]_allVars
             PROVE  SafetyInv'
  OBVIOUS
<1>1. TypeOK'
  BY SafetyStep, TypeStep DEF SafetyInv
<1>0. /\ windowLoss \in Nat /\ windowRx \in Nat /\ seqGaps \in Nat
      /\ windowLoss' \in Nat /\ windowRx' \in Nat /\ seqGaps' \in Nat
  BY <1>1 DEF SafetyInv, TypeOK, StatsTypeOK
<1>2. CASE Send
  <2>1. UNCHANGED statsVars
    BY <1>2 DEF Send, SendEthernet, LoseEthernet, SendControl, RestartSender
  <2>2. QED
    BY <1>1, <1>2, <2>1 DEF Send, safetyVars, statsVars, SafetyInv, WindowIsOwn
<1>3. CASE Receive
  <2>1. \E gap \in Int : /\ windowRx' = windowRx + 1
                         /\ seqGaps' = seqGaps + gap
                         /\ windowLoss' = windowLoss + gap
    <3>1. CASE ReceiveEthernet
      <4>1. ChargedLoss(Head(wire).seq) \in Int
        BY <3>1, GapAssumption DEF ChargedLoss, SeqGap, ReceiveEthernet, SafetyInv, TypeOK, StatsTypeOK, Frames, NoSeq
      <4>2. QED
        BY <3>1, <4>1 DEF ReceiveEthernet, RecordRxSeq
    <3>2. CASE ReceiveControl
      BY <3>2, <1>0, 0 \in Int DEF ReceiveControl, RecordRxNoSeq
    <3>3. QED
      BY <1>3, <3>1, <3>2 DEF Receive
  <2>2. PICK gap \in Int : /\ windowRx' = windowRx + 1
                           /\ seqGaps' = seqGaps + gap
                           /\ windowLoss' = windowLoss + gap
    BY <2>1
  <2> gap = seqGaps' - seqGaps
    BY <1>0, <2>2
  <2>3. /\ lost' = [v \in Viewers |-> lost[v] + gap]
        /\ got' = [v \in Viewers |-> got[v] + 1]
        /\ alone' = alone /\ verdict' = verdict
    BY <1>3 DEF Receive
  <2>4. QED
    BY <1>0, <1>1, <2>1, <2>2, <2>3 DEF SafetyInv, WindowIsOwn
<1>4. CASE PeerChanges
  BY <1>1, <1>4 DEF PeerChanges, SafetyInv, WindowIsOwn
<1>5. CASE ReadyChanges \/ Silence
  BY <1>1, <1>5 DEF ReadyChanges, Silence, vars, statsVars, SafetyInv, WindowIsOwn
<1>6. ASSUME NEW v \in Viewers, Judge(v)
      PROVE  SafetyInv'
  <2>1. /\ lost' = [lost EXCEPT ![v] = 0] /\ got' = [got EXCEPT ![v] = 0]
        /\ windowLoss' = 0 /\ windowRx' = 0
    BY <1>6 DEF Judge, PollStatus, Snapshot
  <2>2. alone' = [w \in Viewers |-> w = v]
    BY <1>6 DEF Judge
  <2>3. lost' \in [Viewers -> Int] /\ got' \in [Viewers -> Int]
    BY <2>1 DEF SafetyInv
  <2>4. alone' \in [Viewers -> BOOLEAN]
    BY <2>2
  <2>5. WindowIsOwn'
    BY <2>1, <2>2 DEF SafetyInv, WindowIsOwn
  <2>6. verdict' \in [Viewers -> {"none", "safe", "unsafe"}]
    BY <1>6 DEF Judge, SafetyInv
  <2>7. QED
    BY <1>1, <2>3, <2>4, <2>5, <2>6 DEF SafetyInv
<1>7. CASE UNCHANGED allVars
  BY <1>1, <1>7 DEF allVars, safetyVars, vars, statsVars, SafetyInv, WindowIsOwn
<1>8. QED
  BY <1>2, <1>3, <1>4, <1>5, <1>6, <1>7 DEF SafetyNext

(***************************************************************************)
(* "Safe" is the truth about the losses of the viewer's own window, for    *)
(* every limit and any number of viewers (safety.rs:107-116).              *)
(***************************************************************************)
THEOREM SafeVerdicts == SafetySpec => SafeMeansFewLosses
<1>1. SafetyInit => SafetyInv
  <2>1. Init => TypeOK
    BY DEF Init, StatsInit, TypeOK, StatsTypeOK, NoSeq
  <2>2. QED
    BY <2>1 DEF SafetyInit, SafetyInv, WindowIsOwn, Init, StatsInit
<1>2. SafetyInv => \A v \in Viewers :
          Judge(v) /\ verdict'[v] = "safe" /\ alone[v] /\ ~idle => ~ExceedsLimit(lost[v], got[v])
  <2> SUFFICES ASSUME SafetyInv, NEW v \in Viewers,
                      Judge(v), verdict'[v] = "safe", alone[v], ~idle
               PROVE  ~ExceedsLimit(lost[v], got[v])
    OBVIOUS
  <2>1. lost[v] = windowLoss /\ got[v] = windowRx
    BY DEF SafetyInv, WindowIsOwn
  <2>2. PICK slow \in BOOLEAN :
            verdict' = [verdict EXCEPT ![v] = IF Reasons \/ slow THEN "unsafe" ELSE "safe"]
    BY Zenon DEF Judge
  <2>3. verdict'[v] = IF Reasons \/ slow THEN "unsafe" ELSE "safe"
    BY <2>2 DEF SafetyInv
  <2>4. ~Reasons
    BY <2>3
  <2>5. QED
    BY <2>1, <2>4, Zenon DEF Reasons
<1>3. QED
  BY <1>1, <1>2, SafetyInvStep, PTL DEF SafetySpec, SafeMeansFewLosses
=============================================================================
