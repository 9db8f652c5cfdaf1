---------------------------- MODULE PacketStats ----------------------------
(***************************************************************************)
(* The packet statistics of one tunnel endpoint: enet-core/src/stats.rs.   *)
(*                                                                         *)
(* Only what the loss estimate depends on is kept.  Byte counters and      *)
(* rates are left out, and expected_loss is not a variable of its own: the *)
(* code adds the same gap to it and to seq_gaps, always together.  Every   *)
(* action is one critical section of the `inner' mutex.                    *)
(***************************************************************************)
EXTENDS Integers

CONSTANT MaxPlausibleGap    \* MAX_PLAUSIBLE_GAP: a larger jump is a new sequence space

ASSUME GapAssumption == MaxPlausibleGap \in Nat \ {0}

NoSeq == -1                 \* last_rx_seq = None

VARIABLES
    lastRxSeq,      \* inner.last_rx_seq
    windowRx,       \* inner.window_rx
    windowLoss,     \* inner.window_loss
    seqGaps         \* seq_gaps

statsVars == <<lastRxSeq, windowRx, windowLoss, seqGaps>>

StatsInit ==
    /\ lastRxSeq = NoSeq
    /\ windowRx = 0
    /\ windowLoss = 0
    /\ seqGaps = 0

StatsTypeOK ==
    /\ lastRxSeq \in Nat \cup {NoSeq}
    /\ windowRx \in Nat
    /\ windowLoss \in Nat
    /\ seqGaps \in Nat
-----------------------------------------------------------------------------
\* The sequence numbers strictly between the last one received and seq.
SeqGap(seq) == IF lastRxSeq = NoSeq THEN 0 ELSE seq - lastRxSeq - 1

\* Mutants of ChargedLoss: what plausible bugs would do.
ChargedLossOffByOne(seq) == IF SeqGap(seq) \in 1..MaxPlausibleGap THEN SeqGap(seq) + 1 ELSE 0
ChargedLossBackwards(seq) == IF SeqGap(seq) <= MaxPlausibleGap THEN SeqGap(seq) ELSE 0

\* The loss record_rx charges for a frame numbered seq: none for the first
\* frame, none when the number does not advance (the peer restarted), none
\* when it jumps implausibly far.
ChargedLoss(seq) == IF SeqGap(seq) \in 1..MaxPlausibleGap THEN SeqGap(seq) ELSE 0

\* record_rx(_, Some(seq)): whatever the gap, seq becomes the last one seen.
RecordRxSeq(seq) ==
    /\ windowRx' = windowRx + 1
    /\ seqGaps' = seqGaps + ChargedLoss(seq)
    /\ windowLoss' = windowLoss + ChargedLoss(seq)
    /\ lastRxSeq' = seq

\* record_rx(_, None)
RecordRxNoSeq ==
    /\ windowRx' = windowRx + 1
    /\ UNCHANGED <<lastRxSeq, windowLoss, seqGaps>>

ResetRxSequence ==
    /\ lastRxSeq' = NoSeq
    /\ windowLoss' = 0
    /\ UNCHANGED <<windowRx, seqGaps>>

\* snapshot() reads the window and starts a new one.
Snapshot ==
    /\ windowRx' = 0
    /\ windowLoss' = 0
    /\ UNCHANGED <<lastRxSeq, seqGaps>>
=============================================================================
