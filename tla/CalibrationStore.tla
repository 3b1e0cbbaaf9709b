--------------------------- MODULE CalibrationStore -------------------------
(***************************************************************************)
(* Operator feedback and the calibration report                            *)
(* (pkg/confidence/calibration_store.go and the handlers /feedback and     *)
(* /calibration).  The store is guarded by a sync.RWMutex, modelled by its *)
(* Go semantics: a writer that waits blocks every reader that comes after  *)
(* it, and an unlocking writer lets in the readers that wait, before the   *)
(* next writer.                                                            *)
(*                                                                         *)
(* A feedback is a record [id, conf, correct, whole]: its confidence in    *)
(* tenths, which nothing checks, whether the predicted root cause was      *)
(* confirmed and whether it names all four components, without which it    *)
(* does not train.  The learned weights are represented by the positions,  *)
(* in all the feedback received, of what they were trained on.             *)
(***************************************************************************)
EXTENDS Integers, Sequences, FiniteSets, FiniteSetsExt, Functions

CONSTANTS
    Reporters,    \* GET /calibration requests in flight
    Senders,      \* POST /feedback requests in flight
    Ids,          \* prediction ids
    Confidences,  \* predicted confidences, in tenths
    MaxSteps      \* bound on the feedback sent

ASSUME CalibrationAssumption ==
    /\ Reporters \intersect Senders = {}
    /\ Confidences \subseteq Int /\ MaxSteps \in Nat

Feedback == [id : Ids, conf : Confidences, correct : BOOLEAN, whole : BOOLEAN]

VARIABLES
    records,   \* prediction id -> feedback
    received,  \* history: every feedback recorded, in order
    trained,   \* the positions in received of what moved learnedWeights
    rw,        \* the mutex: readers -> read locks held; the writer; the queues
    pc, got    \* per request: its next step, and what it has in hand

vars == <<records, received, trained, rw, pc, got>>

NoRecords == [i \in {} |-> 0]
NumBins == 10

Init ==
    /\ records = NoRecords /\ received = << >> /\ trained = {}
    /\ rw = [held |-> [c \in Reporters |-> 0], writer |-> {}, pending |-> {},
             waiting |-> {}, behind |-> {}]
    /\ pc = [c \in Reporters \union Senders |-> "idle"]
    /\ got = [c \in Reporters |-> [ece |-> << >>, brier |-> << >>, weights |-> {}]]

-----------------------------------------------------------------------------
(***************************************************************************)
(* sync.RWMutex.  writer holds it; pending is the writer waiting for the   *)
(* readers to leave; behind are the writers waiting for that one; waiting  *)
(* are the readers that came after it.                                     *)
(***************************************************************************)
Writing == rw.writer \union rw.pending

RLock(c, next) ==
    /\ rw' = IF Writing = {} THEN [rw EXCEPT !.held[c] = @ + 1]
             ELSE [rw EXCEPT !.waiting = @ \union {c}]
    /\ pc' = [pc EXCEPT ![c] = next]

\* A reader that had to wait has been let in.
Admitted(c) == c \notin rw.waiting

RUnlock(c, next) ==
    LET held == [rw.held EXCEPT ![c] = @ - 1]
        free == \A d \in Reporters : held[d] = 0
    IN
    /\ rw' = [rw EXCEPT !.held = held,
                        !.writer = IF free THEN rw.writer \union rw.pending ELSE @,
                        !.pending = IF free THEN {} ELSE @]
    /\ pc' = [pc EXCEPT ![c] = next]

\* Mutant of Lock: the writer takes the lock the readers share.
LockShared(c, next) ==
    /\ rw' = IF rw.writer # {} THEN [rw EXCEPT !.behind = @ \union {c}]
             ELSE [rw EXCEPT !.writer = {c}]
    /\ pc' = [pc EXCEPT ![c] = next]

Lock(c, next) ==
    LET free == \A d \in Reporters : rw.held[d] = 0 IN
    /\ rw' = IF Writing # {} THEN [rw EXCEPT !.behind = @ \union {c}]
             ELSE IF free THEN [rw EXCEPT !.writer = {c}]
             ELSE [rw EXCEPT !.pending = {c}]
    /\ pc' = [pc EXCEPT ![c] = next]

Unlock(c, next) ==
    LET held == [d \in Reporters |-> rw.held[d] + (IF d \in rw.waiting THEN 1 ELSE 0)]
    IN
    /\ \E w \in IF rw.behind = {} THEN {{}} ELSE {{d} : d \in rw.behind} :
            rw' = [rw EXCEPT !.held = held, !.waiting = {}, !.behind = @ \ w,
                                !.writer = IF rw.waiting = {} THEN w ELSE {},
                                !.pending = IF rw.waiting = {} THEN {} ELSE w]
    /\ pc' = [pc EXCEPT ![c] = next]

-----------------------------------------------------------------------------
(***************************************************************************)
(* /feedback                                                               *)
(***************************************************************************)
FeedbackHandler(c) ==
    /\ pc[c] = "idle" /\ Len(received) + Cardinality({s \in Senders : pc[s] = "record"}) < MaxSteps
    /\ Lock(c, "record")
    /\ UNCHANGED <<records, received, trained, got>>

\* A later feedback for the same prediction replaces the record ...
Stored(f) == [i \in DOMAIN records \union {f.id} |-> IF i = f.id THEN f ELSE records[i]]

\* Mutant of RecordFeedback: an early return past the unlock.
RecordFeedbackLocked(c, f) ==
    /\ pc[c] = "record" /\ rw.writer = {c}
    /\ records' = Stored(f) /\ received' = Append(received, f) /\ UNCHANGED <<trained, rw, got>>
    /\ pc' = [pc EXCEPT ![c] = "idle"]

\* ... and trains the weights once more if it names every component.
RecordFeedback(c, f) ==
    /\ pc[c] = "record" /\ rw.writer = {c}
    /\ records' = Stored(f) /\ received' = Append(received, f)
    /\ trained' = IF f.whole THEN trained \union {Len(received) + 1} ELSE trained
    /\ Unlock(c, "idle")
    /\ UNCHANGED got

-----------------------------------------------------------------------------
(***************************************************************************)
(* /calibration: GenerateReport holds the read lock while each of the      *)
(* three computations takes it again.                                      *)
(***************************************************************************)
\* Mutant of BinOf: a confidence of 1.0 is not moved into the last bin.
BinOfUnclamped(conf) == conf

BinOf(conf) == IF conf >= NumBins THEN NumBins - 1 ELSE conf

\* The bins of ComputeECE: the records that fall into each.
Bins == [b \in 0..(NumBins - 1) |-> {i \in DOMAIN records : BinOf(records[i].conf) = b}]

\* ece and brier, multiplied by the number of records and by 10 and 100.
ECE(bins) ==
    SumFunction([b \in DOMAIN bins |->
        LET conf == SumFunction([i \in bins[b] |-> records[i].conf])
            hits == Cardinality({i \in bins[b] : records[i].correct})
        IN IF conf >= 10 * hits THEN conf - 10 * hits ELSE 10 * hits - conf])

BrierScore ==
    SumFunction([i \in DOMAIN records |->
        LET diff == records[i].conf - (IF records[i].correct THEN 10 ELSE 0) IN diff * diff])

Unread == [ece |-> << >>, brier |-> << >>, weights |-> {}]

CalibrationHandler(c) ==
    /\ pc[c] \in {"idle", "done", "failed"}
    /\ RLock(c, "ece")
    /\ got' = [got EXCEPT ![c] = Unread]
    /\ UNCHANGED <<records, received, trained>>

LockAgain(c, from, next) ==
    /\ pc[c] = from /\ Admitted(c) /\ RLock(c, next) /\ UNCHANGED <<records, received, trained, got>>

\* A record with a negative confidence has no bin: the index panics.
NoBin == \E i \in DOMAIN records : BinOf(records[i].conf) < 0

ComputeECE(c) ==
    /\ pc[c] = "ece2" /\ Admitted(c) /\ ~NoBin
    /\ got' = [got EXCEPT ![c].ece = records]
    /\ RUnlock(c, "brier") /\ UNCHANGED <<records, received, trained>>

\* Both deferred unlocks run, and net/http drops the request.
ComputeECEPanics(c) ==
    /\ pc[c] = "ece2" /\ Admitted(c) /\ NoBin
    /\ RUnlock(c, "unwind") /\ UNCHANGED <<records, received, trained, got>>

Unwind(c) ==
    /\ pc[c] = "unwind"
    /\ RUnlock(c, "failed") /\ UNCHANGED <<records, received, trained, got>>

ComputeBrierScore(c) ==
    /\ pc[c] = "brier2" /\ Admitted(c)
    /\ got' = [got EXCEPT ![c].brier = records]
    /\ RUnlock(c, "weights") /\ UNCHANGED <<records, received, trained>>

GetLearnedWeights(c) ==
    /\ pc[c] = "weights2" /\ Admitted(c)
    /\ got' = [got EXCEPT ![c].weights = trained]
    /\ RUnlock(c, "return") /\ UNCHANGED <<records, received, trained>>

Return(c) ==
    /\ pc[c] = "return"
    /\ RUnlock(c, "done") /\ UNCHANGED <<records, received, trained, got>>

Report(c) ==
    \/ LockAgain(c, "ece", "ece2") \/ ComputeECE(c)
    \/ ComputeECEPanics(c) \/ Unwind(c)
    \/ LockAgain(c, "brier", "brier2") \/ ComputeBrierScore(c)
    \/ LockAgain(c, "weights", "weights2") \/ GetLearnedWeights(c)
    \/ Return(c)

Next ==
    \/ \E c \in Reporters : CalibrationHandler(c) \/ Report(c)
    \/ \E c \in Senders : FeedbackHandler(c) \/ \E f \in Feedback : RecordFeedback(c, f)

Spec == Init /\ [][Next]_vars

\* A request that can take its next step is scheduled.
Fairness ==
    /\ \A c \in Reporters : WF_vars(Report(c))
    /\ \A c \in Senders : WF_vars(\E f \in Feedback : RecordFeedback(c, f))

FairSpec == Spec /\ Fairness

-----------------------------------------------------------------------------
TypeOK ==
    /\ DOMAIN records \subseteq Ids /\ \A i \in DOMAIN records : records[i] \in Feedback
    /\ received \in Seq(Feedback) /\ trained \subseteq DOMAIN received
    /\ \A c \in Reporters : rw.held[c] \in 0..2
    /\ (\A c, d \in Writing : c = d) /\ rw.behind \subseteq Senders /\ rw.waiting \subseteq Reporters
    /\ rw.writer # {} => \A c \in Reporters : rw.held[c] = 0

\* The last of the first n feedbacks for each prediction.
LastOf(n) ==
    [i \in {received[k].id : k \in 1..n} |-> received[Max({k \in 1..n : received[k].id = i})]]

\* The scores and the weights of one report were computed at one moment: after
\* some n of the feedbacks, the records being the last of them for each
\* prediction and the weights trained on all of them that name every component.
ReportIsOneMoment ==
    \A c \in Reporters : pc[c] = "done" =>
        \E n \in 0..Len(received) :
            /\ got[c].ece = LastOf(n) /\ got[c].brier = LastOf(n)
            /\ got[c].weights = {k \in 1..n : received[k].whole}

\* The two scores measure the same error whenever both can be computed: every
\* record is counted in a bin, and the calibration error is no more than the
\* root of the Brier score.
ScoresAgree ==
    ~NoBin =>
        /\ UNION {Bins[b] : b \in DOMAIN Bins} = DOMAIN records
        /\ ECE(Bins) * ECE(Bins) <= Cardinality(DOMAIN records) * BrierScore

\* A report waits for its own lock: it holds one, and its next waits behind a
\* writer that waits for the first.
Reentry == \E c \in Reporters : rw.held[c] > 0 /\ c \in rw.waiting

\* That is the only way a request can hang.
HangsOnlyByReentry ==
    /\ \A c \in Reporters : pc[c] = "ece" ~> pc[c] \in {"done", "failed"} \/ Reentry
    /\ \A c \in Senders : pc[c] = "record" ~> pc[c] = "idle" \/ Reentry

\* "CalibrationHandler returns the full diagnostic report of the confidence
\* engine": a report that was asked for is returned.
ReportReturned == \A c \in Reporters : pc[c] = "ece" ~> pc[c] = "done"
=============================================================================
