------------------------------ MODULE TimingLab ------------------------------
(***************************************************************************)
(* The timing lab (timing-lab/src/main.rs, stats.rs): for every surface a  *)
(* setup guard, a balanced shuffled schedule of two input classes, a timed *)
(* sample per entry, Welch's t over cropped data and, at the end, the      *)
(* comparison of every verdict with its expectation.                       *)
(*                                                                         *)
(* What the code of a surface does is `code': whether its known answers    *)
(* and round trips are right, what it does with an input corrupted in its  *)
(* first or in its last byte, whether the second class runs slower and     *)
(* whether its handshake ends.                                             *)
(* One surface of a run, `focus', has any code, any schedule and any       *)
(* noise; the others are sound and take one typical course.  Times are     *)
(* small integers; means and variances are exact fractions.                *)
(***************************************************************************)
EXTENDS Integers, Sequences, FiniteSets, SequencesExt, TLC

CONSTANTS
    Samples,     \* samples per class
    Warmup,      \* discarded trials per class
    Noise,       \* what the clock and the machine may add to a sample
    LeakCost,    \* how much slower the second class is when code leaks
    Isolate      \* TIMING_LAB_ISOLATE is set

ASSUME LabAssumption ==
    /\ Samples \in Nat \ {0, 1} /\ Warmup \in Nat
    /\ Noise \subseteq Nat /\ Noise # {} /\ LeakCost \in Nat /\ Isolate \in BOOLEAN

-----------------------------------------------------------------------------
(* Exact fractions, in lowest terms                                        *)

Gcd[a \in Nat, b \in Nat] == IF b = 0 THEN a ELSE Gcd[b, a % b]
Abs(n) == IF n < 0 THEN 0 - n ELSE n
Frac(n, d) == LET g == Gcd[Abs(n), d] IN <<n \div g, d \div g>>
Plus(p, q) == Frac(p[1] * q[2] + q[1] * p[2], p[2] * q[2])
Minus(p, q) == Plus(p, <<0 - q[1], q[2]>>)
Times(p, q) == Frac(p[1] * q[1], p[2] * q[2])

-----------------------------------------------------------------------------
(* stats.rs                                                                *)

Accumulator == [n |-> 0, mean |-> <<0, 1>>, m2 |-> <<0, 1>>]

\* Mutant: the squared deviation from the new mean only.
push_new_mean(acc, x) ==
    LET n     == acc.n + 1
        mean  == Plus(acc.mean, Times(Minus(<<x, 1>>, acc.mean), <<1, n>>))
        delta == Minus(<<x, 1>>, mean)
    IN  [n |-> n, mean |-> mean, m2 |-> Plus(acc.m2, Times(delta, delta))]

push(acc, x) ==
    LET n     == acc.n + 1
        delta == Minus(<<x, 1>>, acc.mean)
        mean  == Plus(acc.mean, Times(delta, <<1, n>>))
    IN  [n |-> n, mean |-> mean,
         m2 |-> Plus(acc.m2, Times(delta, Minus(<<x, 1>>, mean)))]

Accumulate(xs) == FoldLeft(push, Accumulator, xs)

\* Sample variance; at least two samples.
variance(acc) == Times(acc.m2, <<1, acc.n - 1>>)

\* The square of Welch's t as a fraction; a zero denominator is an infinite t
\* or none at all.
welch_t2(a, b) ==
    LET diff   == Minus(a.mean, b.mean)
        spread == Plus(Times(variance(a), <<1, a.n>>), Times(variance(b), <<1, b.n>>))
        square == Times(diff, diff)
    IN  <<square[1] * spread[2], square[2] * spread[1]>>

is_finite(t2) == t2[2] # 0

CROP_PERCENTILES == {100, 70, 50, 30, 20, 10, 5, 2, 1}

\* The keep-th smallest of the pooled samples.
Cutoff(pooled, keep) ==
    LET upTo(x) == Cardinality({i \in 1..Len(pooled) : pooled[i] <= x})
        ok      == {x \in {pooled[i] : i \in 1..Len(pooled)} : upTo(x) >= keep}
    IN  CHOOSE x \in ok : \A y \in ok : x <= y

\* The t of every crop that leaves at least four samples, two of each class.
CroppedT(class0, class1) ==
    LET pooled == class0 \o class1
        keep(pct) == (Len(pooled) * pct + 99) \div 100
        crop(xs, pct) == Accumulate(SelectSeq(xs, LAMBDA x : x <= Cutoff(pooled, keep(pct))))
    IN  {welch_t2(crop(class0, pct), crop(class1, pct)) :
           pct \in {p \in CROP_PERCENTILES :
                      /\ keep(p) >= 4
                      /\ crop(class0, p).n >= 2 /\ crop(class1, p).n >= 2}}

\* THRESHOLD is 10, of the square 100.
Exceeds(t2) == t2[1] > 100 * t2[2]

\* max_cropped_t and the verdict on it: the largest finite |t|, if there is one.
VerdictOf(class0, class1) ==
    LET finite == {t2 \in CroppedT(class0, class1) : is_finite(t2)}
    IN  IF finite = {} THEN "Inconclusive"
        ELSE IF \E t2 \in finite : Exceeds(t2) THEN "Leak"
        ELSE "Quiet"

-----------------------------------------------------------------------------
(* The surfaces                                                            *)

\* shape: what a sample does; guard: what the setup checks before it.
Surface(name, expect_leak, shape, guard) ==
    [name |-> name, expect_leak |-> expect_leak, shape |-> shape, guard |-> guard]

Controls ==
    << Surface("control/leaky-equal", TRUE, "compare", "none"),
       Surface("control/leaky-tag-compare", TRUE, "compare", "none"),
       Surface("control/subtle-ct-eq", FALSE, "compare", "none"),
       Surface("control/data-dependent-work", TRUE, "fixed", "none") >>
HandshakeSurfaces ==
    << Surface("handshake/certificate-verify-sign", FALSE, "fixed", "answer"),
       Surface("handshake/server", FALSE, "handshake", "answer") >>
KeySurfaces ==
    << Surface("key-schedule/hkdf-extract-expand", FALSE, "fixed", "answer"),
       Surface("key-exchange/x25519", FALSE, "fixed", "answer"),
       Surface("key-exchange/p256", FALSE, "fixed", "answer") >>
\* The rig of a suite serves its open and seal surfaces.
RecordSurfaces ==
    << Surface("record/chacha20-poly1305/open-reject", FALSE, "reject", "record"),
       Surface("record/chacha20-poly1305/seal", FALSE, "fixed", "record"),
       Surface("record/aes-128-gcm/open-reject", FALSE, "reject", "record"),
       Surface("record/aes-128-gcm/seal", FALSE, "fixed", "record") >>
PacketSurfaces ==
    << Surface("packet/chacha20-poly1305/open-reject", FALSE, "reject", "packet"),
       Surface("packet/chacha20-poly1305/seal", FALSE, "fixed", "packet"),
       Surface("packet/chacha20-poly1305/hp-mask", FALSE, "fixed", "packet"),
       Surface("packet/aes-128-gcm/open-reject", FALSE, "reject", "packet"),
       Surface("packet/aes-128-gcm/seal", FALSE, "fixed", "packet"),
       Surface("packet/aes-128-gcm/hp-mask", FALSE, "fixed", "packet") >>
RejectSurfaces ==
    << Surface("token/aes-256-gcm/open-reject", FALSE, "reject", "token"),
       Surface("error/record-reject", FALSE, "live", "none") >>
IsolateSurfaces ==
    << Surface("isolate/record-aes-seal/mask-prep", FALSE, "fixed", "record"),
       Surface("isolate/packet-aes-seal/mask-prep", FALSE, "fixed", "packet"),
       Surface("isolate/aes-ctr/apply-keystream", FALSE, "fixed", "none"),
       Surface("isolate/ghash/zeros-vs-random", FALSE, "fixed", "none"),
       Surface("isolate/ghash/fixedrand-vs-random", FALSE, "fixed", "none"),
       Surface("isolate/xor-sweep/zeros-vs-random", FALSE, "fixed", "none") >>

Surfaces ==
    Controls \o HandshakeSurfaces \o KeySurfaces \o RecordSurfaces \o PacketSurfaces
    \o RejectSurfaces \o (IF Isolate THEN IsolateSurfaces ELSE <<>>)

\* What the code of a surface may do, right or wrong.  opens: its answer to an
\* input corrupted in the first byte (class FALSE) or in the last (TRUE); it
\* "scribbles" when it refuses and changes the buffer.
Codes(s) ==
    {c \in [right : BOOLEAN, opens : [BOOLEAN -> {"refuses", "accepts", "scribbles"}],
            slow : BOOLEAN, finishes : BOOLEAN] :
        /\ s.guard = "none" => c.right
        /\ s.shape \notin {"handshake", "live"} => c.finishes
        /\ \A class \in BOOLEAN :
             /\ s.shape \in {"fixed", "handshake"} => c.opens[class] = "refuses"
             /\ s.shape # "reject" => c.opens[class] # "scribbles"}

\* Only a control whose purpose it is runs slower for the second class.
Sound(s) == [right |-> TRUE, opens |-> [class \in BOOLEAN |-> "refuses"],
             slow |-> s.expect_leak, finishes |-> TRUE]

-----------------------------------------------------------------------------
VARIABLES
    pc,        \* "setup", "warmup", "shuffle", "sample", "verdict", "evaluate", "done"
    at,        \* index of the surface being measured
    focus,     \* index of the surface explored in full
    focusCode, \* what the focus surface's code does
    trial,     \* trials so far in this loop
    schedule,  \* the classes still to be sampled, in order
    class0, class1,  \* samples
    reports,   \* the verdicts so far
    outcome    \* the process's exit

labVars == <<pc, at, focus, focusCode, trial, schedule, class0, class1, reports, outcome>>

surface == Surfaces[at]
code == IF at = focus THEN focusCode ELSE Sound(surface)

\* measure: n entries of each class.
NewSchedule == [i \in 1..(2 * Samples) |-> i > Samples]

Swap(s, i, j) == [s EXCEPT ![i] = s[j], ![j] = s[i]]

\* handshake_timed: up to sixteen rounds of client flight (untimed), server
\* processing (timed), server flight (timed), client processing; a peer that
\* never finishes is an error.
HandshakeRound(h) ==
    LET s == IF h.client = 0 THEN h
             ELSE [h EXCEPT !.client = @ - 1, !.server = IF h.server = 2 THEN 1 ELSE 0,
                            !.ns = @ + 1]
    IN  IF s.server = 1 THEN [s EXCEPT !.server = 0, !.ns = @ + 1] ELSE s
handshake_timed(stuck) ==
    LET after[r \in 0..16] ==
          IF r = 0 THEN [client |-> IF stuck THEN 99 ELSE 2, server |-> 2, ns |-> 0]
          ELSE HandshakeRound(after[r - 1])
    IN  [ok |-> after[16].client = 0, ns |-> after[16].ns]

\* A round trip, a refused corruption of the first tag byte, and the refused
\* buffer left as it was; the last tag byte is not tried.
record_rig == code.right /\ code.opens[FALSE] = "refuses"
packet_rig == code.right /\ code.opens[FALSE] = "refuses"
TokenGuard == code.right /\ code.opens[FALSE] = "refuses"

\* What the setup of a surface checks: a rig, a known answer, or nothing.
GuardHolds ==
    \/ surface.guard = "none"
    \/ surface.guard = "answer" /\ code.right
    \/ surface.guard = "record" /\ record_rig
    \/ surface.guard = "packet" /\ packet_rig
    \/ surface.guard = "token" /\ TokenGuard

\* The check of one trial, by shape: a corrupted input must be refused, a
\* handshake must end; the output of a fixed operation is not looked at.
CompareTrial(class) == code.opens[class] # "accepts"
RejectTrial(class) == code.opens[class] # "accepts"
HandshakeTrial == handshake_timed(~code.finishes).ok
LiveTrial(class) == HandshakeTrial /\ code.opens[class] # "accepts"
TrialOk(class) ==
    CASE surface.shape = "compare" -> CompareTrial(class)
      [] surface.shape = "reject" -> RejectTrial(class)
      [] surface.shape = "handshake" -> HandshakeTrial
      [] surface.shape = "live" -> LiveTrial(class)
      [] OTHER -> TRUE

\* The work a trial times.
BaseCost(s) == IF s.shape = "handshake" THEN handshake_timed(FALSE).ns ELSE 3
TrialCost(class) ==
    BaseCost(surface) + (IF class /\ code.slow THEN LeakCost ELSE 0)

LabInit ==
    /\ focus \in 1..Len(Surfaces)
    /\ focusCode \in Codes(Surfaces[focus])
    /\ pc = "setup" /\ at = 1 /\ trial = 0 /\ schedule = <<>>
    /\ class0 = <<>> /\ class1 = <<>>
    /\ reports = <<>> /\ outcome = "running"

Fail == pc' = "done" /\ outcome' = "FAILURE"
Fixed == UNCHANGED <<at, focus, focusCode>>

\* run_lab: the surface's setup, whose guard failing ends the run.
Setup ==
    /\ pc = "setup"
    /\ IF GuardHolds THEN pc' = "warmup" /\ UNCHANGED outcome ELSE Fail
    /\ trial' = 0 /\ class0' = <<>> /\ class1' = <<>>
    /\ Fixed /\ UNCHANGED <<schedule, reports>>

\* measure: the discarded trials, alternating, then a fresh schedule.
WarmUp ==
    /\ pc = "warmup"
    /\ IF trial < 2 * Warmup
       THEN /\ IF TrialOk(trial % 2 = 1) THEN UNCHANGED <<pc, outcome>> ELSE Fail
            /\ trial' = trial + 1
            /\ UNCHANGED schedule
       ELSE /\ pc' = "shuffle" /\ schedule' = NewSchedule
            /\ trial' = Len(NewSchedule)
            /\ UNCHANGED outcome
    /\ Fixed /\ UNCHANGED <<class0, class1, reports>>

\* Rng::shuffle: from the last entry down, a swap with any entry up to it.
Shuffle ==
    /\ pc = "shuffle"
    /\ IF trial > 1
       THEN /\ \E j \in (IF at = focus THEN 1..trial ELSE {(trial + 1) \div 2}) :
                 schedule' = Swap(schedule, trial, j)
            /\ trial' = trial - 1 /\ UNCHANGED pc
       ELSE pc' = "sample" /\ UNCHANGED <<trial, schedule>>
    /\ Fixed /\ UNCHANGED <<class0, class1, reports, outcome>>

\* What the clock adds: anything to the focus, and to the other surfaces the
\* same in both classes.
NoiseOf(samples) == IF at = focus THEN Noise ELSE {Len(samples) % 2}

\* measure: one timed sample of the scheduled class.
Sample ==
    /\ pc = "sample"
    /\ IF schedule = <<>> THEN pc' = "verdict" /\ UNCHANGED <<schedule, class0, class1, outcome>>
       ELSE IF ~TrialOk(Head(schedule)) THEN Fail /\ UNCHANGED <<schedule, class0, class1>>
       ELSE /\ IF Head(schedule)
               THEN /\ \E noise \in NoiseOf(class1) :
                         class1' = Append(class1, TrialCost(TRUE) + noise)
                    /\ UNCHANGED class0
               ELSE /\ \E noise \in NoiseOf(class0) :
                         class0' = Append(class0, TrialCost(FALSE) + noise)
                    /\ UNCHANGED class1
            /\ schedule' = Tail(schedule)
            /\ UNCHANGED <<pc, outcome>>
    /\ Fixed /\ UNCHANGED <<trial, reports>>

\* measure: the verdict; the report joins the others.
Report ==
    /\ pc = "verdict"
    /\ reports' = Append(reports, [expect_leak |-> surface.expect_leak,
                                   verdict |-> VerdictOf(class0, class1)])
    /\ IF at < Len(Surfaces) THEN at' = at + 1 /\ pc' = "setup"
       ELSE pc' = "evaluate" /\ UNCHANGED at
    /\ UNCHANGED <<focus, focusCode, trial, schedule, class0, class1, outcome>>

\* Mutant: an inconclusive surface does not count against the run.
MatchesLoosely(r) ==
    r.verdict = "Inconclusive" \/ r.verdict = IF r.expect_leak THEN "Leak" ELSE "Quiet"

\* run_lab: leaks where expected, quiet elsewhere, nothing inconclusive.
Matches(r) == r.verdict = IF r.expect_leak THEN "Leak" ELSE "Quiet"

Evaluate ==
    /\ pc = "evaluate"
    /\ pc' = "done"
    /\ outcome' = IF \A i \in 1..Len(reports) : Matches(reports[i])
                  THEN "SUCCESS" ELSE "FAILURE"
    /\ Fixed /\ UNCHANGED <<trial, schedule, class0, class1, reports>>

LabNext == Setup \/ WarmUp \/ Shuffle \/ Sample \/ Report \/ Evaluate

LabSpec == LabInit /\ [][LabNext]_labVars

-----------------------------------------------------------------------------
(* Properties                                                              *)

\* The times of one class of a surface whose operation takes ns.
Timed(ns) == [1..Samples -> {ns + noise : noise \in Noise}]

\* What guards and trials can see is right: known answers and round trips, no
\* corruption accepted in either class, the buffer of a refused first byte
\* left alone, no handshake that does not end.
Functional(s, c) ==
    /\ c.right /\ c.finishes
    /\ \A class \in BOOLEAN : c.opens[class] # "accepts"
    /\ s.guard \in {"record", "packet", "token"} => c.opens[FALSE] = "refuses"

\* The noise alone can hide a leak, or make one up.
NoiseHides(ns) == \E a \in Timed(ns), b \in Timed(ns + LeakCost) : VerdictOf(a, b) = "Quiet"
NoiseShows(ns) == \E a \in Timed(ns), b \in Timed(ns) : VerdictOf(a, b) = "Leak"

Earned ==
    LET s == Surfaces[focus]
    IN  /\ Functional(s, focusCode)
        /\ focusCode.slow /\ ~s.expect_leak => NoiseHides(BaseCost(s))
        /\ ~focusCode.slow /\ s.expect_leak => NoiseShows(BaseCost(s))

\* A run succeeds only over code that deserves it: every guard and trial
\* answered as it should, no surface leaks unless the noise can hide a leak of
\* that size from the statistic, and no positive control went unseen unless
\* the noise can pass for a leak ("they MUST read as leaks or the run fails",
\* main.rs; run_lab, measure, max_cropped_t).
SuccessIsEarned == outcome = "SUCCESS" => Earned

\* The online mean and variance are those of the samples (stats.rs,
\* Accumulator): the mean is the sum over n, and n times the squared
\* deviations is n times the sum of squares less the square of the sum.
AccumulatorExact ==
    \A xs \in {class0, class1, class0 \o class1} :
        LET acc == Accumulate(xs)
            sum == FoldLeft(LAMBDA s, x : s + x, 0, xs)
            squares == FoldLeft(LAMBDA s, x : s + x * x, 0, xs)
        IN  pc = "verdict" =>
              /\ Times(acc.mean, <<Len(xs), 1>>) = <<sum, 1>>
              /\ Times(acc.m2, <<Len(xs), 1>>) = <<Len(xs) * squares - sum * sum, 1>>

=============================================================================
