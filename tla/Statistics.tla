----------------------------- MODULE Statistics -----------------------------
(***************************************************************************)
(* The numbers a run of the latency client leaves behind: frame times are  *)
(* kept in a vector that grows, written out row by row, and summarised by  *)
(* percentiles, means and the mean of the worst frames, which sort the     *)
(* vector where it is.  A fraction is given in thousandths, and a          *)
(* percentile's value in thousandths of a nanosecond; the rounding of the  *)
(* code's doubles is left out.                                             *)
(***************************************************************************)
EXTENDS Integers, Sequences, FiniteSetsExt, SequencesExt

CONSTANTS
  FrameTimes,       \* bound: the values a frame time takes
  MaxFrames,        \* bound: frames of a run
  FirstCapacity,    \* cells of the first allocation, 4096 in the code
  Thousandths       \* bound: the percentiles and fractions asked for

ASSUME StatisticsAssumption ==
  /\ FrameTimes \subseteq Nat /\ MaxFrames \in Nat /\ FirstCapacity \in Nat \ {0}
  /\ Thousandths \subseteq Int

VARIABLES
  cells, length,   \* struct hfior_u64_vec: what is allocated, and how much is used
  phase,           \* the frame loop, frametimes.csv, the summary
  written,         \* what was written last
  recorded         \* history: the frame times, in the order of the frames

vars == <<cells, length, phase, written, recorded>>

Nothing == [what |-> "nothing", of |-> 0, value |-> <<>>]
NoFrames == [what |-> "no frames", of |-> 0, value |-> <<0>>]
Garbage == 0   \* of an allocation that has not been written

Init ==
  /\ cells = <<>> /\ length = 0
  /\ phase = "frames" /\ written = Nothing
  /\ recorded = <<>>

-----------------------------------------------------------------------------
Values(v, n) == SubSeq(v, 1, n)
Total(s) == SumFunction(s)

Clamp(p) == IF p < 0 THEN 0 ELSE IF p > 1000 THEN 1000 ELSE p

\* hfior_vec_push: an allocation that is full is doubled.
Grown(v) ==
  [i \in 1 .. (IF v = <<>> THEN FirstCapacity ELSE 2 * Len(v)) |->
     IF i <= Len(v) THEN v[i] ELSE Garbage]

RecordFrame(t) ==
  /\ phase = "frames" /\ length < MaxFrames
  /\ cells' = LET v == IF length = Len(cells) THEN Grown(cells) ELSE cells
              IN  [v EXCEPT ![length + 1] = t]
  /\ length' = length + 1
  /\ recorded' = Append(recorded, t)
  /\ UNCHANGED <<phase, written>>

LeaveFrames ==
  /\ phase = "frames"
  /\ phase' = "dump"
  /\ UNCHANGED <<cells, length, written, recorded>>

\* dump_frametimes comes before write_summary.
DumpFrametimes ==
  /\ phase = "dump"
  /\ written' = [what |-> "rows", of |-> 0, value |-> Values(cells, length)]
  /\ phase' = "summary"
  /\ UNCHANGED <<cells, length, recorded>>

\* qsort of the used part, in place, by compare_u64.
Sorted ==
  LET order == CHOOSE p \in Bijection(1 .. length, 1 .. length) :
                 \A i, j \in 1 .. length : i < j => cells[p[i]] <= cells[p[j]]
  IN  [i \in 1 .. Len(cells) |-> IF i <= length THEN cells[order[i]] ELSE cells[i]]

\* (variant for the mutation runs) The values are taken as they are.
PercentileUnsorted(p) ==
  LET rank  == Clamp(p) * (length - 1)
      lower == cells[rank \div 1000 + 1]
      upper == cells[(rank + 999) \div 1000 + 1]
      part  == rank % 1000
  IN  /\ length > 0
      /\ written' = [what |-> "percentile", of |-> p,
                     value |-> <<lower * (1000 - part) + upper * part>>]
      /\ UNCHANGED cells

\* hfior_percentile_ns: the rank's neighbours, in proportion.
Percentile(p) ==
  LET rank  == Clamp(p) * (length - 1)
      lower == Sorted[rank \div 1000 + 1]
      upper == Sorted[(rank + 999) \div 1000 + 1]
      part  == rank % 1000
  IN  /\ length > 0
      /\ cells' = Sorted
      /\ written' = [what |-> "percentile", of |-> p,
                     value |-> <<lower * (1000 - part) + upper * part>>]

\* hfior_worst_fraction_mean_ns: the last values, rounded up to a whole one, at
\* least one; no fraction means one.
WorstMean(f) ==
  LET count == IF f <= 0 THEN 1
               ELSE Max({1, (Min({f, 1000}) * length + 999) \div 1000})
  IN  /\ length > 0
      /\ cells' = Sorted
      /\ written' = [what |-> "worst", of |-> f,
                     value |-> <<Total(SubSeq(Sorted, length - count + 1, length)), count>>]

\* hfior_mean_ns.
Mean ==
  /\ length > 0
  /\ written' = [what |-> "mean", of |-> 0, value |-> <<Total(Values(cells, length)), length>>]
  /\ UNCHANGED cells

\* hfior_max_ns.
Maximum ==
  /\ written' = [what |-> "max", of |-> 0,
                 value |-> <<Max({cells[i] : i \in 1 .. length} \cup {0})>>]
  /\ UNCHANGED cells

\* write_summary asks for one number after the other; without frames each is 0.
WriteSummary ==
  /\ phase = "summary"
  /\ \/ \E p \in Thousandths : Percentile(p) \/ WorstMean(p)
     \/ Mean
     \/ Maximum
     \/ length = 0 /\ written' = NoFrames /\ UNCHANGED cells
  /\ UNCHANGED <<length, phase, recorded>>

Next ==
  \/ \E t \in FrameTimes : RecordFrame(t)
  \/ LeaveFrames \/ DumpFrametimes \/ WriteSummary

Spec == Init /\ [][Next]_vars

-----------------------------------------------------------------------------
\* Reference definitions, over the frames and without their order.
Frames == DOMAIN recorded

\* The value with exactly k others before it.
OrderStatistic(k) ==
  CHOOSE t \in {recorded[i] : i \in Frames} :
    /\ Cardinality({i \in Frames : recorded[i] < t}) <= k
    /\ Cardinality({i \in Frames : recorded[i] <= t}) > k

\* Linear between the order statistics, at 0 the least and at 1000 the greatest.
TruePercentile(p) ==
  LET rank == Clamp(p) * (Len(recorded) - 1)
      low  == OrderStatistic(rank \div 1000)
  IN  IF rank % 1000 = 0 THEN 1000 * low
      ELSE 1000 * low + (rank % 1000) * (OrderStatistic(rank \div 1000 + 1) - low)

\* The least number of frames that makes up the fraction, and the greatest sum
\* that many frames have.
WorstCount(f) ==
  CHOOSE k \in 1 .. Len(recorded) :
    /\ k = Len(recorded) \/ 1000 * k >= f * Len(recorded)
    /\ k = 1 \/ 1000 * (k - 1) < f * Len(recorded)

WorstSum(f) ==
  Max({SumFunctionOnSet(recorded, worst) : worst \in kSubset(WorstCount(f), Frames)})

\* What is written under a name, for the frames there have been.
Truth(what, of) ==
  CASE what = "nothing"    -> <<>>
    [] what = "rows"       -> recorded
    [] what = "percentile" -> <<TruePercentile(of)>>
    [] what = "worst"      -> <<WorstSum(of), WorstCount(of)>>
    [] what = "mean"       -> <<SumFunction(recorded), Len(recorded)>>
    [] what = "max"        -> <<Max({recorded[i] : i \in Frames} \cup {0})>>
    [] what = "no frames" /\ recorded = <<>> -> <<0>>

\* Whatever is written is true of the frames: row i is the i-th frame although
\* every summary sorts what the rows are taken from, and each number is what its
\* name says although the vector has moved while it grew, has cells that were
\* never written and is left in another order by the number before (dump_frametimes,
\* write_summary, hfior_vec_push and the statistics of common.c).
WrittenTrue == written.value = Truth(written.what, written.of)
=============================================================================
