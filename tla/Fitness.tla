------------------------------- MODULE Fitness -------------------------------
(***************************************************************************)
(* What a candidate of the optimizers (orqest/optimization) is and what it *)
(* is worth: genes and their resilient decoding, the metric bundles of an  *)
(* evaluation, their aggregation over trials, and the archive's ranking.   *)
(* Numbers are integers; means are taken in units of 1 / Scale, where Scale*)
(* is a multiple of every batch size.                                      *)
(***************************************************************************)
EXTENDS Optional, Sequences, FiniteSets

CONSTANTS
    Weights,       \* MetricWeights: [accuracy, confidence, cost_usd, latency_ms]
    Scale,         \* unit of means
    Malformed      \* a text that is no number

ASSUME WeightsAssumption ==
    \A w \in {"accuracy", "confidence", "cost_usd", "latency_ms"} : Weights[w] \in Int
ASSUME ScaleAssumption == Scale \in Nat \ {0}
ASSUME MalformedAssumption == Malformed \notin Int

(* The signs MetricWeights documents and does not insist on. *)
SignedWeights == Weights.accuracy > 0 /\ Weights.cost_usd < 0 /\ Weights.latency_ms < 0

Sum(f, s) ==
    LET sum[i \in 0..Len(s)] == IF i = 0 THEN 0 ELSE sum[i - 1] + f[s[i]]
    IN sum[Len(s)]

-----------------------------------------------------------------------------
(* Genes: [kind, initial] with choices, or low, high and quantize. *)

Clamp(g, f) == IF f > g.high THEN g.high ELSE IF f < g.low THEN g.low ELSE f

(* Python's round of a / q: to the even one of two neighbours. *)
RoundedRatio(a, q) ==
    LET k == a \div q
        r == 2 * (a % q)
    IN IF r < q \/ (r = q /\ k % 2 = 0) THEN k ELSE k + 1

(* A scalar is clamped, snapped to the grid and clamped again: at the upper *)
(* bound it may be off the grid.                                           *)
DecodeScalar(g, value) ==
    IF value \in {None, Malformed} THEN g.initial
    ELSE IF g.quantize = None THEN Clamp(g, value)
    ELSE Clamp(g, g.low + RoundedRatio(Clamp(g, value) - g.low, g.quantize) * g.quantize)

DecodePrompt(g, value) == IF value = None THEN g.initial ELSE value
DecodeCategorical(g, value) == IF value \in g.choices THEN value ELSE g.initial

(* Genome.decode: whatever the candidate lacks or garbles is the initial. *)
Decode(genome, candidate) ==
    [n \in DOMAIN genome |->
        CASE genome[n].kind = "scalar" -> DecodeScalar(genome[n], candidate[n])
          [] genome[n].kind = "categorical" -> DecodeCategorical(genome[n], candidate[n])
          [] OTHER -> DecodePrompt(genome[n], candidate[n])]

(* The values a gene may have. *)
Legal(g, value) ==
    CASE g.kind = "scalar" -> g.low <= value /\ value <= g.high
      [] g.kind = "categorical" -> value \in g.choices
      [] OTHER -> TRUE

-----------------------------------------------------------------------------
(* A bundle: accuracy and confidence up to Scale, cost, latency, and       *)
(* whether raw has an error.  No evaluator sets the robustness.            *)
MetricBundle == [accuracy : 0..Scale, confidence : 0..Scale \cup {None},
                 cost_usd : Nat, latency_ms : Nat, error : BOOLEAN]

(* An absent confidence counts for nothing. *)
Scalarize(b) ==
    b.accuracy * Weights.accuracy + b.cost_usd * Weights.cost_usd
    + b.latency_ms * Weights.latency_ms
    + (IF b.confidence = None THEN 0 ELSE b.confidence * Weights.confidence)

Mean(f, s) == (Sum(f, s) * Scale) \div Len(s)
MeanScore(s) == IF s = <<>> THEN 0 ELSE Mean([b \in MetricBundle |-> Scalarize(b)], s)
MeanOf(field, s) == Mean([b \in MetricBundle |-> b[field]], s)

(* The trials of one example: their mean, under the raw of the first, or   *)
(* the first when all failed.                                              *)
EvaluateOne(trials) ==
    LET rated == {i \in DOMAIN trials : trials[i].confidence # None}
        Field(field) == [b \in MetricBundle |-> b[field]]
        Rating == [b \in MetricBundle |-> IF b.confidence = None THEN 0 ELSE b.confidence]
    IN IF Len(trials) = 1 \/ \A i \in DOMAIN trials : trials[i].error THEN trials[1]
       ELSE [accuracy |-> Sum(Field("accuracy"), trials) \div Len(trials),
             confidence |-> IF rated = {} THEN None
                            ELSE Sum(Rating, trials) \div Cardinality(rated),
             cost_usd |-> Sum(Field("cost_usd"), trials) \div Len(trials),
             latency_ms |-> Sum(Field("latency_ms"), trials) \div Len(trials),
             error |-> trials[1].error]

-----------------------------------------------------------------------------
(* The archive: a sequence of entries [bundles, score, ...]. *)

(* Mutant of BestIdx: the first of them all. *)
BestIdxFirst(archive) == 1

(* max() takes the first of the best. *)
BestIdx(archive) ==
    CHOOSE i \in DOMAIN archive :
        /\ \A j \in DOMAIN archive : archive[i].score >= archive[j].score
        /\ \A j \in 1..(i - 1) : archive[j].score < archive[i].score

Dominates(s, t) ==
    LET better == <<MeanOf("accuracy", s) - MeanOf("accuracy", t),
                    MeanOf("cost_usd", t) - MeanOf("cost_usd", s),
                    MeanOf("latency_ms", t) - MeanOf("latency_ms", s)>>
    IN (\A i \in 1..3 : better[i] >= 0) /\ (\E i \in 1..3 : better[i] > 0)

ParetoFront(archive) ==
    {i \in DOMAIN archive : \A j \in DOMAIN archive : ~Dominates(archive[j].bundles, archive[i].bundles)}

(* Mutant of View: of equal scores the later ones are shown. *)
ViewLatest(archive, strategy, size) ==
    LET above(i) == {j \in DOMAIN archive :
                        \/ archive[j].score > archive[i].score
                        \/ archive[j].score = archive[i].score /\ j > i}
    IN  CASE strategy = "parallel" -> {}
          [] strategy = "top_k" -> {i \in DOMAIN archive : Cardinality(above(i)) < size}
          [] OTHER -> DOMAIN archive

(* The entries shown to the meta agent: a stable sort by score, cut off.   *)
View(archive, strategy, size) ==
    LET above(i) == {j \in DOMAIN archive :
                        \/ archive[j].score > archive[i].score
                        \/ archive[j].score = archive[i].score /\ j < i}
    IN  CASE strategy = "parallel" -> {}
          [] strategy = "top_k" -> {i \in DOMAIN archive : Cardinality(above(i)) < size}
          [] OTHER -> DOMAIN archive
=============================================================================
