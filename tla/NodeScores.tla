------------------------------ MODULE NodeScores ------------------------------
(***************************************************************************)
(* How two plugins score the nodes that passed the filters: by assurance   *)
(* (plugins/nodeassurancescorer) and by the freest core of the node        *)
(* (plugins/rtschedulability).  Scores are sequences with one element per  *)
(* node.  The framework fails the cycle of a pod for which a normalized    *)
(* score is outside MinNodeScore .. MaxNodeScore.                          *)
(***************************************************************************)
EXTENDS Integers, SequencesExt

CONSTANTS
  MaxInt,     \* the largest int64
  NoInteger   \* an annotation that is missing or no integer

MinNodeScore == 0
MaxNodeScore == 100

\* int64 arithmetic, modulo the number of its values
Wrap(x) == ((x + MaxInt + 1) % (2 * (MaxInt + 1))) - (MaxInt + 1)

\* Go's quotient, for b > 0.
Quot(a, b) == IF a >= 0 THEN a \div b ELSE -((-a) \div b)

\* getAssurance, of the annotation "assurance"
GetAssurance(annotation) ==
  IF annotation = NoInteger THEN 0 ELSE Max({annotation, 0})

\* NewAssuranceScorer accepts these modes; without arguments it is Least.
Modes == {"Least", "Most"}

\* score
AssuranceScore(annotation, mode) ==
  IF mode = "Least" THEN -GetAssurance(annotation) ELSE GetAssurance(annotation)

\* Mutant: the last core decides.
ComputeScoreLast(status) == 100 - Min({100, Last(status)})

\* computeScore: what is free on the core that is used least.
ComputeScore(status) == 100 - Min({100} \cup ToSet(status))

\* Mutant: scaled by the highest score.
NormalizeByHighest(scores) ==
  LET highest == Max(ToSet(scores) \cup {1})
  IN  [i \in DOMAIN scores |-> Quot(Wrap(scores[i] * (MaxNodeScore - MinNodeScore)), highest)]

\* NormalizeScore, the same in both plugins.
NormalizeScore(scores) ==
  LET lowest == Min(ToSet(scores))
      oldRange == Max(ToSet(scores)) - lowest
      newRange == MaxNodeScore - MinNodeScore
  IN  [i \in DOMAIN scores |->
         IF oldRange = 0 THEN MinNodeScore
         ELSE Quot(Wrap((scores[i] - lowest) * newRange), oldRange) + MinNodeScore]

=============================================================================
