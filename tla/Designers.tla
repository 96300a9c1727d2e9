-------------------------------- MODULE Designers --------------------------------
(***************************************************************************)
(* The slate of recommended designers (recommendation.service.ts) and the  *)
(* reviews behind it (createReviewController).  Scores are in hundredths.  *)
(* A score ends in a random part below one hundredth, so the designers     *)
(* with the highest score before it are those that may win.                *)
(***************************************************************************)
EXTENDS Integers, Sequences, FiniteSets, Functions

CONSTANTS
  DesignerIds,
  JobCounts       \* explored numbers of drafts assigned in the last 30 days

ASSUME DesignersAssumption == JobCounts \subseteq Nat /\ 0 \in JobCounts

VARIABLES
  stats,     \* DesignerStats of each user with the role; of the reviews, whether they
             \* are three or more
  offer      \* the answer of recommendedDesignersController: slate and rest

designerVars == <<stats, offer>>

Stats == [joined : {"lately", "before"}, reviews : {"few", "many"},
          recentJobs30d : JobCounts]
NoOffer == [slate |-> <<>>, rest |-> {}]
Designing == DOMAIN stats

DesignersTypeOK ==
  /\ Designing \subseteq DesignerIds
  /\ stats \in [Designing -> Stats]
  /\ offer.slate \in Seq(DesignerIds) /\ Len(offer.slate) <= 3
  /\ offer.rest \subseteq DesignerIds

DesignersInit == stats = <<>> /\ offer = NoOffer
-------------------------------------------------------------------------------
(* What changes the figures. *)

Change(d, s) == stats' = [stats EXCEPT ![d] = s] /\ offer' = NoOffer

\* A user with the role.
Join(d) ==
  /\ d \in DesignerIds \ Designing
  /\ stats' = [x \in Designing \cup {d} |-> IF x \in Designing THEN stats[x] ELSE
                 [joined |-> "lately", reviews |-> "few", recentJobs30d |-> 0]]
  /\ offer' = NoOffer

MonthPasses(d) ==
  \E jobs \in JobCounts :
    /\ jobs <= stats[d].recentJobs30d
    /\ Change(d, [stats[d] EXCEPT !.joined = "before", !.recentJobs30d = jobs])

Assign(d) ==
  \E jobs \in JobCounts :
    /\ jobs > stats[d].recentJobs30d
    /\ Change(d, [stats[d] EXCEPT !.recentJobs30d = jobs])

\* The third review: a second one by the same user replaces the first, or fails
\* when both were sent at once, as the pair is unique.
CreateReview(d) ==
  /\ stats[d].reviews = "few"
  /\ Change(d, [stats[d] EXCEPT !.reviews = "many"])
-------------------------------------------------------------------------------
(* buildRecommendedSlate. *)

Lower(x, y) == IF x < y THEN x ELSE y
Score(b, points) == IF b THEN points ELSE 0

NewOrLow == {d \in Designing : stats[d].joined = "lately" \/ stats[d].reviews = "few"}

fairnessBoost(d) == 2 * (5 - Lower(5, stats[d].recentJobs30d))
scoreNew(d) == Score(stats[d].joined = "lately", 40)
               + Score(stats[d].reviews = "few", 30) + fairnessBoost(d)
scoreUnder(d) == 6 * (5 - Lower(5, stats[d].recentJobs30d))

Best(candidates, score) ==
  {d \in candidates : \A e \in candidates : score[d] >= score[e]}

\* Mutant of Pick: those picked before are candidates again.
PickAgain(slate, candidates, score) ==
  IF candidates = {} THEN {slate}
  ELSE {Append(slate, d) : d \in Best(candidates, score)}

\* The slates that one pick can make of slate.
Pick(slate, candidates, score) ==
  LET unused == candidates \ Range(slate)
  IN IF unused = {} THEN {slate}
     ELSE {Append(slate, d) : d \in Best(unused, score)}

\* The order by Wilson's bound is left open: whatever the ratings, anybody can be
\* at the top.
AnyScore == [d \in Designing |-> 0]

\* The picks at the top and of the under-exposed leave at most one place to fill.
Slates ==
  LET top   == Pick(<<>>, Designing, AnyScore)
      new   == UNION {Pick(t, NewOrLow, [d \in Designing |-> scoreNew(d)]) : t \in top}
      under == UNION {Pick(t, Designing, [d \in Designing |-> scoreUnder(d)]) : t \in new}
  IN UNION {IF Len(t) < 3 THEN Pick(t, Designing, AnyScore) ELSE {t} : t \in under}

\* One offer for the same figures; another request could get another.  They are
\* read by three queries, as if at once.
Recommend ==
  /\ offer = NoOffer
  /\ \E slate \in Slates :
       offer' = [slate |-> slate, rest |-> Designing \ Range(slate)]
  /\ UNCHANGED stats

DesignersNext ==
  \/ \E d \in DesignerIds : Join(d)
  \/ \E d \in Designing : MonthPasses(d) \/ CreateReview(d) \/ Assign(d)
  \/ Recommend

DesignersSpec == DesignersInit /\ [][DesignersNext]_designerVars
-------------------------------------------------------------------------------
\* An offer shows three designers, or all of them, nobody twice, and the others
\* are the rest; somebody new or little reviewed is in the slate when there is one,
\* and nobody left out has fewer recent jobs, up to five, than everybody shown.
SlateFair ==
  LET shown == Range(offer.slate)
      busy(d) == Lower(5, stats[d].recentJobs30d)
  IN offer # NoOffer =>
       /\ Cardinality(shown) = Len(offer.slate)
       /\ Len(offer.slate) = Lower(3, Cardinality(Designing))
       /\ shown \cap offer.rest = {} /\ shown \cup offer.rest = Designing
       /\ NewOrLow # {} => shown \cap NewOrLow # {}
       /\ \A d \in offer.rest : \E e \in shown : busy(e) <= busy(d)
====================================================================================
