---------------------------- MODULE ModelsProofs ----------------------------
(***************************************************************************)
(* The safety properties of Models for all clients, users and trainers,    *)
(* overlapping and dying as they please, and every way of training.        *)
(***************************************************************************)
EXTENDS Models, FiniteSetTheorems, TLAPS

(* What a trainer at a step has done so far.                                *)
Progress(t) ==
  LET k == trainer[t].cohort IN
  /\ \A j \in trainer[t].todo : trainer[t].data[j] \in Version
  /\ trainer[t].step # "choose" =>
       trainer[t].data[k] \in Version /\ file[k] # None
  /\ trainer[t].step \in {"commit", "publish"} => trainer[t].trained_at > 0
  /\ trainer[t].step = "publish" => trainer[t].data[k] \in versions[k]

TrainersInv == \A t \in Trainers : trainer[t] # None => Progress(t)

(* What is announced is on record, has a time, and a file was opened for it.*)
MetaInv ==
  \A k \in Cohorts : meta[k] # None =>
    /\ meta[k].trained_at > 0
    /\ meta[k].n \in versions[k]
    /\ file[k] # None

(* The window being scored read such an announcement.                       *)
LookupInv ==
  lookup # None /\ lookup.meta # None =>
    lookup.meta.trained_at > 0 /\ file[CohortFor(lookup.client)] # None

(* The registry notes the time of a model only once it holds one.           *)
HeldInv == \A k \in Cohorts : trained_at[k] # 0 => models[k] # 0

IInv == /\ TypeOK
        /\ TrainersInv
        /\ MetaInv
        /\ LookupInv
        /\ HeldInv
        /\ ColdOnlyWhileTorn

-----------------------------------------------------------------------------
(* The fusion.                                                              *)

(* Products of natural numbers are natural, and grow with their factors.    *)
LEMMA ProductType ==
  ASSUME NEW a \in Nat, NEW b \in Nat
  PROVE  a * b \in Nat
OBVIOUS

(* A larger factor gives a larger product.                                  *)
LEMMA ProductMonotone ==
  ASSUME NEW a \in Nat, NEW b \in Nat, NEW w \in Nat, a <= b
  PROVE  a * w <= b * w
<1>1. (b - a) * w >= 0
  BY ProductType
<1>2. b * w = a * w + (b - a) * w
  OBVIOUS
<1>3. QED
  BY <1>1, <1>2, ProductType

(* The configured weights.                                                  *)
LEMMA WeightsAreNat ==
  /\ {"fsm", "drift", "fleet"} \subseteq Signals
  /\ \A s \in Signals : Weights[s] \in Nat
  /\ Weights \in [Signals -> Nat]
<1>1. {"fsm", "drift", "fleet"} \subseteq Signals
  BY DEF Signals
<1>2. Weights \in [Signals -> 0..100]
  BY FusionAssumption
<1>3. QED
  BY <1>1, <1>2

(* The weights a trust score is made of, and what they are fractions of.    *)
LEMMA WeightsType ==
  ASSUME NEW a \in [Signals -> BOOLEAN]
  PROVE  RenormalizeWeights(a) \in [weights : [Signals -> Nat], of : Nat]
<1>1. Total(a) \in Nat
  BY WeightsAreNat DEF Total
<1>2. [s \in Signals |-> IF a[s] THEN Weights[s] ELSE 0] \in [Signals -> Nat]
  BY WeightsAreNat
<1>3. QED
  BY <1>1, <1>2, WeightsAreNat DEF RenormalizeWeights, One

(* A trust score is a fraction of natural numbers.                          *)
LEMMA TrustType ==
  ASSUME NEW score \in [Signals -> Nat], NEW ad \in BOOLEAN,
         NEW fitted \in BOOLEAN
  PROVE  ComputeTrustScore(score, ad, fitted) \in [sum : Nat, of : Nat]
<1>1. ASSUME NEW w \in [Signals -> Nat], NEW n \in Nat
      PROVE  Fused([weights |-> w, of |-> n], score) \in [sum : Nat, of : Nat]
  <2>1. w["fsm"] * score["fsm"] \in Nat
    BY ProductType DEF Signals
  <2>2. w["drift"] * score["drift"] \in Nat
    BY ProductType DEF Signals
  <2>3. w["fleet"] * score["fleet"] \in Nat
    BY ProductType DEF Signals
  <2>4. QED
    BY <2>1, <2>2, <2>3 DEF Fused
<1>2. CASE ad
  <2>1. Active(fitted) \in [Signals -> BOOLEAN]
    BY DEF Active
  <2>2. PICK w \in [Signals -> Nat], n \in Nat :
          RenormalizeWeights(Active(fitted)) = [weights |-> w, of |-> n]
    BY <2>1, WeightsType
  <2>3. QED
    BY <1>1, <1>2, <2>2 DEF ComputeTrustScore
<1>3. CASE ~ad
  <2>1. Weights \in [Signals -> Nat] /\ One \in Nat
    BY WeightsAreNat DEF One
  <2>2. QED
    BY <1>1, <1>3, <2>1 DEF ComputeTrustScore
<1>4. QED
  BY <1>2, <1>3

(* The signals adaptive fusion uses.                                        *)
LEMMA ActiveSignals ==
  \A fitted \in BOOLEAN :
    /\ Active(fitted) \in [Signals -> BOOLEAN]
    /\ Active(fitted)["fsm"] = TRUE
    /\ Active(fitted)["drift"] = fitted
    /\ Active(fitted)["fleet"] = TRUE
BY Zenon DEF Active, Signals

(* A weighted mean of two numbers lies between them.                        *)
LEMMA MeanBetween ==
  ASSUME NEW a \in Nat, NEW b \in Nat, NEW v \in Nat, NEW w \in Nat
  PROVE  \/ a * (v + w) <= a * v + b * w /\ a * v + b * w <= b * (v + w)
         \/ b * (v + w) <= a * v + b * w /\ a * v + b * w <= a * (v + w)
<1>1. a * (v + w) = a * v + a * w /\ b * (v + w) = b * v + b * w
  OBVIOUS
<1>2. /\ a * v \in Nat /\ a * w \in Nat
      /\ b * v \in Nat /\ b * w \in Nat
  BY ProductType
<1>3. CASE a <= b
  <2>1. a * w <= b * w /\ a * v <= b * v
    BY <1>3, ProductMonotone
  <2>2. QED
    BY <1>1, <1>2, <2>1
<1>4. CASE b <= a
  <2>1. b * w <= a * w /\ b * v <= a * v
    BY <1>4, ProductMonotone
  <2>2. QED
    BY <1>1, <1>2, <2>1
<1>5. QED
  BY <1>3, <1>4

(* Fusion over all signals but the drift, which has nothing to say.         *)
LEMMA FusedWithoutDrift ==
  ASSUME NEW score \in [Signals -> Nat], score["drift"] = 0,
         NEW a \in [Signals -> BOOLEAN],
         a["fsm"] = TRUE, a["drift"] = FALSE, a["fleet"] = TRUE,
         Weights["fsm"] + Weights["fleet"] > 0
  PROVE  Fused(RenormalizeWeights(a), score) =
           [sum |-> score["fsm"] * Weights["fsm"]
                      + score["fleet"] * Weights["fleet"],
            of  |-> Weights["fsm"] + Weights["fleet"]]
<1> DEFINE R == RenormalizeWeights(a)
<1>1. Total(a) = Weights["fsm"] + Weights["fleet"]
  BY WeightsAreNat DEF Total
<1>2. /\ R.weights = [s \in Signals |-> IF a[s] THEN Weights[s] ELSE 0]
      /\ R.of = Weights["fsm"] + Weights["fleet"]
  BY <1>1, WeightsAreNat DEF RenormalizeWeights
<1>3. /\ R.weights["fsm"] = Weights["fsm"]
      /\ R.weights["drift"] = 0
      /\ R.weights["fleet"] = Weights["fleet"]
  BY <1>2, WeightsAreNat
<1>4. /\ Weights["fsm"] * score["fsm"] = score["fsm"] * Weights["fsm"]
      /\ Weights["fleet"] * score["fleet"] = score["fleet"] * Weights["fleet"]
      /\ score["fsm"] * Weights["fsm"] \in Nat
  BY WeightsAreNat, ProductType
<1> HIDE DEF R
<1>5. QED
  BY <1>2, <1>3, <1>4 DEF Fused, R

(* Fusion over all signals: the static sum, if the weights sum to one.      *)
LEMMA FusedWithDrift ==
  ASSUME NEW score \in [Signals -> Nat],
         NEW a \in [Signals -> BOOLEAN],
         a["fsm"] = TRUE, a["drift"] = TRUE, a["fleet"] = TRUE,
         Weights["fsm"] + Weights["drift"] + Weights["fleet"] = One
  PROVE  Fused(RenormalizeWeights(a), score) =
           [sum |-> Weights["fsm"] * score["fsm"]
                      + Weights["drift"] * score["drift"]
                      + Weights["fleet"] * score["fleet"],
            of  |-> One]
<1> DEFINE R == RenormalizeWeights(a)
<1>1. Total(a) = One
  BY DEF Total
<1>2. /\ R.weights = [s \in Signals |-> IF a[s] THEN Weights[s] ELSE 0]
      /\ R.of = One
  BY <1>1 DEF RenormalizeWeights, One
<1>3. /\ R.weights["fsm"] = Weights["fsm"]
      /\ R.weights["drift"] = Weights["drift"]
      /\ R.weights["fleet"] = Weights["fleet"]
  BY <1>2, WeightsAreNat
<1> HIDE DEF R
<1>4. QED
  BY <1>2, <1>3 DEF Fused, R

-----------------------------------------------------------------------------
(* Types.                                                                   *)
USE ModelsAssumption

(* The cohort of a client, in the worker and in a trainer.                  *)
LEMMA CohortType ==
  ASSUME TypeOK, NEW c \in Clients, NEW per_client \in BOOLEAN
  PROVE  /\ CohortFor(c) \in Cohorts
         /\ CohortForClient(c, per_client) \in Cohorts
BY DEF TypeOK, CohortFor, CohortForClient, Cohorts

(* There are finitely many feature windows.                                 *)
LEMMA VectorsFinite ==
  ASSUME NEW k, NEW per_client
  PROVE  Cardinality(Vectors(k, per_client)) \in Nat
<1>1. IsFiniteSet(Clients)
  BY FS_Subset DEF Cohorts
<1>2. IsFiniteSet(1..MaxRows)
  BY FS_Interval
<1>3. IsFiniteSet(Clients \X (1..MaxRows))
  BY <1>1, <1>2, FS_Product
<1>4. Vectors(k, per_client) \in SUBSET (Clients \X (1..MaxRows))
  BY DEF Vectors
<1>5. IsFiniteSet(Vectors(k, per_client))
  BY <1>3, <1>4, FS_Subset
<1>6. QED
  BY <1>5, FS_CardinalityType

(* The state of the registry after `get'.                                   *)
LEMMA ReloadedType ==
  ASSUME TypeOK, lookup # None, NEW k \in Cohorts
  PROVE  /\ Reloaded(k).models \in [Cohorts -> Nat]
         /\ Reloaded(k).trained_at \in [Cohorts -> Nat]
<1>1. lookup.meta # None => lookup.meta.trained_at \in Nat
  BY DEF TypeOK, Announced
<1>2. CASE Outdated(k) /\ file[k] \in Version
  <2>1. Reloaded(k) =
          [models     |-> [models EXCEPT ![k] = file[k]],
           trained_at |-> [trained_at EXCEPT ![k] = lookup.meta.trained_at]]
    BY <1>2, Zenon DEF Reloaded
  <2>2. QED
    BY <1>1, <1>2, <2>1 DEF TypeOK, Outdated, Version
<1>3. CASE ~(Outdated(k) /\ file[k] \in Version)
  <2>1. Reloaded(k) = [models |-> models, trained_at |-> trained_at]
    BY <1>3, Zenon DEF Reloaded
  <2>2. QED
    BY <2>1 DEF TypeOK
<1>4. QED
  BY <1>2, <1>3

(* Score vectors explored are score vectors.                                *)
LEMMA ScoreType ==
  ASSUME NEW score \in [Signals -> Scores \cup {0}]
  PROVE  /\ score \in [Signals -> 0..One]
         /\ score \in [Signals -> Nat]
<1>1. Scores \cup {0} \subseteq 0..One /\ 0..One \subseteq Nat
  BY DEF One
<1>2. QED
  BY <1>1

-----------------------------------------------------------------------------
(* Induction.                                                               *)

(* The invariant holds initially.                                           *)
LEMMA InitIInv == Init => IInv
<1> SUFFICES ASSUME Init PROVE IInv
  OBVIOUS
<1>1. TypeOK
  BY DEF Init, TypeOK, Content, Cohorts
<1>2. TrainersInv /\ MetaInv /\ LookupInv /\ HeldInv /\ ColdOnlyWhileTorn
  BY DEF Init, TrainersInv, MetaInv, LookupInv, HeldInv, ColdOnlyWhileTorn
<1>3. QED
  BY <1>1, <1>2 DEF IInv

(* A trainer that has read its data has something to fit in each cohort.    *)
LEMMA CollectStep ==
  ASSUME IInv, NEW t \in Trainers, NEW per_client \in PerClientModes,
         Collect(t, per_client)
  PROVE  IInv'
<1> DEFINE data == [k \in Cohorts |-> Cardinality(Vectors(k, per_client))]
           new == [step |-> "choose", data |-> data,
                   todo |-> {k \in Cohorts : data[k] >= MinTrainingSamples},
                   cohort |-> Default, trained_at |-> 0, alone |-> TRUE]
<1>1. data \in [Cohorts -> Nat]
  BY VectorsFinite
<1> HIDE DEF data
<1>2. /\ new \in Trainer
      /\ \A k \in new.todo : data[k] \in Version
  BY <1>1 DEF Trainer, Steps, Cohorts, Version
<1>3. trainer' = [trainer EXCEPT ![t] = new]
  BY DEF Collect, data
<1>4. TypeOK'
  <2>1. trainer' \in [Trainers -> Trainer \cup {None}]
    BY <1>2, <1>3 DEF IInv, TypeOK
  <2>2. scored' = None /\ trainings' \in Nat
    BY DEF IInv, TypeOK, Collect
  <2>3. UNCHANGED <<adaptive, rows, db_user, versions, file, meta, username,
                    models, trained_at, lookup, clock, restarts>>
    BY DEF Collect, database, worker
  <2>4. QED
    BY <2>1, <2>2, <2>3 DEF IInv, TypeOK
<1>5. TrainersInv'
  <2> SUFFICES ASSUME NEW s \in Trainers, trainer'[s] # None
               PROVE  Progress(s)'
    BY DEF TrainersInv
  <2>1. CASE s = t
    BY <1>2, <1>3, <2>1 DEF IInv, TypeOK, Progress
  <2>2. CASE s # t
    <3>1. trainer'[s] = trainer[s] /\ Progress(s)
      BY <1>3, <2>2 DEF IInv, TypeOK, TrainersInv
    <3>2. QED
      BY <3>1 DEF Progress, Collect, database
  <2>3. QED
    BY <2>1, <2>2
<1>6. MetaInv' /\ LookupInv' /\ HeldInv' /\ ColdOnlyWhileTorn'
  BY DEF IInv, Collect, MetaInv, LookupInv, HeldInv, ColdOnlyWhileTorn,
         CohortFor, worker, database
<1>7. QED
  BY <1>4, <1>5, <1>6 DEF IInv

(* A trainer whose file another one opens goes on as before.                *)
LEMMA SharedRecord ==
  ASSUME NEW r \in Trainer, NEW n, n = [r EXCEPT !.alone = FALSE]
  PROVE  /\ n \in Trainer
         /\ n.step = r.step /\ n.cohort = r.cohort /\ n.data = r.data
         /\ n.todo = r.todo /\ n.trained_at = r.trained_at
BY DEF Trainer, Steps

(* Opening a file keeps it there: it is torn, not gone.                     *)
LEMMA OpenFileStep ==
  ASSUME IInv, NEW t \in Trainers, NEW k \in Cohorts, OpenFile(t, k)
  PROVE  IInv'
<1>1. /\ trainer[t] \in Trainer
      /\ k \in trainer[t].todo
      /\ Progress(t)
      /\ trainer[t].data[k] \in Version
  BY DEF IInv, TypeOK, OpenFile, TrainersInv, Progress
<1>2. /\ trainer'[t] \in Trainer
      /\ trainer'[t].step = "save"
      /\ trainer'[t].cohort = k
      /\ trainer'[t].data = trainer[t].data
      /\ trainer'[t].todo \subseteq trainer[t].todo
  <2>1. PICK b \in BOOLEAN : b = (Saving(k) = {})
    OBVIOUS
  <2>2. trainer'[t] = [trainer[t] EXCEPT !.step = "save", !.cohort = k,
                         !.todo = @ \ {k}, !.alone = b]
    BY <2>1 DEF OpenFile
  <2> DEFINE r == trainer[t]
             n == trainer'[t]
  <2> HIDE DEF r, n
  <2>3. n = [r EXCEPT !.step = "save", !.cohort = k, !.todo = @ \ {k},
                      !.alone = b]
    BY <2>2 DEF r, n
  <2>4. r \in Trainer
    BY <1>1 DEF r
  <2>5. /\ n \in Trainer /\ n.step = "save" /\ n.cohort = k
        /\ n.data = r.data /\ n.todo \subseteq r.todo
    BY <2>3, <2>4 DEF Trainer, Steps
  <2>6. QED
    BY <2>5 DEF r, n
<1>3. ASSUME NEW s \in Trainers, s # t, trainer'[s] # None
      PROVE  /\ trainer[s] \in Trainer
             /\ trainer'[s] \in Trainer
             /\ trainer'[s].step = trainer[s].step
             /\ trainer'[s].cohort = trainer[s].cohort
             /\ trainer'[s].data = trainer[s].data
             /\ trainer'[s].todo = trainer[s].todo
             /\ trainer'[s].trained_at = trainer[s].trained_at
             /\ trainer[s] # None
  <2>1. trainer'[s] = IF s \in Saving(k)
                      THEN [trainer[s] EXCEPT !.alone = FALSE]
                      ELSE trainer[s]
    BY <1>3 DEF OpenFile
  <2>2. trainer[s] # None
    BY <1>3, <2>1 DEF Saving
  <2>3. trainer[s] \in Trainer
    BY <2>2 DEF IInv, TypeOK
  <2>4. CASE s \in Saving(k)
    BY <1>3, <2>1, <2>2, <2>3, <2>4, SharedRecord
  <2>5. CASE s \notin Saving(k)
    BY <2>1, <2>2, <2>3, <2>5
  <2>6. QED
    BY <2>4, <2>5
<1>4. \A j \in Cohorts : file'[j] = IF j = k THEN Torn ELSE file[j]
  BY DEF IInv, TypeOK, OpenFile
<1>5. TypeOK'
  <2>1. \A s \in Trainers : trainer'[s] \in Trainer \cup {None}
    BY <1>2, <1>3
  <2>2. trainer' \in [Trainers -> Trainer \cup {None}]
    BY <2>1 DEF OpenFile
  <2>3. file' \in [Cohorts -> Content]
    BY DEF IInv, TypeOK, Content, OpenFile
  <2>4. scored' = None /\ UNCHANGED <<adaptive, rows, db_user, versions, meta,
          username, models, trained_at, lookup, clock, trainings, restarts>>
    BY DEF OpenFile, database, worker, bounds
  <2>5. QED
    BY <2>2, <2>3, <2>4 DEF IInv, TypeOK
<1>6. TrainersInv'
  <2> SUFFICES ASSUME NEW s \in Trainers, trainer'[s] # None
               PROVE  Progress(s)'
    BY DEF TrainersInv
  <2>1. versions' = versions
    BY DEF OpenFile, database
  <2>2. CASE s = t
    BY <1>1, <1>2, <1>4, <2>2 DEF Progress
  <2>3. CASE s # t
    <3>1. trainer[s] \in Trainer /\ trainer[s] # None /\ Progress(s)
      BY <1>3, <2>3 DEF IInv, TrainersInv
    <3>2. file[trainer[s].cohort] # None => file'[trainer[s].cohort] # None
      BY <1>4, <3>1 DEF Trainer
    <3>3. QED
      BY <1>3, <2>1, <2>3, <3>1, <3>2 DEF Progress
  <2>4. QED
    BY <2>2, <2>3
<1>7. MetaInv'
  BY <1>4 DEF IInv, MetaInv, OpenFile, database
<1>8. LookupInv'
  <2>1. lookup' = lookup /\ username' = username
    BY DEF OpenFile, worker
  <2>2. ASSUME lookup # None
        PROVE  CohortFor(lookup.client) \in Cohorts
    BY <2>2, CohortType DEF IInv, TypeOK
  <2>3. QED
    BY <1>4, <2>1, <2>2 DEF IInv, LookupInv, CohortFor
<1>9. HeldInv' /\ ColdOnlyWhileTorn'
  BY DEF IInv, OpenFile, HeldInv, ColdOnlyWhileTorn, worker
<1>10. QED
  BY <1>5, <1>6, <1>7, <1>8, <1>9 DEF IInv

(* What a trainer has done stays done while others work.                    *)
LEMMA OthersProgress ==
  ASSUME IInv, NEW s \in Trainers, trainer'[s] = trainer[s], trainer[s] # None,
         \A j \in Cohorts : file[j] # None => file'[j] # None,
         \A j \in Cohorts : versions[j] \subseteq versions'[j]
  PROVE  Progress(s)'
<1>1. trainer[s] \in Trainer /\ Progress(s)
  BY DEF IInv, TypeOK, TrainersInv
<1>2. trainer[s].cohort \in Cohorts
  BY <1>1 DEF Trainer
<1>3. QED
  BY <1>1, <1>2 DEF Progress

(* A trainer that closes its file knows a time after the beginning.         *)
LEMMA CloseFileStep ==
  ASSUME IInv, NEW t \in Trainers, NEW content,
         trainer[t] # None, content \in Written(t), CloseFile(t, content)
  PROVE  IInv'
<1> DEFINE k == trainer[t].cohort
<1>1. trainer[t] \in Trainer /\ Progress(t) /\ trainer[t].step = "save"
  BY DEF IInv, TypeOK, TrainersInv, CloseFile
<1>2. k \in Cohorts /\ trainer[t].data[k] \in Version
  BY <1>1 DEF Trainer, Progress
<1>3. content \in Content /\ content # None
  BY <1>2 DEF Written, Content, Version
<1>4. file' = [file EXCEPT ![k] = content]
  BY DEF CloseFile
<1>5. \A j \in Cohorts : file[j] # None => file'[j] # None
  BY <1>2, <1>3, <1>4 DEF IInv, TypeOK
<1>6. clock' \in Nat /\ clock' > 0
  BY DEF CloseFile, IInv, TypeOK
<1>7. trainer' = [trainer EXCEPT ![t] =
                    [trainer[t] EXCEPT !.step = "commit",
                                       !.trained_at = clock']]
  BY <1>1 DEF CloseFile, NextStep
<1>8. /\ trainer'[t] \in Trainer
      /\ trainer'[t].step = "commit"
      /\ trainer'[t].cohort = k
      /\ trainer'[t].data = trainer[t].data
      /\ trainer'[t].todo = trainer[t].todo
      /\ trainer'[t].trained_at = clock'
  <2>1. trainer'[t] = [trainer[t] EXCEPT !.step = "commit",
                                         !.trained_at = clock']
    BY <1>7 DEF IInv, TypeOK
  <2> DEFINE r == trainer[t]
             n == trainer'[t]
             a == clock'
  <2> HIDE DEF r, n, a
  <2>2. r \in Trainer /\ a \in Nat
    BY <1>1, <1>6 DEF r, a
  <2>3. n = [r EXCEPT !.step = "commit", !.trained_at = a]
    BY <2>1 DEF r, n, a
  <2>4. /\ n \in Trainer /\ n.step = "commit" /\ n.cohort = r.cohort
        /\ n.data = r.data /\ n.todo = r.todo /\ n.trained_at = a
    BY <2>2, <2>3 DEF Trainer, Steps
  <2>5. QED
    BY <2>4 DEF r, n, a
<1>9. UNCHANGED <<adaptive, rows, db_user, versions, meta, username, models,
                  trained_at, lookup, trainings, restarts>> /\ scored' = None
  BY DEF CloseFile, database, worker, bounds
<1>10. TypeOK'
  <2>1. trainer' \in [Trainers -> Trainer \cup {None}]
    BY <1>7, <1>8 DEF IInv, TypeOK
  <2>2. file' \in [Cohorts -> Content]
    BY <1>3, <1>4 DEF IInv, TypeOK
  <2>3. QED
    BY <1>6, <1>9, <2>1, <2>2 DEF IInv, TypeOK
<1>11. TrainersInv'
  <2> SUFFICES ASSUME NEW s \in Trainers, trainer'[s] # None
               PROVE  Progress(s)'
    BY DEF TrainersInv
  <2>1. CASE s = t
    <3>1. file'[k] # None
      BY <1>2, <1>3, <1>4 DEF IInv, TypeOK
    <3>2. QED
      BY <1>1, <1>2, <1>6, <1>8, <2>1, <3>1 DEF Progress
  <2>2. CASE s # t
    <3>1. trainer'[s] = trainer[s]
      BY <1>7, <2>2 DEF IInv, TypeOK
    <3>2. QED
      BY <1>5, <1>9, <3>1, OthersProgress
  <2>3. QED
    BY <2>1, <2>2
<1>12. MetaInv'
  BY <1>5, <1>9 DEF IInv, MetaInv
<1>13. LookupInv'
  <2>1. lookup # None => CohortFor(lookup.client) \in Cohorts
    BY CohortType DEF IInv, TypeOK
  <2>2. QED
    BY <1>5, <1>9, <2>1 DEF IInv, LookupInv, CohortFor
<1>14. HeldInv' /\ ColdOnlyWhileTorn'
  BY <1>9 DEF IInv, HeldInv, ColdOnlyWhileTorn
<1>15. QED
  BY <1>10, <1>11, <1>12, <1>13, <1>14 DEF IInv

(* The row of the fitted model is on record from now on.                    *)
LEMMA CommitVersionStep ==
  ASSUME IInv, NEW t \in Trainers, CommitVersion(t)
  PROVE  IInv'
<1> DEFINE k == trainer[t].cohort
           n == trainer[t].data[k]
<1>1. /\ trainer[t] \in Trainer /\ Progress(t)
      /\ trainer[t] # None /\ trainer[t].step = "commit"
  BY DEF IInv, TypeOK, TrainersInv, CommitVersion
<1>2. k \in Cohorts /\ n \in Version /\ trainer[t].trained_at \in Nat
  BY <1>1 DEF Trainer, Progress
<1>3. versions' = [versions EXCEPT ![k] = @ \cup {n}]
  BY DEF CommitVersion
<1>4. /\ \A j \in Cohorts : versions[j] \subseteq versions'[j]
      /\ n \in versions'[k]
  BY <1>2, <1>3 DEF IInv, TypeOK
<1>5. trainer' = [trainer EXCEPT ![t] = [trainer[t] EXCEPT !.step = "publish"]]
  BY <1>1 DEF CommitVersion, NextStep
<1>6. /\ trainer'[t] \in Trainer
      /\ trainer'[t].step = "publish"
      /\ trainer'[t].cohort = k
      /\ trainer'[t].data = trainer[t].data
      /\ trainer'[t].todo = trainer[t].todo
      /\ trainer'[t].trained_at = trainer[t].trained_at
  <2>1. trainer'[t] = [trainer[t] EXCEPT !.step = "publish"]
    BY <1>5 DEF IInv, TypeOK
  <2>2. QED
    BY <1>1, <2>1 DEF Trainer, Steps
<1>7. UNCHANGED <<adaptive, rows, db_user, file, meta, username, models,
                  trained_at, lookup, clock, trainings, restarts>>
        /\ scored' = None
  BY DEF CommitVersion, worker, bounds
<1>8. TypeOK'
  <2>1. trainer' \in [Trainers -> Trainer \cup {None}]
    BY <1>5, <1>6 DEF IInv, TypeOK
  <2>2. versions' \in [Cohorts -> SUBSET Version]
    BY <1>2, <1>3 DEF IInv, TypeOK
  <2>3. QED
    BY <1>7, <2>1, <2>2 DEF IInv, TypeOK
<1>9. TrainersInv'
  <2> SUFFICES ASSUME NEW s \in Trainers, trainer'[s] # None
               PROVE  Progress(s)'
    BY DEF TrainersInv
  <2>1. CASE s = t
    BY <1>1, <1>2, <1>4, <1>6, <1>7, <2>1 DEF Progress
  <2>2. CASE s # t
    <3>1. trainer'[s] = trainer[s]
      BY <1>5, <2>2 DEF IInv, TypeOK
    <3>2. QED
      BY <1>4, <1>7, <3>1, OthersProgress
  <2>3. QED
    BY <2>1, <2>2
<1>10. MetaInv'
  BY <1>4, <1>7 DEF IInv, MetaInv
<1>11. LookupInv' /\ HeldInv' /\ ColdOnlyWhileTorn'
  BY <1>7 DEF IInv, LookupInv, HeldInv, ColdOnlyWhileTorn, CohortFor
<1>12. QED
  BY <1>8, <1>9, <1>10, <1>11 DEF IInv

(* What is announced was committed and has a file.                          *)
LEMMA PublishStep ==
  ASSUME IInv, NEW t \in Trainers, Publish(t)
  PROVE  IInv'
<1> DEFINE k == trainer[t].cohort
           new == [trained_at |-> trainer[t].trained_at,
                   n          |-> trainer[t].data[k]]
<1>1. /\ trainer[t] \in Trainer /\ Progress(t)
      /\ trainer[t] # None /\ trainer[t].step = "publish"
  BY DEF IInv, TypeOK, TrainersInv, Publish
<1>2. /\ k \in Cohorts /\ new \in Announced
      /\ new.trained_at > 0 /\ new.n \in versions[k] /\ file[k] # None
  BY <1>1 DEF Trainer, Progress, Announced
<1>3. meta' = [meta EXCEPT ![k] = new]
  BY DEF Publish
<1>4. trainer' = [trainer EXCEPT ![t] = [trainer[t] EXCEPT !.step = "choose"]]
  BY <1>1 DEF Publish, NextStep
<1>5. /\ trainer'[t] \in Trainer
      /\ trainer'[t].step = "choose"
      /\ trainer'[t].data = trainer[t].data
      /\ trainer'[t].todo = trainer[t].todo
  <2>1. trainer'[t] = [trainer[t] EXCEPT !.step = "choose"]
    BY <1>4 DEF IInv, TypeOK
  <2>2. QED
    BY <1>1, <2>1 DEF Trainer, Steps
<1>6. UNCHANGED <<adaptive, rows, db_user, versions, file, username, models,
                  trained_at, lookup, clock, trainings, restarts>>
        /\ scored' = None
  BY DEF Publish, database, worker, bounds
<1> HIDE DEF new
<1>7. TypeOK'
  <2>1. trainer' \in [Trainers -> Trainer \cup {None}]
    BY <1>4, <1>5 DEF IInv, TypeOK
  <2>2. meta' \in [Cohorts -> Announced \cup {None}]
    BY <1>2, <1>3 DEF IInv, TypeOK
  <2>3. QED
    BY <1>6, <2>1, <2>2 DEF IInv, TypeOK
<1>8. TrainersInv'
  <2> SUFFICES ASSUME NEW s \in Trainers, trainer'[s] # None
               PROVE  Progress(s)'
    BY DEF TrainersInv
  <2>1. CASE s = t
    BY <1>1, <1>5, <2>1 DEF Progress
  <2>2. CASE s # t
    <3>1. trainer'[s] = trainer[s]
      BY <1>4, <2>2 DEF IInv, TypeOK
    <3>2. QED
      BY <1>6, <3>1, OthersProgress
  <2>3. QED
    BY <2>1, <2>2
<1>9. MetaInv'
  <2>1. \A j \in Cohorts : meta'[j] = IF j = k THEN new ELSE meta[j]
    BY <1>3 DEF IInv, TypeOK
  <2>2. QED
    BY <1>2, <1>6, <2>1 DEF IInv, MetaInv
<1>10. LookupInv' /\ HeldInv' /\ ColdOnlyWhileTorn'
  BY <1>6 DEF IInv, LookupInv, HeldInv, ColdOnlyWhileTorn, CohortFor
<1>11. QED
  BY <1>7, <1>8, <1>9, <1>10 DEF IInv

(* A trainer that ends, in whatever step, takes nothing back.               *)
LEMMA TrainerEndsStep ==
  ASSUME IInv, NEW t \in Trainers, TrainerEnds(t)
  PROVE  IInv'
<1>1. trainer' = [trainer EXCEPT ![t] = None]
  BY DEF TrainerEnds
<1>2. UNCHANGED <<adaptive, rows, db_user, versions, file, meta, username,
                  models, trained_at, lookup, clock, trainings, restarts>>
        /\ scored' = None
  BY DEF TrainerEnds, database, worker, bounds
<1>3. TypeOK'
  <2>1. trainer' \in [Trainers -> Trainer \cup {None}]
    BY <1>1 DEF IInv, TypeOK
  <2>2. QED
    BY <1>2, <2>1 DEF IInv, TypeOK
<1>4. TrainersInv'
  <2> SUFFICES ASSUME NEW s \in Trainers, trainer'[s] # None
               PROVE  Progress(s)'
    BY DEF TrainersInv
  <2>1. trainer'[s] = trainer[s]
    BY <1>1 DEF IInv, TypeOK
  <2>2. QED
    BY <1>2, <2>1, OthersProgress
<1>5. MetaInv' /\ LookupInv' /\ HeldInv' /\ ColdOnlyWhileTorn'
  BY <1>2 DEF IInv, MetaInv, LookupInv, HeldInv, ColdOnlyWhileTorn, CohortFor
<1>6. QED
  BY <1>3, <1>4, <1>5 DEF IInv

(* A CONNECT finds no window being scored.                                  *)
LEMMA ConnectStep ==
  ASSUME IInv, NEW c \in Clients, NEW u \in Users, Connect(c, u)
  PROVE  IInv'
<1>1. UNCHANGED <<adaptive, rows, db_user, versions, file, meta, trainer,
                  models, trained_at, lookup, clock, trainings, restarts>>
        /\ scored' = None /\ lookup = None
  BY DEF Connect, database, bounds
<1>2. TypeOK'
  <2>1. username' \in [Clients -> Users \cup {None}]
    BY DEF IInv, TypeOK, Connect
  <2>2. QED
    BY <1>1, <2>1 DEF IInv, TypeOK
<1>3. TrainersInv'
  BY <1>1 DEF IInv, TrainersInv, Progress
<1>4. MetaInv' /\ LookupInv' /\ HeldInv' /\ ColdOnlyWhileTorn'
  BY <1>1 DEF IInv, MetaInv, LookupInv, HeldInv, ColdOnlyWhileTorn
<1>5. QED
  BY <1>2, <1>3, <1>4 DEF IInv

(* A window that closes reads an announcement that MetaInv describes.       *)
LEMMA CloseWindowStep ==
  ASSUME IInv, NEW c \in Clients, CloseWindow(c)
  PROVE  IInv'
<1>1. UNCHANGED <<adaptive, rows, db_user, versions, file, meta, trainer,
                  username, models, trained_at, clock, trainings, restarts>>
        /\ scored' = None
        /\ lookup' = [client |-> c, meta |-> meta[CohortFor(c)]]
  BY DEF CloseWindow, database, bounds
<1>2. CohortFor(c) \in Cohorts
  BY CohortType DEF IInv
<1>3. TypeOK'
  <2>1. lookup' \in [client : Clients, meta : Announced \cup {None}]
    BY <1>1, <1>2 DEF IInv, TypeOK
  <2>2. QED
    BY <1>1, <2>1 DEF IInv, TypeOK
<1>4. LookupInv'
  BY <1>1, <1>2 DEF IInv, MetaInv, LookupInv, CohortFor
<1>5. TrainersInv'
  BY <1>1 DEF IInv, TrainersInv, Progress
<1>6. MetaInv' /\ HeldInv' /\ ColdOnlyWhileTorn'
  BY <1>1 DEF IInv, MetaInv, HeldInv, ColdOnlyWhileTorn
<1>7. QED
  BY <1>3, <1>4, <1>5, <1>6 DEF IInv

(* A window is scored with the model the registry then holds.               *)
LEMMA ScoreWindowStep ==
  ASSUME IInv, NEW score \in [Signals -> Scores \cup {0}], ScoreWindow(score)
  PROVE  IInv'
<1> DEFINE c == lookup.client
           k == CohortFor(c)
           R == Reloaded(k)
<1>1. /\ lookup # None
      /\ models' = R.models
      /\ trained_at' = R.trained_at
      /\ rows' = [rows EXCEPT ![c] = IF @ < MaxRows THEN @ + 1 ELSE @]
      /\ db_user' = [db_user EXCEPT ![c] = IF @ = None THEN username[c] ELSE @]
      /\ lookup' = None
      /\ UNCHANGED <<adaptive, versions, file, meta, trainer, username, clock,
                     trainings, restarts>>
  BY DEF ScoreWindow, bounds
<1>2. c \in Clients /\ k \in Cohorts
  <2>1. c \in Clients
    BY <1>1 DEF IInv, TypeOK
  <2>2. QED
    BY <2>1, CohortType DEF IInv
<1>3. R.models \in [Cohorts -> Nat] /\ R.trained_at \in [Cohorts -> Nat]
  BY <1>1, <1>2, ReloadedType DEF IInv
<1>4. /\ Outdated(k) /\ file[k] \in Version =>
           /\ R.models = [models EXCEPT ![k] = file[k]]
           /\ R.trained_at = [trained_at EXCEPT ![k] = lookup.meta.trained_at]
      /\ ~(Outdated(k) /\ file[k] \in Version) =>
           R.models = models /\ R.trained_at = trained_at
  BY Zenon DEF Reloaded
<1>5. PICK trust \in [sum : Nat, of : Nat] :
        scored' = [cohort |-> k, announced |-> lookup.meta # None,
                   file |-> file[k], model |-> R.models[k], score |-> score,
                   trust |-> trust]
  <2>1. \A fitted \in BOOLEAN :
          ComputeTrustScore(score, adaptive, fitted) \in [sum : Nat, of : Nat]
    BY ScoreType, TrustType DEF IInv, TypeOK
  <2>2. (R.models[k] # 0) \in BOOLEAN
    OBVIOUS
  <2>3. ComputeTrustScore(score, adaptive, R.models[k] # 0)
          \in [sum : Nat, of : Nat]
    BY <2>1, <2>2, Zenon
  <2>4. scored' = [cohort |-> k, announced |-> lookup.meta # None,
                   file |-> file[k], model |-> R.models[k], score |-> score,
                   trust |-> ComputeTrustScore(score, adaptive,
                                               R.models[k] # 0)]
    BY Zenon DEF ScoreWindow
  <2>5. QED
    BY <2>3, <2>4, Zenon
<1> HIDE DEF R, k, c
<1>6. TypeOK'
  <2>1. scored' \in ScoredWindow
    <3>1. score \in [Signals -> 0..One]
      BY ScoreType
    <3>2. file[k] \in Content /\ R.models[k] \in Nat
      BY <1>2, <1>3 DEF IInv, TypeOK
    <3>3. PICK b \in BOOLEAN : b = (lookup.meta # None)
      OBVIOUS
    <3>4. scored' = [cohort |-> k, announced |-> b, file |-> file[k],
                     model |-> R.models[k], score |-> score, trust |-> trust]
      BY <1>5, <3>3
    <3>5. QED
      BY <1>2, <3>1, <3>2, <3>4 DEF ScoredWindow
  <2>2. rows' \in [Clients -> Nat]
    BY <1>1, <1>2 DEF IInv, TypeOK
  <2>3. db_user' \in [Clients -> Users \cup {None}]
    BY <1>1, <1>2 DEF IInv, TypeOK
  <2>4. QED
    BY <1>1, <1>3, <2>1, <2>2, <2>3 DEF IInv, TypeOK
<1>7. HeldInv'
  <2>1. CASE Outdated(k) /\ file[k] \in Version
    <3>1. /\ models' = [models EXCEPT ![k] = file[k]]
          /\ trained_at' = [trained_at EXCEPT ![k] = lookup.meta.trained_at]
          /\ file[k] # 0
      BY <1>1, <1>4, <2>1 DEF Version
    <3>2. QED
      BY <1>2, <3>1 DEF IInv, TypeOK, HeldInv
  <2>2. CASE ~(Outdated(k) /\ file[k] \in Version)
    <3>1. models' = models /\ trained_at' = trained_at
      BY <1>1, <1>4, <2>2
    <3>2. QED
      BY <3>1 DEF IInv, HeldInv
  <2>3. QED
    BY <2>1, <2>2
<1>8. ColdOnlyWhileTorn'
  <2> SUFFICES ASSUME lookup.meta # None, R.models[k] = 0
               PROVE  file[k] \in {Torn, Mixed}
    BY <1>5 DEF ColdOnlyWhileTorn
  <2>1. lookup.meta.trained_at > 0 /\ file[k] # None
    BY <1>1 DEF IInv, LookupInv, k, c
  <2>2. file[k] \in Version \cup {Torn, Mixed}
    BY <1>2, <2>1 DEF IInv, TypeOK, Content
  <2>3. CASE Outdated(k) /\ file[k] \in Version
    <3>1. R.models[k] = file[k]
      BY <1>2, <1>4, <2>3 DEF IInv, TypeOK
    <3>2. QED
      BY <2>3, <3>1 DEF Version
  <2>4. CASE ~Outdated(k)
    <3>1. R.models = models
      BY <1>4, <2>4
    <3>2. trained_at[k] = lookup.meta.trained_at
      BY <2>4 DEF Outdated
    <3>3. models[k] # 0
      BY <1>2, <2>1, <3>2 DEF IInv, HeldInv
    <3>4. QED
      BY <3>1, <3>3
  <2>5. QED
    BY <2>2, <2>3, <2>4
<1>9. TrainersInv'
  BY <1>1 DEF IInv, TrainersInv, Progress
<1>10. MetaInv' /\ LookupInv'
  BY <1>1 DEF IInv, MetaInv, LookupInv
<1>11. QED
  BY <1>6, <1>7, <1>8, <1>9, <1>10 DEF IInv

(* A worker that starts again knows nothing and believes nothing.           *)
LEMMA ForgetStep ==
  ASSUME IInv, Forget, restarts' \in Nat
  PROVE  IInv'
<1>1. /\ UNCHANGED <<adaptive, rows, db_user, versions, file, meta, trainer,
                     clock, trainings>>
      /\ username' = [c \in Clients |-> None]
      /\ models' = [k \in Cohorts |-> 0]
      /\ trained_at' = [k \in Cohorts |-> 0]
      /\ lookup' = None /\ scored' = None
  BY DEF Forget, database
<1>2. TypeOK'
  BY <1>1 DEF IInv, TypeOK
<1>3. TrainersInv'
  BY <1>1 DEF IInv, TrainersInv, Progress
<1>4. MetaInv' /\ LookupInv' /\ HeldInv' /\ ColdOnlyWhileTorn'
  BY <1>1 DEF IInv, MetaInv, LookupInv, HeldInv, ColdOnlyWhileTorn
<1>5. QED
  BY <1>2, <1>3, <1>4 DEF IInv

(* Every step keeps the invariant.                                          *)
LEMMA NextIInv == IInv /\ [Next]_vars => IInv'
<1> SUFFICES ASSUME IInv, [Next]_vars
             PROVE  IInv'
  OBVIOUS
<1>1. ASSUME NEW t \in Trainers, NEW per_client \in PerClientModes,
             Collect(t, per_client)
      PROVE  IInv'
  BY <1>1, CollectStep
<1>2. ASSUME NEW t \in Trainers, NEW k \in Cohorts, OpenFile(t, k)
      PROVE  IInv'
  BY <1>2, OpenFileStep
<1>3. ASSUME NEW t \in Trainers, trainer[t] # None,
             NEW content \in Written(t), CloseFile(t, content)
      PROVE  IInv'
  BY <1>3, CloseFileStep
<1>4. ASSUME NEW t \in Trainers, CommitVersion(t)
      PROVE  IInv'
  BY <1>4, CommitVersionStep
<1>5. ASSUME NEW t \in Trainers, Publish(t)
      PROVE  IInv'
  BY <1>5, PublishStep
<1>6. ASSUME NEW t \in Trainers, TrainerEnds(t)
      PROVE  IInv'
  BY <1>6, TrainerEndsStep
<1>7. ASSUME NEW c \in Clients, NEW u \in Users, Connect(c, u)
      PROVE  IInv'
  BY <1>7, ConnectStep
<1>8. ASSUME NEW c \in Clients, CloseWindow(c)
      PROVE  IInv'
  BY <1>8, CloseWindowStep
<1>9. ASSUME NEW score \in [Signals -> Scores \cup {0}], ScoreWindow(score)
      PROVE  IInv'
  BY <1>9, ScoreWindowStep
<1>10. CASE ScoreRaises
  <2>1. Forget /\ restarts' = restarts
    BY <1>10 DEF ScoreRaises
  <2>2. restarts' \in Nat
    BY <2>1 DEF IInv, TypeOK
  <2>3. QED
    BY <2>1, <2>2, ForgetStep
<1>11. CASE Restart
  <2>1. Forget /\ restarts' = restarts + 1
    BY <1>11 DEF Restart
  <2>2. restarts' \in Nat
    BY <2>1 DEF IInv, TypeOK
  <2>3. QED
    BY <2>1, <2>2, ForgetStep
<1>12. CASE UNCHANGED vars
  <2>1. UNCHANGED <<adaptive, rows, db_user, versions, file, meta, trainer,
                    username, models, trained_at, lookup, scored, clock,
                    trainings, restarts>>
    BY <1>12 DEF vars, database, worker, bounds
  <2>2. TypeOK'
    BY <2>1 DEF IInv, TypeOK
  <2>3. TrainersInv' /\ MetaInv'
    BY <2>1 DEF IInv, TrainersInv, Progress, MetaInv
  <2>4. LookupInv' /\ HeldInv' /\ ColdOnlyWhileTorn'
    BY <2>1 DEF IInv, LookupInv, HeldInv, ColdOnlyWhileTorn, CohortFor
  <2>5. QED
    BY <2>2, <2>3, <2>4 DEF IInv
<1>13. QED
  BY <1>1, <1>2, <1>3, <1>4, <1>5, <1>6, <1>7, <1>8, <1>9, <1>10, <1>11,
     <1>12 DEF Next

(* The invariant holds throughout.                                          *)
LEMMA Invariant == Spec => []IInv
<1>1. QED
  BY InitIInv, NextIInv, PTL DEF Spec

-----------------------------------------------------------------------------
(* Every variable has its type, whatever the trainers and the worker do.    *)
THEOREM TypeCorrect == Spec => []TypeOK
<1>1. IInv => TypeOK
  BY DEF IInv
<1>2. QED
  BY <1>1, Invariant, PTL

(* A model that is announced in Redis has its row in model_versions, however *)
(* many trainers overlap and wherever they die (train.py: commit, then set). *)
THEOREM Recorded == Spec => []AnnouncedIsRecorded
<1>1. IInv => AnnouncedIsRecorded
  BY DEF IInv, MetaInv, AnnouncedIsRecorded
<1>2. QED
  BY <1>1, Invariant, PTL

(* A window of a cohort with an announced model is scored cold only while   *)
(* the cohort's file is torn or mixed (drift.py: save, get).                *)
THEOREM ColdOnlyTorn == Spec => []ColdOnlyWhileTorn
<1>1. IInv => ColdOnlyWhileTorn
  BY DEF IInv
<1>2. QED
  BY <1>1, Invariant, PTL

(* While the worker lives no cohort loses its model (drift.py: get).        *)
THEOREM Unlearned == Spec => NeverUnlearned
<1> DEFINE Kept == \A k \in Cohorts :
                     models[k] # 0 =>
                       models'[k] # 0 \/ username' = [c \in Clients |-> None]
<1>1. IInv /\ [Next]_vars => [Kept]_vars
  <2> SUFFICES ASSUME IInv, Next
               PROVE  Kept
    OBVIOUS
  <2>1. ASSUME NEW score \in [Signals -> Scores \cup {0}], ScoreWindow(score)
        PROVE  Kept
    <3> DEFINE k == CohortFor(lookup.client)
    <3>1. models' = Reloaded(k).models
      BY <2>1 DEF ScoreWindow
    <3>2. \/ models' = models
          \/ models' = [models EXCEPT ![k] = file[k]] /\ file[k] \in Version
      BY <3>1, Zenon DEF Reloaded
    <3> HIDE DEF k
    <3>3. QED
      BY <3>2 DEF IInv, TypeOK, Version
  <2>2. CASE ScoreRaises \/ Restart
    BY <2>2 DEF ScoreRaises, Restart, Forget
  <2>3. CASE models' = models
    BY <2>3
  <2>4. QED
    BY <2>1, <2>2, <2>3
       DEF Next, Collect, OpenFile, CloseFile, CommitVersion, Publish,
           TrainerEnds, Connect, CloseWindow, worker
<1>2. QED
  BY <1>1, Invariant, PTL DEF Spec, NeverUnlearned

(* What the comment on the static weights in policy.py says of the          *)
(* configured ones, and that two of them are not both zero.  Nothing checks *)
(* it when the configuration is loaded.                                     *)
WeightsSumToOne ==
  /\ Weights["fsm"] + Weights["drift"] + Weights["fleet"] = One
  /\ Weights["fsm"] + Weights["fleet"] > 0

(* The trust of a scored window is the fusion of its scores.                *)
TrustInv ==
  scored # None =>
    /\ scored.model = 0 => scored.score["drift"] = 0
    /\ scored.trust =
         ComputeTrustScore(scored.score, adaptive, scored.model # 0)

(* Only a scored window gets a trust, and no step switches the fusion.      *)
LEMMA TrustStep == TypeOK /\ TrustInv /\ [Next]_vars => TrustInv'
<1> SUFFICES ASSUME TypeOK, TrustInv, [Next]_vars
             PROVE  TrustInv'
  OBVIOUS
<1>1. ASSUME NEW score \in [Signals -> Scores \cup {0}], ScoreWindow(score)
      PROVE  TrustInv'
  <2> DEFINE k == CohortFor(lookup.client)
             m == Reloaded(k).models[k]
  <2>1. /\ scored' = [cohort |-> k, announced |-> lookup.meta # None,
                      file |-> file[k], model |-> m, score |-> score,
                      trust |-> ComputeTrustScore(score, adaptive, m # 0)]
        /\ m = 0 => score["drift"] = 0
        /\ adaptive' = adaptive
    BY <1>1, Zenon DEF ScoreWindow
  <2> HIDE DEF k, m
  <2>2. /\ scored'.model = m /\ scored'.score = score
        /\ scored'.trust = ComputeTrustScore(score, adaptive, m # 0)
    BY <2>1, Zenon
  <2>3. QED
    BY <2>1, <2>2, Zenon DEF TrustInv
<1>2. CASE scored' = None
  BY <1>2 DEF TrustInv
<1>3. CASE UNCHANGED vars
  <2>1. scored' = scored /\ adaptive' = adaptive
    BY <1>3 DEF vars
  <2>2. QED
    BY <2>1, Zenon DEF TrustInv
<1>4. QED
  BY <1>1, <1>2, <1>3
     DEF Next, Collect, OpenFile, CloseFile, CommitVersion, Publish,
         TrainerEnds, Connect, CloseWindow, ScoreRaises, Restart, Forget

(* If the weights sum to one, adaptive fusion dilutes no score by a model   *)
(* that does not exist: a cold cohort's trust lies between its other two    *)
(* scores, and a fitted cohort's is the static sum (policy.py,              *)
(* renormalize_weights and compute_trust_score).                            *)
THEOREM NotDiluted ==
  ASSUME WeightsSumToOne
  PROVE  Spec => []ColdStartIsNotDiluted
<1>1. Init => TrustInv
  BY DEF Init, TrustInv
<1>2. TypeOK /\ TrustInv => ColdStartIsNotDiluted
  <2> SUFFICES ASSUME TypeOK, TrustInv, adaptive = TRUE, scored # None
               PROVE  ColdStartIsNotDiluted
    BY DEF ColdStartIsNotDiluted
  <2> DEFINE score == scored.score
             T == scored.trust
             A == Active(scored.model # 0)
  <2>1. scored \in ScoredWindow
    BY DEF TypeOK
  <2>2. score \in [Signals -> Nat]
    <3>1. 0..One \subseteq Nat
      BY DEF One
    <3>2. QED
      BY <2>1, <3>1 DEF ScoredWindow
  <2>3. T = Fused(RenormalizeWeights(A), score)
    BY Zenon DEF TrustInv, ComputeTrustScore
  <2>4. /\ A \in [Signals -> BOOLEAN]
        /\ A["fsm"] = TRUE /\ A["fleet"] = TRUE
        /\ A["drift"] = (scored.model # 0)
    <3>1. (scored.model # 0) \in BOOLEAN
      OBVIOUS
    <3>2. QED
      BY <3>1, ActiveSignals, Zenon
  <2>5. CASE scored.model = 0
    <3>1. score["drift"] = 0 /\ A["drift"] = FALSE
      BY <2>4, <2>5, Zenon DEF TrustInv
    <3> DEFINE fsm == score["fsm"]
               fleet == score["fleet"]
               v == Weights["fsm"]
               w == Weights["fleet"]
    <3> HIDE DEF score, T, A
    <3>2. T = [sum |-> fsm * v + fleet * w, of |-> v + w]
      BY <2>2, <2>3, <2>4, <3>1, FusedWithoutDrift DEF WeightsSumToOne
    <3>3. /\ fsm \in Nat /\ fleet \in Nat /\ v \in Nat /\ w \in Nat
      BY <2>2, WeightsAreNat
    <3> HIDE DEF fsm, fleet, v, w
    <3>4. \/ fsm * (v + w) <= fsm * v + fleet * w
               /\ fsm * v + fleet * w <= fleet * (v + w)
          \/ fleet * (v + w) <= fsm * v + fleet * w
               /\ fsm * v + fleet * w <= fsm * (v + w)
      BY <3>3, MeanBetween
    <3>5. T.sum = fsm * v + fleet * w /\ T.of = v + w
      BY <3>2
    <3>6. \/ fsm * T.of <= T.sum /\ T.sum <= fleet * T.of
          \/ fleet * T.of <= T.sum /\ T.sum <= fsm * T.of
      BY <3>4, <3>5, Zenon
    <3>7. QED
      BY <2>5, <3>6, Zenon DEF ColdStartIsNotDiluted, score, T, fsm, fleet
  <2>6. CASE scored.model # 0
    <3>1. A["drift"] = TRUE
      BY <2>4, <2>6, Zenon
    <3> DEFINE f == Weights["fsm"] * score["fsm"]
               d == Weights["drift"] * score["drift"]
               l == Weights["fleet"] * score["fleet"]
    <3> HIDE DEF score, T, A
    <3>2. T = [sum |-> f + d + l, of |-> One]
      BY <2>2, <2>3, <2>4, <3>1, FusedWithDrift DEF WeightsSumToOne
    <3>3. f \in Nat /\ d \in Nat /\ l \in Nat
      BY <2>2, WeightsAreNat, ProductType
    <3> HIDE DEF f, d, l
    <3>4. T.sum * One = T.of * (f + l + d)
      BY <3>2, <3>3 DEF One
    <3>5. QED
      BY <2>6, <3>4, Zenon DEF ColdStartIsNotDiluted, score, T, f, d, l
  <2>7. QED
    BY <2>5, <2>6
<1>3. QED
  BY <1>1, <1>2, TrustStep, TypeCorrect, PTL DEF Spec
=============================================================================
