------------------------------- MODULE Models -------------------------------
(***************************************************************************)
(* Drift models from training to scoring: the trainers (train.py), run by  *)
(* cron or by hand, the files they share with the worker, the registry     *)
(* that reloads a cohort's model when a new one is announced (drift.py),   *)
(* and the part of a window's scoring that depends on it (__main__.py).    *)
(*                                                                         *)
(* A fitted model is the number of feature windows it was fitted to: fit   *)
(* is deterministic.  A file is rewritten in place, so it can be found     *)
(* torn, and two trainers that write it at once may leave a mixture.  A    *)
(* trainer can die between any two steps.                                  *)
(***************************************************************************)
EXTENDS Fusion, FiniteSets

CONSTANTS
  Clients, Users,   (* client identifiers and usernames                     *)
  Default,          (* the cohort "default"                                 *)
  None,             (* no username, file, announcement, or scored window    *)
  Torn, Mixed,      (* files that hold no model                             *)
  Trainers,
  PerClientModes,   (* of --per-client                                      *)
  AdaptiveModes,    (* of adaptive_fusion                                   *)
  Scores,           (* signal scores explored                               *)
  MinTrainingSamples,
  MaxRows,          (* bound on the rows kept apart, per client             *)
  MaxTrainings,     (* bound on the trainings started                       *)
  MaxRestarts       (* bound on the restarts of the worker                  *)

Cohorts == Clients \cup Users \cup {Default}

ASSUME ModelsAssumption ==
  /\ IsFiniteSet(Cohorts)
  /\ None \notin Cohorts \cup Nat
  /\ {Torn, Mixed} \cap Nat = {}
  /\ None \notin {Torn, Mixed}
  /\ PerClientModes \subseteq BOOLEAN
  /\ AdaptiveModes \subseteq BOOLEAN
  /\ Scores \subseteq 0..One
  /\ MinTrainingSamples \in Nat \ {0}
  /\ MaxRows \in Nat
  /\ MaxTrainings \in Nat
  /\ MaxRestarts \in Nat

VARIABLES
  adaptive,       (* config.adaptive_fusion                                 *)
  rows,           (* Postgres: feature windows of each client               *)
  db_user,        (* Postgres: Client.username                              *)
  versions,       (* Postgres: n_samples of the ModelVersion rows           *)
  file,           (* models volume: content of each cohort's file           *)
  meta,           (* Redis: tmq:models:meta                                 *)
  trainer,        (* what each trainer is doing                             *)
  username,       (* worker: ScoringContext._client_username                *)
  models,         (* worker: DriftModelRegistry._models, 0 for none         *)
  trained_at,     (* worker: DriftModelRegistry._trained_at                 *)
  lookup,         (* worker: the window being scored, and the meta it read  *)
  scored,         (* history: the window the last step scored               *)
  clock,          (* last time.time() of a trainer                          *)
  trainings, restarts   (* history: how many there were                     *)

database == <<rows, db_user, versions>>
worker   == <<username, models, trained_at, lookup>>
bounds   == <<trainings, restarts>>
vars == <<adaptive, database, file, meta, trainer, worker, scored, clock,
          bounds>>

Version   == Nat \ {0}
Announced == [trained_at : Nat, n : Version]
Content   == Version \cup {None, Torn, Mixed}
Steps     == {"choose", "save", "commit", "publish"}
Trainer   == [step : Steps, data : [Cohorts -> Nat], todo : SUBSET Cohorts,
              cohort : Cohorts, trained_at : Nat, alone : BOOLEAN]
ScoredWindow ==
  [cohort : Cohorts, announced : BOOLEAN, file : Content, model : Nat,
   score : [Signals -> 0..One], trust : [sum : Nat, of : Nat]]

TypeOK ==
  /\ adaptive \in BOOLEAN
  /\ rows \in [Clients -> Nat]
  /\ db_user \in [Clients -> Users \cup {None}]
  /\ versions \in [Cohorts -> SUBSET Version]
  /\ file \in [Cohorts -> Content]
  /\ meta \in [Cohorts -> Announced \cup {None}]
  /\ trainer \in [Trainers -> Trainer \cup {None}]
  /\ username \in [Clients -> Users \cup {None}]
  /\ models \in [Cohorts -> Nat]
  /\ trained_at \in [Cohorts -> Nat]
  /\ lookup \in [client : Clients, meta : Announced \cup {None}] \cup {None}
  /\ scored \in ScoredWindow \cup {None}
  /\ clock \in Nat
  /\ trainings \in Nat
  /\ restarts \in Nat

Init ==
  /\ adaptive \in AdaptiveModes
  /\ rows = [c \in Clients |-> 0]
  /\ db_user = [c \in Clients |-> None]
  /\ versions = [k \in Cohorts |-> {}]
  /\ file = [k \in Cohorts |-> None]
  /\ meta = [k \in Cohorts |-> None]
  /\ trainer = [t \in Trainers |-> None]
  /\ username = [c \in Clients |-> None]
  /\ models = [k \in Cohorts |-> 0]
  /\ trained_at = [k \in Cohorts |-> 0]
  /\ lookup = None
  /\ scored = None
  /\ clock = 0
  /\ trainings = 0
  /\ restarts = 0

-----------------------------------------------------------------------------
(* train_all, from the query to the last announcement.                      *)
CohortForClient(c, per_client) ==
  IF per_client THEN c
  ELSE IF db_user[c] # None THEN db_user[c] ELSE Default

(* The feature windows of a cohort, as collect_training_data reads them.    *)
Vectors(k, per_client) ==
  {v \in Clients \X (1..MaxRows) :
     v[2] <= rows[v[1]] /\ CohortForClient(v[1], per_client) = k}

Collect(t, per_client) ==
  LET data == [k \in Cohorts |-> Cardinality(Vectors(k, per_client))] IN
  /\ trainer[t] = None
  /\ trainings < MaxTrainings
  /\ trainings' = trainings + 1
  /\ trainer' = [trainer EXCEPT ![t] =
       [step |-> "choose", data |-> data,
        todo |-> {k \in Cohorts : data[k] >= MinTrainingSamples},
        cohort |-> Default, trained_at |-> 0, alone |-> TRUE]]
  /\ scored' = None
  /\ UNCHANGED <<adaptive, database, file, meta, worker, clock,
                 restarts>>

Saving(k) == {t \in Trainers : /\ trainer[t] # None
                               /\ trainer[t].step = "save"
                               /\ trainer[t].cohort = k}

(* The next cohort is fitted, and save opens the file: it is empty now.     *)
OpenFile(t, k) ==
  /\ trainer[t] # None
  /\ trainer[t].step = "choose"
  /\ k \in trainer[t].todo
  /\ trainer' = [s \in Trainers |->
       IF s = t
       THEN [trainer[t] EXCEPT !.step = "save", !.cohort = k,
                               !.todo = @ \ {k}, !.alone = Saving(k) = {}]
       ELSE IF s \in Saving(k) THEN [trainer[s] EXCEPT !.alone = FALSE]
       ELSE trainer[s]]
  /\ file' = [file EXCEPT ![k] = Torn]
  /\ scored' = None
  /\ UNCHANGED <<adaptive, database, meta, worker, clock, bounds>>

(* A variant that announces before it commits.                              *)
NextStepSwapped(step) ==
  CASE step = "save" -> "publish" [] step = "publish" -> "commit"
    [] step = "commit" -> "choose"

NextStep(step) ==
  CASE step = "save" -> "commit" [] step = "commit" -> "publish"
    [] step = "publish" -> "choose"

(* What the file holds when a trainer closes it: what it wrote, or anything *)
(* if another trainer wrote the same file meanwhile.                        *)
Written(t) ==
  {trainer[t].data[trainer[t].cohort]}
    \cup (IF trainer[t].alone THEN {} ELSE {Torn, Mixed})

CloseFile(t, content) ==
  /\ trainer[t] # None
  /\ trainer[t].step = "save"
  /\ file' = [file EXCEPT ![trainer[t].cohort] = content]
  /\ clock' = clock + 1
  /\ trainer' = [trainer EXCEPT ![t].step = NextStep(@),
                               ![t].trained_at = clock']
  /\ scored' = None
  /\ UNCHANGED <<adaptive, database, meta, worker, bounds>>

CommitVersion(t) ==
  LET k == trainer[t].cohort IN
  /\ trainer[t] # None
  /\ trainer[t].step = "commit"
  /\ versions' = [versions EXCEPT ![k] = @ \cup {trainer[t].data[k]}]
  /\ trainer' = [trainer EXCEPT ![t].step = NextStep(@)]
  /\ scored' = None
  /\ UNCHANGED <<adaptive, rows, db_user, file, meta, worker, clock,
                 bounds>>

Publish(t) ==
  LET k == trainer[t].cohort IN
  /\ trainer[t] # None
  /\ trainer[t].step = "publish"
  /\ meta' = [meta EXCEPT ![k] = [trained_at |-> trainer[t].trained_at,
                                  n |-> trainer[t].data[k]]]
  /\ trainer' = [trainer EXCEPT ![t].step = NextStep(@)]
  /\ scored' = None
  /\ UNCHANGED <<adaptive, database, file, worker, clock, bounds>>

(* The trainer ends: all cohorts done, or an exception anywhere before.     *)
TrainerEnds(t) ==
  /\ trainer[t] # None
  /\ trainer' = [trainer EXCEPT ![t] = None]
  /\ scored' = None
  /\ UNCHANGED <<adaptive, database, file, meta, worker, clock,
                 bounds>>

-----------------------------------------------------------------------------
(* The worker.                                                              *)
CohortFor(c) == IF username[c] = None THEN Default ELSE username[c]

(* on_event remembers the username of a CONNECT.                            *)
Connect(c, u) ==
  /\ lookup = None
  /\ username[c] # u
  /\ username' = [username EXCEPT ![c] = u]
  /\ scored' = None
  /\ UNCHANGED <<adaptive, database, file, meta, trainer, models, trained_at,
                 lookup, clock, bounds>>

(* A window of the client closes: the registry asks Redis for the meta.     *)
CloseWindow(c) ==
  /\ lookup = None
  /\ lookup' = [client |-> c, meta |-> meta[CohortFor(c)]]
  /\ scored' = None
  /\ UNCHANGED <<adaptive, database, file, meta, trainer, username, models,
                 trained_at, clock, bounds>>

(* The announced model is not the one the registry holds.                   *)
Outdated(k) ==
  lookup.meta # None /\ trained_at[k] # lookup.meta.trained_at

(* Variants: the time is noted before the load is known to have worked; a   *)
(* load that fails leaves an unfitted model.                                *)
ReloadedEarly(k) ==
  [models     |-> IF Outdated(k) /\ file[k] \in Version
                  THEN [models EXCEPT ![k] = file[k]] ELSE models,
   trained_at |-> IF Outdated(k)
                  THEN [trained_at EXCEPT ![k] = lookup.meta.trained_at]
                  ELSE trained_at]
ReloadedEmpty(k) ==
  IF ~Outdated(k) THEN [models |-> models, trained_at |-> trained_at]
  ELSE IF file[k] \in Version
  THEN [models     |-> [models EXCEPT ![k] = file[k]],
        trained_at |-> [trained_at EXCEPT ![k] = lookup.meta.trained_at]]
  ELSE [models |-> [models EXCEPT ![k] = 0], trained_at |-> trained_at]
ReloadedNever(k) == [models |-> models, trained_at |-> trained_at]

(* The registry after `get'.  A missing or torn file is an exception that   *)
(* is caught: the model in memory stays, and the next window tries again.   *)
Reloaded(k) ==
  IF Outdated(k) /\ file[k] \in Version
  THEN [models     |-> [models EXCEPT ![k] = file[k]],
        trained_at |-> [trained_at EXCEPT ![k] = lookup.meta.trained_at]]
  ELSE [models |-> models, trained_at |-> trained_at]

(* The rest of _handle_closed_window: load, score, fuse, commit the row.    *)
ScoreWindow(score) ==
  LET c == lookup.client
      k == CohortFor(c)
      model == Reloaded(k).models[k]
  IN
  /\ lookup # None
  /\ score \in [Signals -> Scores \cup {0}]
  /\ model = 0 => score["drift"] = 0
  /\ models' = Reloaded(k).models
  /\ trained_at' = Reloaded(k).trained_at
  /\ rows' = [rows EXCEPT ![c] = IF @ < MaxRows THEN @ + 1 ELSE @]
  /\ db_user' = [db_user EXCEPT ![c] = IF @ = None THEN username[c] ELSE @]
  /\ scored' = [cohort |-> k, announced |-> lookup.meta # None,
                file |-> file[k], model |-> model, score |-> score,
                trust |-> ComputeTrustScore(score, adaptive, model # 0)]
  /\ lookup' = None
  /\ UNCHANGED <<adaptive, versions, file, meta, trainer, username, clock,
                 bounds>>

(* The process ends and starts again.  A mixed file can make pickle raise   *)
(* what `get' does not catch; other exceptions end the process at any time. *)
Forget ==
  /\ username' = [c \in Clients |-> None]
  /\ models' = [k \in Cohorts |-> 0]
  /\ trained_at' = [k \in Cohorts |-> 0]
  /\ lookup' = None
  /\ scored' = None
  /\ UNCHANGED <<adaptive, database, file, meta, trainer, clock,
                 trainings>>

ScoreRaises ==
  /\ lookup # None
  /\ Outdated(CohortFor(lookup.client))
  /\ file[CohortFor(lookup.client)] = Mixed
  /\ Forget
  /\ UNCHANGED restarts

Restart ==
  /\ restarts < MaxRestarts
  /\ restarts' = restarts + 1
  /\ Forget

Next ==
  \/ \E t \in Trainers, per_client \in PerClientModes : Collect(t, per_client)
  \/ \E t \in Trainers :
       \/ \E k \in Cohorts : OpenFile(t, k)
       \/ trainer[t] # None /\ \E content \in Written(t) : CloseFile(t, content)
       \/ CommitVersion(t)
       \/ Publish(t)
       \/ TrainerEnds(t)
  \/ \E c \in Clients, u \in Users : Connect(c, u)
  \/ \E c \in Clients : CloseWindow(c)
  \/ \E score \in [Signals -> Scores \cup {0}] : ScoreWindow(score)
  \/ ScoreRaises
  \/ Restart

(* Windows of a client keep closing: it sends events, at least the reports  *)
(* of its silences, and the sweep closes what is left open.                 *)
Fairness ==
  /\ \A c \in Clients : SF_vars(CloseWindow(c))
  /\ WF_vars(\E score \in [Signals -> Scores \cup {0}] : ScoreWindow(score))

Spec == Init /\ [][Next]_vars
FairSpec == Spec /\ Fairness

-----------------------------------------------------------------------------
(* A window of a cohort with an announced model is scored without one only  *)
(* while the file is torn: save is not atomic, so a trainer at work or one  *)
(* that died can blind a restarted worker, but nothing else can.            *)
ColdOnlyWhileTorn ==
  scored # None /\ scored.announced /\ scored.model = 0 =>
    scored.file \in {Torn, Mixed}

(* What is announced to workers is on record: the row of model_versions is  *)
(* committed before tmq:models:meta changes, wherever a trainer dies.       *)
AnnouncedIsRecorded ==
  \A k \in Cohorts : meta[k] # None => meta[k].n \in versions[k]

(* With adaptive_fusion a detector that has nothing to say neither accuses  *)
(* nor exonerates: a window of a cold cohort is trusted no more and no less *)
(* than its two other scores, and one of a fitted cohort is fused as ever.  *)
ColdStartIsNotDiluted ==
  adaptive /\ scored # None =>
    LET fsm == scored.score["fsm"]
        fleet == scored.score["fleet"]
        T == scored.trust
    IN IF scored.model = 0
       THEN \/ fsm * T.of <= T.sum /\ T.sum <= fleet * T.of
            \/ fleet * T.of <= T.sum /\ T.sum <= fsm * T.of
       ELSE T.sum * One =
              T.of * (Weights["fsm"] * fsm + Weights["fleet"] * fleet
                        + Weights["drift"] * scored.score["drift"])

(* A cohort never loses its model while the process lives, whatever becomes *)
(* of the file, the meta or the trainer.                                    *)
NeverUnlearned ==
  [][\A k \in Cohorts :
       models[k] # 0 =>
         models'[k] # 0 \/ username' = [c \in Clients |-> None]]_vars

Behind(k) ==
  /\ meta[k] # None
  /\ file[k] \in Version
  /\ trained_at[k] # meta[k].trained_at

(* SPEC.md 5.3: a worker reloads a model that was announced, without a      *)
(* restart, if windows of the cohort keep closing and the file is whole.    *)
HotReload ==
  \A c \in Clients, k \in Cohorts :
    CohortFor(c) = k /\ Behind(k) ~> ~(CohortFor(c) = k /\ Behind(k))

-----------------------------------------------------------------------------
(* What the documentation says and the code does not do.                    *)

(* SPEC.md 5.3: drift is 0 until a cohort model exists; the cohort is the   *)
(* username.  (For whole files, of clients whose username is on record.)    *)
ColdOnlyWithoutModel ==
  [][ lookup # None /\ lookup' = None /\ scored' # scored
        /\ db_user[lookup.client] # None
        /\ meta[db_user[lookup.client]] # None
        /\ file[db_user[lookup.client]] \in Version
      => scored'.model # 0 ]_vars
=============================================================================
