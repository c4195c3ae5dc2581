------------------------------- MODULE Training -------------------------------
(***************************************************************************)
(* TrainingRun (training/run.rs): epochs over a token stream through       *)
(* TextDataLoader and BatchSampler, evaluation on held-out data, and the   *)
(* checkpoint of the best model in one of three files that are overwritten *)
(* in place (training/checkpoint.rs).  The process may die at any time;    *)
(* a new one starts a new run and loads no checkpoint.                     *)
(*                                                                         *)
(* A sample is its place in the stream.  The loss of an evaluation is a    *)
(* choice, a lower number being better; it identifies the model it was     *)
(* computed of, so a file holds the loss of the model in it.               *)
(***************************************************************************)
EXTENDS Naturals, FiniteSets, FiniteSetsExt

CONSTANTS Tokens,           \* tokens of the training stream
          SeqLen,           \* tokens of a sample
          PoolSize,         \* samples a sampler shuffles together: 32
          BatchSize,
          Loss,             \* losses an evaluation may come to
          Levels,           \* steps from a learning scale of 1 to its floor
          MaxEpoch          \* bound: epochs of a process

VARIABLES pc,               \* idle, train, evaluate, save
          epoch, best,      \* epoch, best_loss ({} or one loss)
          cursor,           \* TextDataLoader.cursor
          pool,             \* BatchSampler.pool
          scale,            \* learning_scale, in steps below 1
          eval,             \* the loss that is being saved
          file,             \* the three files: what load_checkpoint accepts
          passes,           \* (history) samples this epoch trained on
          held              \* (history) the best model saved, and its epoch

vars == <<pc, epoch, best, cursor, pool, scale, eval, file, passes, held>>

FileSlot == 0 .. 2                          \* SNAPSHOT_SLOTS

\* The samples of the stream: where each one starts.
Sample == {i \in 0 .. Tokens : i % SeqLen = 0 /\ i + SeqLen + 1 <= Tokens}

Init ==
  /\ pc = "idle" /\ epoch = 0 /\ best = {} /\ cursor = 0 /\ pool = {}
  /\ scale = 0 /\ eval = {} /\ passes = [s \in Sample |-> 0] /\ held = {}
  /\ file = [s \in FileSlot |-> {}]

\* run_epoch up to its loop: the source is reset, the sampler is new.
BeginEpoch ==
  /\ pc = "idle" /\ epoch < MaxEpoch /\ pc' = "train"
  /\ epoch' = epoch + 1 /\ cursor' = 0 /\ pool' = {}
  /\ passes' = [s \in Sample |-> 0]
  /\ UNCHANGED <<best, scale, eval, file, held>>

\* refill_pool: the next samples of the source, at most PoolSize.
Refill ==
  {s \in Sample : cursor <= s /\ s < cursor + PoolSize * SeqLen}

\* next_batch refills and shuffles an empty pool only.
Drawn(p) == IF p = {} THEN Refill ELSE p

\* MetacognitiveAutoTuner: curiosity and boredom are constants here, so the
\* scale only goes down, when the loss varies, to its floor.
Tuned(noisy) == IF noisy /\ scale < Levels THEN scale + 1 ELSE scale

\* One batch: train_step_report_scaled on each sample, then the tuner.
Batch ==
  /\ pc = "train" /\ Drawn(pool) # {}
  /\ \E b \in SUBSET Drawn(pool), noisy \in BOOLEAN :
       /\ Cardinality(b) = Min({BatchSize, Cardinality(Drawn(pool))})
       /\ pool' = Drawn(pool) \ b
       /\ passes' = [s \in Sample |-> IF s \in b THEN passes[s] + 1
                                                ELSE passes[s]]
       /\ scale' = Tuned(noisy)
  /\ cursor' = IF pool = {} THEN cursor + Cardinality(Refill) * SeqLen
                            ELSE cursor
  /\ UNCHANGED <<pc, epoch, best, eval, file, held>>

EndPass ==
  /\ pc = "train" /\ Drawn(pool) = {} /\ pc' = "evaluate"
  /\ UNCHANGED <<epoch, best, cursor, pool, scale, eval, file, passes, held>>

Improved(l) == \A b \in best : l < b
\* Mutated form of Saved: every epoch with a loss is saved.
SavedAlways(l) == TRUE
\* Is a model with this loss saved.
Saved(l) == Improved(l)

\* evaluate on at most BatchSize held-out samples; no sample, no loss.
Evaluate ==
  /\ pc = "evaluate"
  /\ \/ \E l \in Loss :
          /\ best' = IF Improved(l) THEN {l} ELSE best
          /\ IF Saved(l) THEN pc' = "save" /\ eval' = {l}
                         ELSE pc' = "idle" /\ UNCHANGED eval
     \/ pc' = "idle" /\ UNCHANGED <<best, eval>>
  /\ UNCHANGED <<epoch, cursor, pool, scale, file, passes, held>>

Slot == epoch % 3

\* save_checkpoint opens and truncates the file, then writes it; an error is
\* dropped, before the file is touched or after.
SaveFails ==
  /\ pc = "save" /\ pc' = "idle" /\ eval' = {}
  /\ \E left \in {file[Slot], {}} : file' = [file EXCEPT ![Slot] = left]
  /\ UNCHANGED <<epoch, best, cursor, pool, scale, passes, held>>

Save ==
  /\ pc = "save" /\ pc' = "idle" /\ eval' = {}
  /\ file' = [file EXCEPT ![Slot] = eval]
  /\ held' = IF eval = best THEN [loss : eval, at : {epoch}] ELSE held
  /\ UNCHANGED <<epoch, best, cursor, pool, scale, passes>>

\* The process ends; what it was writing may be cut short.
Crash ==
  /\ epoch > 0
  /\ file' \in IF pc = "save"
               THEN {file, [file EXCEPT ![Slot] = {}]} ELSE {file}
  /\ pc' = "idle" /\ epoch' = 0 /\ best' = {} /\ cursor' = 0 /\ pool' = {}
  /\ scale' = 0 /\ eval' = {} /\ passes' = [s \in Sample |-> 0]
  /\ held' = {}

Next ==
  \/ BeginEpoch \/ Batch \/ EndPass \/ Evaluate
  \/ Save \/ SaveFails \/ Crash
Spec == Init /\ [][Next]_vars
-----------------------------------------------------------------------------
TypeOK ==
  /\ pc \in {"idle", "train", "evaluate", "save"}
  /\ epoch \in 0 .. MaxEpoch /\ best \subseteq Loss /\ eval \subseteq Loss
  /\ cursor \in 0 .. Tokens /\ pool \subseteq Sample /\ scale \in 0 .. Levels
  /\ file \in [FileSlot -> SUBSET Loss]
  /\ passes \in [Sample -> Nat]
  /\ held \subseteq [loss : Loss, at : 1 .. MaxEpoch]

\* An epoch trains on every sample of the stream exactly once, in whatever
\* batches, the last pool's short ones included.
PassIsExact ==
  /\ \A s \in Sample : passes[s] <= 1
  /\ pc \in {"evaluate", "save"} => \A s \in Sample : passes[s] = 1

\* The best model this process has saved stays in its file for the next two
\* epochs, whatever their saves come to; from the third on a save that fails
\* may cut that file short, but it never holds a worse model instead.
BestIsKept ==
  \A h \in held : \/ file[h.at % 3] = {h.loss}
                  \/ file[h.at % 3] = {} /\ h.at + 3 <= epoch

\* What run.rs says of itself, that it persists the best checkpoint: once
\* saved, the best model can be loaded until a better one has been saved.
BestIsPersisted == \A h \in held : file[h.at % 3] = {h.loss}
=============================================================================
