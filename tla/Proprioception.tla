---------------------------- MODULE Proprioception ----------------------------
(***************************************************************************)
(* The body model (cognitive/proprioception.rs): what each motor command   *)
(* was predicted to feel like, what it did feel like, the table of learnt  *)
(* motors and the corrections a surprise triggers.                         *)
(*                                                                         *)
(* Feedback is in tenths.  The learnt weight of a motor and the mean it    *)
(* follows are left out: what they make of a prediction is an input of the *)
(* next efference copy.                                                    *)
(***************************************************************************)
EXTENDS Integers, Sequences, FiniteSets

CONSTANTS Motors,           \* motor ids
          Slots,            \* BODY_MODEL_SLOTS: 64
          Feelings,         \* feedback, predicted or actual
          Surprise,         \* error above which a correction starts: 2
          Cooldown,         \* updates between two corrections: 10
          ManySamples,      \* samples at which half are forgotten: 100
          FewSamples,       \* what is left of them: 50
          MaxSamples        \* bound on one motor's samples

VARIABLES predicted,        \* predicted_feedback
          model,            \* body_model, the first body_model_count slots
          active,           \* correction_active
          cooldown,         \* correction_cooldown
          corrected         \* (history) motors corrected since the cooldown

bodyVars == <<predicted, model, active, cooldown, corrected>>

BodyInit ==
  /\ predicted = [m \in Motors |-> 0] /\ model = <<>>
  /\ active = FALSE /\ cooldown = 0 /\ corrected = 0

Dist(a, b) == IF a < b THEN b - a ELSE a - b
Known(m) == {i \in DOMAIN model : model[i].motor = m}

\* record_efference and set_predicted_feedback: an unknown motor's prediction
\* is taken as it is, a known one's after its weight.
Predict ==
  \E m \in Motors, f \in Feelings :
    /\ predicted' = [predicted EXCEPT ![m] = f]
    /\ UNCHANGED <<model, active, cooldown, corrected>>

\* The slot of the greatest last error, the first of equals.
Worst == CHOOSE i \in DOMAIN model : \A j \in DOMAIN model :
           \/ model[j].err < model[i].err
           \/ model[j].err = model[i].err /\ i <= j

\* The motor's slot: its own, a new one, or that of the worst known motor.
SlotFor(m) ==
  IF Known(m) # {} THEN CHOOSE i \in Known(m) : \A j \in Known(m) : i <= j
  ELSE IF Len(model) < Slots THEN Len(model) + 1 ELSE Worst

\* A sample added to the entry found, or to an emptied one.
Sampled(m, err) ==
  LET i == SlotFor(m)
      old == IF i \in DOMAIN model /\ model[i].motor = m THEN model[i]
             ELSE [motor |-> m, n |-> 0, err |-> 0]
      new == [motor |-> m, n |-> old.n + 1, err |-> err]
  IN IF i \in DOMAIN model THEN [model EXCEPT ![i] = new] ELSE Append(model, new)

\* record_actual_feedback, which corrects a surprise unless it just did.
Feel ==
  \E m \in Motors, f \in Feelings :
    LET err == Dist(predicted[m], f) IN
    /\ model' = Sampled(m, err)
    /\ \A i \in DOMAIN model' : model'[i].n <= MaxSamples
    /\ IF err > Surprise /\ cooldown = 0
       THEN active' = TRUE /\ cooldown' = Cooldown /\ corrected' = corrected + 1
       ELSE UNCHANGED <<active, cooldown, corrected>>
    /\ UNCHANGED predicted

\* A long history is cut: FewSamples are left of it, and half of their sum, so
\* that the mean of a motor updated late comes out above all it felt.
Forgotten(e) == IF e.n > ManySamples THEN [e EXCEPT !.n = FewSamples] ELSE e

\* update; the slow decay of last_error is left out.
BodyUpdate ==
  LET left == IF cooldown > 0 THEN cooldown - 1 ELSE 0 IN
  /\ cooldown' = left
  /\ active' = (active /\ left > 0)
  /\ corrected' = IF left = 0 THEN 0 ELSE corrected
  /\ model' = [i \in DOMAIN model |-> Forgotten(model[i])]
  /\ UNCHANGED predicted

BodyReset ==
  /\ predicted' = [m \in Motors |-> 0] /\ model' = <<>>
  /\ active' = FALSE /\ cooldown' = 0 /\ corrected' = 0

BodyNext == Predict \/ Feel \/ BodyUpdate \/ BodyReset
-----------------------------------------------------------------------------
\* No motor is learnt in two slots, through every eviction.
OneSlotPerMotor ==
  \A i, j \in DOMAIN model : model[i].motor = model[j].motor => i = j

\* A correction is under way exactly while no other may start, and one only.
OneCorrection == (active <=> cooldown > 0) /\ corrected <= 1

BodyHolds == OneSlotPerMotor /\ OneCorrection
=============================================================================
