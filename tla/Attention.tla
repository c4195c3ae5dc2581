------------------------------- MODULE Attention -------------------------------
(***************************************************************************)
(* Saliency and the attention it steers (cognitive/attention.rs): which    *)
(* layer and which neuron the router focuses on, and which neurons its     *)
(* gain and its suppression then reach.  The dwelling of the focus is in   *)
(* Workspace.tla, the winner-take-all inhibition inside a layer left out.  *)
(*                                                                         *)
(* Membrane potentials are small numbers that the rest of the network sets *)
(* between two updates; saliencies are percents.                           *)
(***************************************************************************)
EXTENDS Integers, FiniteSets, FiniteSetsExt

CONSTANTS LayerIn,          \* neuron -> its layer, both numbered from 0
          TopLayer,         \* the last layer: 7
          Levels,           \* potentials a neuron may have
          Common,           \* what error, novelty and goal add to every layer
          Biases,           \* top-down biases an action or a frame sets
          SalPeriod,        \* updates between two saliency maps: 5
          Shift,            \* updates between two shifts of focus: 50 .. 400
          Half,             \* spread / 2: 16
          BottomUp, TopDown \* the two weights: 50 and 50

VARIABLES updates,          \* update_counter, modulo SalPeriod * Shift
          bias,             \* layer -> top_down_bias
          peak,             \* layer -> peak_neuron
          loud,             \* layers whose peak_value is not zero
          salient,          \* most_salient_layer
          focus             \* the focus, and whether its layer was loud

attVars == <<updates, bias, peak, loud, salient, focus>>

Cell == DOMAIN LayerIn
Layer == 0 .. TopLayer
Members(l) == {n \in Cell : LayerIn[n] = l}

NoFocus == [type |-> "None", layer |-> 0, neuron |-> 0, heard |-> FALSE]
AttInit ==
  /\ updates = 0 /\ bias = [l \in Layer |-> 0] /\ peak = [l \in Layer |-> 0]
  /\ loud = {} /\ salient = 0 /\ focus = NoFocus

\* set_top_down_bias: one layer is biased, the others are cleared.
Biased(l, b) == [k \in Layer |-> IF k = l THEN b ELSE 0]

Total(pot, cells) == MapThenSumSet(LAMBDA n : pot[n], cells)

\* The strongest neuron of a layer, the first of equals; 0 in a silent one.
Peak(pot, l) ==
  LET up == {n \in Members(l) : pot[n] > 0}
      best == {n \in up : \A m \in up : pot[m] <= pot[n]}
  IN IF up = {} THEN 0 ELSE Min(best)

\* A layer's share of all activity, plus what is common, plus its bias.
Combined(pot, common, l) ==
  LET all == Total(pot, Cell) IN
  bias[l] + IF all = 0 THEN 0 ELSE (50 * Total(pot, Members(l))) \div all + common

\* The first layer of the greatest saliency; nothing salient keeps the old one.
Salient(pot, common) ==
  LET c(l) == Combined(pot, common, l)
      best == {l \in Layer : c(l) > 0 /\ \A k \in Layer : c(k) <= c(l)}
  IN IF best = {} THEN salient ELSE Min(best)

\* recompute_bottom_up
Recompute ==
  \E pot \in [Cell -> Levels], common \in Common :
    /\ peak' = [l \in Layer |-> Peak(pot, l)]
    /\ loud' = {l \in Layer : \E n \in Members(l) : pot[n] > 0}
    /\ salient' = Salient(pot, common)

\* Mutated form of FocusLayer: a tie of the two weights goes to the goal.
FocusLayerTied(goal) == IF goal # {} /\ TopDown >= BottomUp
                        THEN CHOOSE l \in goal : TRUE ELSE salient'
\* The layer a shift goes to; goal holds the selected action's layer, if any.
FocusLayer(goal) == IF goal # {} /\ TopDown > BottomUp
                    THEN CHOOSE l \in goal : TRUE ELSE salient'

\* set_focus as update calls it, always with the salient layer's peak.
Focused(l) == [type |-> "BottomUpSalient", layer |-> l, neuron |-> peak'[salient'],
               heard |-> salient' \in loud']

\* AttentionRouter::update.  map_action_to_layer names any layer but the last.
Attend ==
  \E goal \in {{}} \cup {{l} : l \in 0 .. TopLayer - 1} :
    LET n == (updates + 1) % (SalPeriod * Shift) IN
    /\ updates' = n
    /\ IF n % SalPeriod = 0 THEN Recompute ELSE UNCHANGED <<peak, loud, salient>>
    /\ IF goal = {} THEN UNCHANGED bias
       ELSE \E b \in Biases : bias' = Biased(CHOOSE l \in goal : TRUE, b)
    /\ focus' = CASE n % Shift = 0 /\ focus.type # "None" -> Focused(FocusLayer(goal))
                  [] focus.type = "None" -> Focused(salient')
                  [] OTHER -> focus

\* process_global_workspace: a frame biases its layer, and focuses there on the
\* neuron whose number is the content id, which is the time of the frame.
Broadcast ==
  \E l \in Layer, b \in Biases, n \in Cell :
    /\ bias' = Biased(l, b)
    /\ focus' = [type |-> "GoalDriven", layer |-> l, neuron |-> n, heard |-> FALSE]
    /\ UNCHANGED <<updates, peak, loud, salient>>

\* shift_to_exploratory: a layer and a neuron drawn apart.
Explore ==
  /\ \E l \in Layer, n \in Cell :
       focus' = [type |-> "Exploratory", layer |-> l, neuron |-> n, heard |-> FALSE]
  /\ UNCHANGED <<updates, bias, peak, loud, salient>>

AttNext == Attend \/ Broadcast \/ Explore

Near(n, m) == n - Half <= m /\ m <= n + Half

\* is_attended: what apply amplifies; it suppresses all the others.
Attended == IF focus.type = "None" THEN Cell
            ELSE {n \in Members(focus.layer) : Near(focus.neuron, n)}
-----------------------------------------------------------------------------
\* A focus that saliency chose on a layer with any activity attends the neuron
\* it was chosen for.  Nothing of the kind holds for the other focuses: a
\* frame's neuron is its time stamp and an exploratory one is drawn without its
\* layer, so that they may attend nobody and apply then suppresses every neuron.
FocusIsInhabited ==
  focus.type = "BottomUpSalient" /\ focus.heard => focus.neuron \in Attended
=============================================================================
