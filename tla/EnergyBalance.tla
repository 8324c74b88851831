----------------------------- MODULE EnergyBalance -----------------------------
(***************************************************************************)
(* The energy balance of every transformer of a feeder:                    *)
(* compute_nontechnical_loss (module_b) with the digital twin it calls.    *)
(* It reads the association twice, once for the energy accounted and once  *)
(* for the twin, and connections may be corrected at any moment.           *)
(*                                                                         *)
(* The power flow is that of a star of service drops: its loss is a sum    *)
(* over the connections, and grows with each load.                         *)
(***************************************************************************)
EXTENDS FeederTruth, FiniteSets, FiniteSetsExt

CONSTANTS Industrial,   \* connections of a METERED_ARCHETYPE
          Estimates,    \* bound: what module A may make of a prepaid connection
          MaxMoves,     \* bound: corrections
          Rating, NoLoadLoss, LoadLoss,   \* nameplate of the transformers
          DropScale     \* load squared per unit of loss on a service drop

ASSUME BalanceAssumption ==
  /\ Industrial \subseteq Connection
  /\ IsFiniteSet(Connection) /\ IsFiniteSet(Transformer)
  /\ Estimates \subseteq Nat /\ MaxMoves \in Nat
  /\ {Rating, DropScale} \subseteq Nat \ {0} /\ {NoLoadLoss, LoadLoss} \subseteq Nat

VARIABLES belief,     \* current association: [at, placed]
          estimate,   \* reconstructed kW, or Unestimated
          moves,      \* history: corrections of a connection
          frame,      \* the computation under way: of, measured, rows
          answered    \* results by transformer

balanceVars == <<belief, estimate, moves, frame, answered>>
allVars == <<feederVars, balanceVars>>

Unestimated == -1      \* ValueError: the connection is left out
Idle == [of |-> {}, measured |-> 0, rows |-> <<>>]

(***************************************************************************)
(* The engine shared by ground truth and twin.                             *)
(***************************************************************************)

\* transformer_loss_kw: the loading is capped at twice the rating.
TransformerLoss(load) ==
  NoLoadLoss + (LoadLoss * Least(load, 2 * Rating) * Least(load, 2 * Rating)) \div (Rating * Rating)

\* solve_network_loss_kw: the losses of the service drops.
NetworkLoss(load) == SumFunction([c \in DOMAIN load |-> (load[c] * load[c]) \div DropScale])

\* solve_loss_series for the loads of connections; no connections, no rows.
Loss(load) ==
  IF DOMAIN load = {} THEN 0 ELSE TransformerLoss(SumFunction(load)) + NetworkLoss(load)

(***************************************************************************)
(* compute_nontechnical_loss.                                              *)
(***************************************************************************)

\* Mutant: the association says who is fed.
TrulyFedAsBelieved(t) == {c \in Connection : belief[c].at = t}

\* By the naming convention of the connection ids.
TrulyFed(t) == {c \in Connection : FedBy[c] = t}

\* Mutant: the loss of the transformer itself is forgotten.
MeasuredWithoutLoss(t) == SumFunction([c \in TrulyFed(t) |-> kw[c]])

\* compute_technical_losses: the truth, from the topology and the draw.
TechnicalLoss(t) == Loss([c \in {c \in Connection : FedBy[c] = t} |-> kw[c]])

\* _measured_inflow_kw
MeasuredInflow(t) == SumFunction([c \in TrulyFed(t) |-> kw[c]]) + TechnicalLoss(t)

\* What a connection is accounted with: its meter, or module A.
Accountable(c) == c \in Industrial \/ estimate[c] # Unestimated
Accounted(c) == IF c \in Industrial THEN metered[c] ELSE estimate[c]

Resolved(t) == {c \in Connection : belief[c].at = t}

\* What _accounted_consumption makes of the records as they are.
AccountedRows(t) == [c \in {c \in Resolved(t) : Accountable(c)} |-> Accounted(c)]

\* The initial records: a wrong one has no electrical placement.
EnergyInit ==
  /\ FeederInit
  /\ \E at \in [Connection -> Transformer] :
       belief = [c \in Connection |-> [at |-> at[c], placed |-> at[c] = FedBy[c]]]
  /\ estimate \in [Connection \ Industrial -> Estimates \cup {Unestimated}]
  /\ moves = [c \in Connection |-> 0]
  /\ frame = Idle /\ answered = <<>>

Generate == FeederNext /\ UNCHANGED balanceVars

\* set_association, with or without a placement.
Correct(c, t, placed) ==
  /\ generating = "stored"
  /\ SumFunction(moves) < MaxMoves
  /\ belief[c].at # t
  /\ belief' = [belief EXCEPT ![c] = [at |-> t, placed |-> placed]]
  /\ moves' = [moves EXCEPT ![c] = @ + 1]
  /\ UNCHANGED <<feederVars, estimate, frame, answered>>

\* _measured_inflow_kw and _accounted_consumption.
ResolveAccounted(t) ==
  /\ generating = "stored" /\ frame = Idle /\ t \notin DOMAIN answered
  /\ frame' = [of       |-> {t},
               measured |-> MeasuredInflow(t),
               rows     |-> AccountedRows(t)]
  /\ UNCHANGED <<feederVars, belief, estimate, moves, answered>>

\* compute_modelled_loss resolves again, and places what it can.  Without one
\* row of a connection it can place, the frame it returns has no usable index
\* and compute_nontechnical_loss raises.
Placed(t) == {c \in Resolved(t) : belief[c].placed}

\* The load of the twin: nothing of a connection without a row.
TwinLoad(t, rows) ==
  [c \in Placed(t) |-> IF c \in DOMAIN rows /\ rows[c] > 0 THEN rows[c] ELSE 0]

ResolveTwin(t) ==
  /\ frame.of = {t}
  /\ LET rows == frame.rows
         result == [failed    |-> Placed(t) \cap DOMAIN rows = {},
                    measured  |-> frame.measured,
                    accounted |-> SumFunction(rows),
                    modelled  |-> Loss(TwinLoad(t, rows))]
     IN  answered' = [u \in DOMAIN answered \cup {t} |-> IF u = t THEN result ELSE answered[u]]
  /\ frame' = Idle
  /\ UNCHANGED <<feederVars, belief, estimate, moves>>

EnergyNext ==
  \/ Generate
  \/ \E c \in Connection, t \in Transformer, placed \in BOOLEAN : Correct(c, t, placed)
  \/ \E t \in Transformer : ResolveAccounted(t) \/ ResolveTwin(t)

EnergySpec == EnergyInit /\ [][EnergyNext]_allVars

(***************************************************************************)
(* Properties.                                                             *)
(***************************************************************************)
Residual(t) == answered[t].measured - answered[t].accounted - answered[t].modelled

\* What is drawn and not accounted for, whoever reads the records.
Hidden(c) == kw[c] - (IF Accountable(c) THEN Accounted(c) ELSE 0)

\* Wrong records move energy from one balance to another and create none:
\* over all transformers, what is measured beyond the loss there was and what
\* is accounted differ by what no connection accounts for, up to the energy of
\* connections corrected while the balances were taken.
EnergyAccountedOnce ==
  /\ DOMAIN answered = Transformer
  /\ \A t \in Transformer : ~answered[t].failed
  =>
  LET difference ==
        SumFunction([t \in Transformer |->
                       answered[t].measured - answered[t].accounted - TechnicalLoss(t)])
          - SumFunction([c \in Connection |-> Hidden(c)])
      moved == SumFunction([c \in {c \in Connection : moves[c] > 0 /\ Accountable(c)} |->
                              moves[c] * Accounted(c)])
  IN  -moved <= difference /\ difference <= moved

\* A transformer whose connections are all recorded at it, placed, and no
\* others, and were throughout.
RightlyRecorded(t) ==
  \A c \in Connection :
    /\ moves[c] = 0
    /\ (belief[c].at = t) <=> FedBy[c] = t

\* The residual "tracks injected anomalies": with the right records, and no
\* connection accounted with more than it drew, it is at least what is hidden,
\* and nothing but rounding is left when nothing is.  Losses never hide theft.
ResidualTracksHidden ==
  \A t \in DOMAIN answered :
    /\ ~answered[t].failed /\ RightlyRecorded(t)
    /\ \A c \in TrulyFed(t) : Hidden(c) >= 0
    =>
    /\ Residual(t) >= SumFunction([c \in TrulyFed(t) |-> Hidden(c)])
    /\ (\A c \in TrulyFed(t) : Hidden(c) = 0) => Residual(t) = 0
=============================================================================
