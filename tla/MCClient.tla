------------------------------ MODULE MCClient -------------------------------
(***************************************************************************)
(* What a client may do and what it is asked first, for TLC: the policy    *)
(* (PolicyRules) and a batch of input (InputBatch).  They share no state,  *)
(* so a behaviour moves one of them (part) and leaves the other as it      *)
(* starts: a run explores the union of their behaviours, not the product.  *)
(***************************************************************************)
EXTENDS PolicyRules, Cases

CONSTANTS
  Used,                                                   \* of Deployments
  Actions, Touches, Chords, MaxActions                    \* InputBatch

VARIABLES
  part,
  batch, age, phase, asked, next, waited, late, begun

B == INSTANCE InputBatch
       WITH Ages <- {0}, Lags <- {0, 1, 4000}, sent <- begun
T == INSTANCE InputBatch
       WITH Actions <- Touches, Chords <- {}, Ages <- {0, 24999, 30000, 30001},
            Lags <- {0, 4000}, sent <- begun

ASSUME ClientAssumption ==
  /\ ShapesAssumption /\ B!MaxActionsAssumption
  /\ B!ActionsAssumption /\ T!ActionsAssumption

batchVars == <<batch, age, phase, asked, next, waited, late, begun>>
clientVars == <<part, vars, batchVars>>

\* A few deployments are used; all are changed and narrowed, unused.
ClientInit ==
  /\ part \in {"policy", "narrow", "batch", "touch"}
  /\ Init
  /\ part = "policy" => deployed \in Used
  /\ part \in {"batch", "touch"} => deployed = CHOOSE c \in Used : Compiles(c)
  /\ IF part = "touch" THEN T!Init ELSE B!Init

ClientNext ==
  \/ part = "policy" /\ Next /\ UNCHANGED <<part, batchVars>>
  \/ /\ part = "narrow" /\ (Activate \/ \E x \in Patches : Update(x))
     /\ UNCHANGED <<part, batchVars>>
  \/ part = "batch" /\ B!Next /\ UNCHANGED <<part, vars>>
  \/ part = "touch" /\ T!Next /\ UNCHANGED <<part, vars>>

ClientSpec == ClientInit /\ [][ClientNext]_clientVars

--------------------------------------------------------------------------
(* The properties of the parts *)

\* PolicyRules: what is done, and what a handle is worth, is within the policy in
\* force, however it was changed.
WithinPolicy ==
  part = "policy" => TypeOK /\ HandlesWithinPolicy /\ CallsWithinPolicy

\* PolicyRules: process constraints only narrow a policy, and settings grant
\* nothing but input.
OnlyNarrowed == part = "narrow" => NarrowingOnlyNarrows /\ OnlyInputGranted

\* InputBatch: a batch ends within its estimate unless the link is slow.
BatchInTime == part = "batch" => B!OnlyALinkIsLate

\* InputBatch: nothing that commits is sent unasked, whatever its keys are called;
\* a batch that ends has sent something, at the pixels that were seen.
BatchesSafe ==
  /\ part = "batch" => B!TypeOK /\ B!AskedBefore /\ B!AliasesAskAlike
  /\ part = "touch" => T!TypeOK /\ T!RunsCross /\ T!PixelsKeepTheirPlace
==============================================================================
