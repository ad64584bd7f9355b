---------------------------- MODULE ValidatorSet ----------------------------
(***************************************************************************)
(* What the ValidatorManager and the DPoS engine have in common: validators  *)
(* with stakes, and the choice of the active ones by stake * performance.    *)
(* Performance is a number in [0.1, 1] that weighs in that choice only.      *)
(***************************************************************************)
EXTENDS Integers, FiniteSets, Sequences, FiniteSetsExt

CONSTANTS
  V,              \* validators
  Stakes,         \* stakes and amounts callers give
  SetSizes,       \* sizes of the active set callers give, the initial one included
  MaxStake        \* bound on the stake of a validator

ASSUME StakeAssumption == Stakes \subseteq Nat /\ MaxStake \in Nat
ASSUME SizeAssumption == SetSizes \subseteq Nat \ {0} /\ SetSizes # {} /\ IsFiniteSet(V)

Sum(f, S) == SumFunctionOnSet(f, S)

\* The n highest of S by stake * performance, for some performances in [0.1, 1].
Tops(S, f, n) ==
  {T \in SUBSET S : /\ Cardinality(T) = Min({Cardinality(S), n})
                    /\ \A v \in T, w \in S \ T : 10 * f[v] >= f[w]}
=============================================================================
