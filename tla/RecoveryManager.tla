-------------------------- MODULE RecoveryManager --------------------------
(***************************************************************************)
(* consensus/recovery_manager.go: HandleError counts the recoveries of each *)
(* error code and opens a circuit breaker when there were too many.  The    *)
(* goroutines of ProcessBlock call it at the same time; it takes rm.mu anew *)
(* for every look at its maps, and the goroutines interleave between.        *)
(* isCircuitBreakerActive deletes from a map with only a read lock held: Go *)
(* ends the process when it notices another access at that moment.          *)
(***************************************************************************)
EXTENDS Integers, FiniteSets, FiniteSetsExt

CONSTANTS
  Callers,        \* goroutines that call HandleError
  Codes,          \* error codes
  DefaultStrategy,\* the strategy of each code after initDefaultRecoveryStrategies
  Strategies,     \* strategies in use: "none", "retry", "checkpoint", "reset", "restart", "manual"
  Limits,         \* values of maxRecoveryAttempts
  Durations,      \* values of circuitBreakerDuration
  MaxErrs,        \* bound: calls of HandleError
  MaxSettings,    \* bound: changes of the configuration
  MaxClock        \* bound on the clock

ASSUME RecoveryAssumption ==
  /\ IsFiniteSet(Callers) /\ DefaultStrategy \in [Codes -> Strategies]
  /\ Limits \subseteq Nat \ {0} /\ Limits # {} /\ IsFiniteSet(Limits)
  /\ Durations \subseteq Nat \ {0} /\ Durations # {} /\ IsFiniteSet(Durations)

VARIABLES
  recoveryAttempts,     \* by error code
  circuitBreakers,      \* by error code: when it opened, Closed if there is none
  recoveryStrategies, maxRecoveryAttempts, circuitBreakerDuration, enableAutomaticRecovery,
  hcall,                \* the calls of HandleError in progress, by goroutine
  consensusUp, stopUsed, chainHeight, \* running, stopOnce and lastBlockHeight of the consensus
  mapFatal,             \* "concurrent map writes" has ended the process
  errs, settings, clock
cfgVars == <<recoveryStrategies, maxRecoveryAttempts, circuitBreakerDuration, enableAutomaticRecovery, settings>>
consVars == <<consensusUp, stopUsed, chainHeight>>
rmVars == <<recoveryAttempts, circuitBreakers, cfgVars, hcall, consVars, mapFatal, errs, clock>>

Closed == -1
NoCode == "no code"
NoHandling == [pc |-> "idle", code |-> NoCode, strategy |-> "none", at |-> 0]

RMInit ==
  /\ recoveryAttempts = [e \in Codes |-> 0] /\ circuitBreakers = [e \in Codes |-> Closed]
  /\ recoveryStrategies = DefaultStrategy
  /\ maxRecoveryAttempts = Max(Limits) /\ circuitBreakerDuration = Max(Durations)
  /\ enableAutomaticRecovery = TRUE /\ settings = 0
  /\ hcall = [c \in Callers |-> NoHandling]
  /\ consensusUp = TRUE /\ stopUsed = FALSE /\ chainHeight = 1
  /\ mapFatal = FALSE /\ errs = 0 /\ clock = 0

-----------------------------------------------------------------------------
(* HandleError.                                                            *)

To(c, pc) == hcall' = [hcall EXCEPT ![c].pc = pc]
Done(c) == hcall' = [hcall EXCEPT ![c] = NoHandling]

\* The goroutines that hold the read lock of rm.mu to delete an expired breaker.
Deleting == {c \in Callers : hcall[c].pc = "delete"}

Report(c, e) ==
  /\ hcall[c].pc = "idle" /\ errs < MaxErrs
  /\ errs' = errs + 1
  /\ hcall' = [hcall EXCEPT ![c] = [NoHandling EXCEPT !.pc = "breaker", !.code = e]]
  /\ UNCHANGED <<recoveryAttempts, circuitBreakers, cfgVars, consVars, mapFatal, clock>>

BreakerOpen(e) == circuitBreakers[e] # Closed /\ clock - circuitBreakers[e] < circuitBreakerDuration

\* isCircuitBreakerActive up to its delete.
CheckBreaker(c) ==
  LET e == hcall[c].code
  IN /\ hcall[c].pc = "breaker"
     /\ \/ /\ hcall' = IF BreakerOpen(e) THEN [hcall EXCEPT ![c] = NoHandling]
                       ELSE [hcall EXCEPT ![c].at = clock,
                               ![c].pc = IF circuitBreakers[e] = Closed THEN "strategy" ELSE "delete"]
           /\ UNCHANGED mapFatal
        \/ Deleting # {} /\ mapFatal' = TRUE /\ UNCHANGED hcall
     /\ UNCHANGED <<recoveryAttempts, circuitBreakers, cfgVars, consVars, errs, clock>>

DeleteBreaker(c) ==
  /\ c \in Deleting
  /\ \/ /\ circuitBreakers' = [circuitBreakers EXCEPT ![hcall[c].code] = Closed]
        /\ To(c, "strategy") /\ UNCHANGED mapFatal
     \/ Deleting # {c} /\ mapFatal' = TRUE /\ UNCHANGED <<circuitBreakers, hcall>>
  /\ UNCHANGED <<recoveryAttempts, cfgVars, consVars, errs, clock>>

ChooseStrategy(c) ==
  LET s == recoveryStrategies[hcall[c].code]
  IN /\ hcall[c].pc = "strategy"
     /\ hcall' = IF s = "none" \/ ~enableAutomaticRecovery THEN [hcall EXCEPT ![c] = NoHandling]
                 ELSE [hcall EXCEPT ![c].pc = "attempts", ![c].strategy = s]
     /\ UNCHANGED <<recoveryAttempts, circuitBreakers, cfgVars, consVars, mapFatal, errs, clock>>

\* Bug: one attempt too many.
Exhausted_Late(e) == recoveryAttempts[e] > maxRecoveryAttempts
Exhausted(e) == recoveryAttempts[e] >= maxRecoveryAttempts

ReadAttempts(c) ==
  /\ hcall[c].pc = "attempts"
  /\ To(c, IF Exhausted(hcall[c].code) THEN "activate" ELSE "increment")
  /\ UNCHANGED <<recoveryAttempts, circuitBreakers, cfgVars, consVars, mapFatal, errs, clock>>

\* Bug: the breaker opens as of the time the call came in.
ActivateBreaker_Backdated(c) ==
  /\ hcall[c].pc = "activate" /\ Deleting = {}
  /\ circuitBreakers' = [circuitBreakers EXCEPT ![hcall[c].code] = hcall[c].at]
  /\ Done(c)
  /\ UNCHANGED <<recoveryAttempts, cfgVars, consVars, mapFatal, errs, clock>>

ActivateBreaker(c) ==
  /\ hcall[c].pc = "activate" /\ Deleting = {}
  /\ circuitBreakers' = [circuitBreakers EXCEPT ![hcall[c].code] = clock]
  /\ Done(c)
  /\ UNCHANGED <<recoveryAttempts, cfgVars, consVars, mapFatal, errs, clock>>

IncrementAttempts(c) ==
  /\ hcall[c].pc = "increment" /\ Deleting = {}
  /\ recoveryAttempts' = [recoveryAttempts EXCEPT ![hcall[c].code] = @ + 1]
  /\ To(c, IF hcall[c].strategy \in {"reset", "restart"} THEN "isRunning" ELSE "apply")
  /\ UNCHANGED <<circuitBreakers, cfgVars, consVars, mapFatal, errs, clock>>

\* Waiting, recoverFromError (module HybridConsensus) or a log entry: the call ends,
\* and the attempt stays counted whether it helped or not.
ApplyStrategy(c) ==
  /\ hcall[c].pc = "apply"
  /\ Done(c)
  /\ UNCHANGED <<recoveryAttempts, circuitBreakers, cfgVars, consVars, mapFatal, errs, clock>>

-----------------------------------------------------------------------------
(* applyResetStrategy and applyRestartStrategy: Stop, Start of the consensus. *)

\* Stop is refused when the consensus is not running.
StopCheck(c) ==
  /\ hcall[c].pc = "isRunning"
  /\ IF consensusUp THEN To(c, "stop") ELSE Done(c)
  /\ UNCHANGED <<recoveryAttempts, circuitBreakers, cfgVars, consVars, mapFatal, errs, clock>>

Stopped(c) == To(c, IF hcall[c].strategy = "reset" THEN "zero" ELSE "start")

\* stopOnce: the first caller stops, the others wait for it and do nothing.
StopOnce(c) ==
  /\ hcall[c].pc = "stop"
  /\ \/ /\ ~stopUsed
        /\ stopUsed' = TRUE /\ consensusUp' = FALSE /\ To(c, "stopping")
     \/ /\ stopUsed /\ \A d \in Callers : hcall[d].pc # "stopping"
        /\ Stopped(c) /\ UNCHANGED <<stopUsed, consensusUp>>
  /\ UNCHANGED <<recoveryAttempts, circuitBreakers, cfgVars, chainHeight, mapFatal, errs, clock>>

\* Stop waits for the goroutines and may give up.
StopReturned(c) ==
  /\ hcall[c].pc = "stopping"
  /\ Stopped(c) \/ Done(c)
  /\ UNCHANGED <<recoveryAttempts, circuitBreakers, cfgVars, consVars, mapFatal, errs, clock>>

ZeroHeights(c) ==
  /\ hcall[c].pc = "zero"
  /\ chainHeight' = 0 /\ To(c, "start")
  /\ UNCHANGED <<recoveryAttempts, circuitBreakers, cfgVars, consensusUp, stopUsed, mapFatal, errs, clock>>

\* Start is refused when the consensus is running.
Restart(c) ==
  /\ hcall[c].pc = "start"
  /\ consensusUp' = TRUE /\ Done(c)
  /\ UNCHANGED <<recoveryAttempts, circuitBreakers, cfgVars, stopUsed, chainHeight, mapFatal, errs, clock>>

-----------------------------------------------------------------------------
(* What an operator may do meanwhile; every one takes rm.mu.                 *)

ResetRecoveryAttempts ==
  /\ settings < MaxSettings /\ settings' = settings + 1 /\ Deleting = {}
  /\ recoveryAttempts' = [e \in Codes |-> 0]
  /\ UNCHANGED <<circuitBreakers, recoveryStrategies, maxRecoveryAttempts, circuitBreakerDuration,
                 enableAutomaticRecovery, hcall, consVars, mapFatal, errs, clock>>

ResetCircuitBreakers ==
  /\ settings < MaxSettings /\ settings' = settings + 1 /\ Deleting = {}
  /\ circuitBreakers' = [e \in Codes |-> Closed]
  /\ UNCHANGED <<recoveryAttempts, recoveryStrategies, maxRecoveryAttempts, circuitBreakerDuration,
                 enableAutomaticRecovery, hcall, consVars, mapFatal, errs, clock>>

Configure ==
  /\ settings < MaxSettings /\ settings' = settings + 1 /\ Deleting = {}
  /\ \/ /\ \E e \in Codes, s \in Strategies : recoveryStrategies' = [recoveryStrategies EXCEPT ![e] = s]
        /\ UNCHANGED <<maxRecoveryAttempts, circuitBreakerDuration, enableAutomaticRecovery>>
     \/ /\ maxRecoveryAttempts' \in Limits
        /\ UNCHANGED <<recoveryStrategies, circuitBreakerDuration, enableAutomaticRecovery>>
     \/ /\ circuitBreakerDuration' \in Durations
        /\ UNCHANGED <<recoveryStrategies, maxRecoveryAttempts, enableAutomaticRecovery>>
     \/ /\ enableAutomaticRecovery' \in BOOLEAN
        /\ UNCHANGED <<recoveryStrategies, maxRecoveryAttempts, circuitBreakerDuration>>
  /\ UNCHANGED <<recoveryAttempts, circuitBreakers, hcall, consVars, mapFatal, errs, clock>>

RMTick ==
  /\ clock < MaxClock /\ clock' = clock + 1
  /\ UNCHANGED <<recoveryAttempts, circuitBreakers, cfgVars, hcall, consVars, mapFatal, errs>>

CallStep(c) ==
  \/ CheckBreaker(c) \/ DeleteBreaker(c) \/ ChooseStrategy(c) \/ ReadAttempts(c) \/ ActivateBreaker(c)
  \/ IncrementAttempts(c) \/ ApplyStrategy(c) \/ StopCheck(c) \/ StopOnce(c) \/ StopReturned(c)
  \/ ZeroHeights(c) \/ Restart(c)

RMNext ==
  /\ ~mapFatal
  /\ \/ \E c \in Callers : CallStep(c) \/ \E e \in Codes : Report(c, e)
     \/ ResetRecoveryAttempts \/ ResetCircuitBreakers \/ Configure \/ RMTick

RMSpec == RMInit /\ [][RMNext]_rmVars

-----------------------------------------------------------------------------
\* The goroutines that have been allowed an attempt for a code and not counted it.
Allowed(e) == {c \in Callers : hcall[c].pc = "increment" /\ hcall[c].code = e}

\* The attempts are read and counted under different locks, so a code may get more
\* of them than maxRecoveryAttempts, but never more than one for each other
\* goroutine that was there at the same time.
AttemptsBounded ==
  \A e \in Codes :
    recoveryAttempts[e] + Cardinality(Allowed(e)) <= Max(Limits) - 1 + Cardinality(Callers)

\* While a breaker is open nobody recovers from its error, except who had looked at
\* the breaker before it opened; also while expired breakers are deleted, breakers
\* opened again and the duration changed.
OpenBreakerAdmitsNobody ==
  \A c \in Callers :
    hcall[c].pc \in {"increment", "apply"} /\ BreakerOpen(hcall[c].code)
      => hcall[c].at <= circuitBreakers[hcall[c].code]
=============================================================================
