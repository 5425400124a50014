----------------------------- MODULE GrpcLimiter -----------------------------
(***************************************************************************)
(* The interceptor that bounds the volume calls the CSI server handles at  *)
(* the same time.  Every call is a goroutine; the package variable counter *)
(* is atomic, but counting a call in and comparing are two operations.     *)
(***************************************************************************)
EXTENDS Integers, FiniteSets

CONSTANTS
    Call,               \* the goroutines that may serve a call
    MaxGRPCRequests

\* a hypothesis of the theorems of CSIDriver_proofs
GrpcLimiterAssumption ==
    /\ IsFiniteSet(Call)
    /\ MaxGRPCRequests \in Nat

VARIABLES
    counter,
    phase       \* where each call is

limiterVars == <<counter, phase>>

Phase == {"none", "counted", "handling", "leaving"}

LimiterTypeOK ==
    /\ counter \in Int
    /\ phase \in [Call -> Phase]

LimiterInit ==
    /\ counter = 0
    /\ phase = [c \in Call |-> "none"]

\* counter.Add(1)
CountIn(c) ==
    /\ phase[c] = "none"
    /\ counter' = counter + 1
    /\ phase' = [phase EXCEPT ![c] = "counted"]

\* counter.Load() <= maxGRPCRequests: call the handler
Admit(c) ==
    /\ phase[c] = "counted"
    /\ counter <= MaxGRPCRequests
    /\ phase' = [phase EXCEPT ![c] = "handling"]
    /\ UNCHANGED counter

\* counter.Load() > maxGRPCRequests: ResourceExhausted
Reject(c) ==
    /\ phase[c] = "counted"
    /\ counter > MaxGRPCRequests
    /\ phase' = [phase EXCEPT ![c] = "leaving"]
    /\ UNCHANGED counter

HandlerReturns(c) ==
    /\ phase[c] = "handling"
    /\ phase' = [phase EXCEPT ![c] = "leaving"]
    /\ UNCHANGED counter

\* the deferred counter.Add(-1)
CountOut(c) ==
    /\ phase[c] = "leaving"
    /\ counter' = counter - 1
    /\ phase' = [phase EXCEPT ![c] = "none"]

LimiterNext == \E c \in Call : CountIn(c) \/ Admit(c) \/ Reject(c) \/ HandlerReturns(c) \/ CountOut(c)

LimiterSpec == LimiterInit /\ [][LimiterNext]_limiterVars

InFlight == {c \in Call : phase[c] # "none"}
Handling == {c \in Call : phase[c] = "handling"}

(***************************************************************************)
(* The counter is the number of calls between their Add(1) and their       *)
(* Add(-1): no interleaving and no rejection makes it drift.               *)
(***************************************************************************)
CounterCounts == counter = Cardinality(InFlight)

(***************************************************************************)
(* However the two operations of different calls interleave, no more than  *)
(* the limit are handled at the same time.                                 *)
(***************************************************************************)
HandlingBounded == Cardinality(Handling) <= MaxGRPCRequests

(***************************************************************************)
(* A call is turned away only when the limit is taken up by other calls in *)
(* flight (some of which may be on their way to a rejection too).          *)
(***************************************************************************)
RejectedOnlyAtLimit ==
    [][\A c \in Call : phase[c] = "counted" /\ phase'[c] = "leaving" =>
          Cardinality(InFlight \ {c}) >= MaxGRPCRequests]_limiterVars

LimiterInv == LimiterTypeOK /\ CounterCounts /\ HandlingBounded
=============================================================================
