----------------------------- MODULE ContractBase -----------------------------
(***************************************************************************)
(* What the contracts share: their users, the block time, and the pause    *)
(* switch that each inherits from CreditProtocolBase.sol.  A call is one   *)
(* transaction and so one action; a require, a checked subtraction or a    *)
(* failing transfer that would revert it disables it.                      *)
(***************************************************************************)
EXTENDS Integers

CONSTANTS
    Users,
    DaysPerTick,   \* the clock counts ticks of this many days
    MaxTime        \* bound on the clock

Contracts == {"manager", "oracle", "aggregator"}

VARIABLES
    paused,   \* per contract
    now       \* block.timestamp

baseVars == <<paused, now>>

ASSUME BaseAssumption == DaysPerTick \in Nat \ {0} /\ MaxTime \in Nat

SetPaused(contract, p) ==
    /\ paused[contract] # p
    /\ paused' = [paused EXCEPT ![contract] = p]
    /\ UNCHANGED now

Tick == now < MaxTime /\ now' = now + 1 /\ UNCHANGED paused

BaseInit == paused = [k \in Contracts |-> FALSE] /\ now = 1

BaseTypeOK == paused \in [Contracts -> BOOLEAN] /\ now \in Nat \ {0}
=============================================================================
