---------------------------- MODULE OperatorCaps ----------------------------
(***************************************************************************)
(* The life of the OperatorCap<T> objects of one AgentTreasury<T>, as in   *)
(* move/sources/agent_treasury.move: the holder of the OwnerCap issues     *)
(* them, edits their allowlist and revokes them; the treasury keeps the    *)
(* set of active ones.  Both kinds of cap are transferable bearer objects, *)
(* so an action stands for a call by whoever holds the cap it names.  The  *)
(* type parameter T ties a cap to its own treasury, which makes the        *)
(* agent_treasury_id assertions hold of every call that type-checks.       *)
(***************************************************************************)
EXTENDS Integers, FiniteSets

CONSTANTS
    CapIds,          \* identities operator caps get
    TargetSets,      \* allowlists an owner hands out
    LimitChoices,    \* daily limits an owner hands out
    TtlChoices,      \* times to live an owner asks for; 0 is no expiry
    MaxTtl, MaxTargets,
    DayLength,       \* clock units per UTC day (86_400_000 in the code)
    MaxTime          \* the last instant of a behaviour (a bound)

ASSUME CapsAssumption ==
    /\ \A s \in TargetSets : IsFiniteSet(s)
    /\ LimitChoices \subseteq Nat
    /\ TtlChoices \subseteq Nat
    /\ MaxTtl \in Nat /\ MaxTargets \in Nat
    /\ DayLength \in Nat \ {0}
    /\ MaxTime \in Nat

VARIABLES
    now,       \* the shared Sui Clock
    caps,      \* fields of every OperatorCap
    issued,    \* the caps that exist
    active     \* active_operator_cap_ids of the treasury

capVars == <<now, caps, issued, active>>

Cap == [limitSui : Nat, spentSui : Nat, limitToken : Nat, spentToken : Nat,
        epochDay : Nat, targets : TargetSets, expiresAt : Nat]

Today == now \div DayLength

NewCap(limitSui, limitToken, targets, ttl) ==
    [limitSui |-> limitSui, spentSui |-> 0, limitToken |-> limitToken,
     spentToken |-> 0, epochDay |-> Today, targets |-> targets,
     expiresAt |-> IF ttl = 0 THEN 0 ELSE now + ttl]

CapsInit ==
    /\ now = 0
    /\ caps \in [CapIds -> {NewCap(0, 0, t, 0) : t \in {CHOOSE s \in TargetSets : TRUE}}]
    /\ issued = {}
    /\ active = {}

\* issue_operator_cap; launch issues the first cap through the same assertions.
IssueOperatorCap(c, limitSui, limitToken, targets, ttl) ==
    /\ c \notin issued
    /\ ttl <= MaxTtl
    /\ Cardinality(targets) <= MaxTargets
    /\ caps' = [caps EXCEPT ![c] = NewCap(limitSui, limitToken, targets, ttl)]
    /\ issued' = issued \cup {c}
    /\ active' = active \cup {c}
    /\ UNCHANGED now

\* Mutant: an edit makes the cap anew, its counters included.
UpdateTargetsAnew(c, targets) ==
    /\ c \in active
    /\ Cardinality(targets) <= MaxTargets
    /\ caps' = [caps EXCEPT ![c] = NewCap(caps[c].limitSui, caps[c].limitToken, targets, 0)]
    /\ UNCHANGED <<now, issued, active>>

UpdateOperatorCapTargets(c, targets) ==
    /\ c \in issued
    /\ c \in active
    /\ Cardinality(targets) <= MaxTargets
    /\ caps' = [caps EXCEPT ![c].targets = targets]
    /\ UNCHANGED <<now, issued, active>>

RevokeOperatorCap(c) ==
    /\ c \in active
    /\ active' = active \ {c}
    /\ UNCHANGED <<now, caps, issued>>

\* Validators advance the clock; several transactions may see one timestamp.
Tick ==
    /\ now < MaxTime
    /\ now' = now + 1
    /\ UNCHANGED <<caps, issued, active>>

OwnerStep ==
    \E c \in CapIds, t \in TargetSets :
        \/ \E ls, lt \in LimitChoices, ttl \in TtlChoices : IssueOperatorCap(c, ls, lt, t, ttl)
        \/ UpdateOperatorCapTargets(c, t)
        \/ RevokeOperatorCap(c)

CapsNext == OwnerStep \/ Tick

-----------------------------------------------------------------------------
NotExpired(c) == caps[c].expiresAt # 0 => now < caps[c].expiresAt

\* A cap that can no longer spend.
Dead(c) == c \in issued /\ (c \notin active \/ ~NotExpired(c))

CapsTypeOK ==
    /\ now \in 0 .. MaxTime
    /\ caps \in [CapIds -> Cap]
    /\ issued \subseteq CapIds
    /\ active \subseteq issued
=============================================================================
