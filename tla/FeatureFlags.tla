---------------------------- MODULE FeatureFlags ----------------------------
(***************************************************************************)
(* Feature flags: modules/reporting-localization/feature_flags.go, with    *)
(* fractional rollouts, and packages/flags/flags.go, with static ones.     *)
(*                                                                         *)
(* A subject is what ComputeCohortBucket hashes it to together with the    *)
(* flag, a number below 100, or Blank when the caller names none.  The     *)
(* reason of an answer is left out.                                        *)
(***************************************************************************)
EXTENDS Naturals, FiniteSets

CONSTANTS
    FlagID,
    Tenant,
    Role,
    Percentage,   \* the percentages asked for, out of range ones too
    Moment,       \* the days on which a flag is evaluated, 0 among them
    Blank,        \* no subject, no bound of a window
    None          \* no flag

VARIABLES
    flags,        \* FeatureFlagRegistry.flags
    defs          \* Registry.defs of packages/flags

vars == <<flags, defs>>

Bucket == 0 .. 99
Rollout == [enabled : BOOLEAN, percentage : 0 .. 100, from : Moment \cup {Blank},
            to : Moment \cup {Blank}, tenants : SUBSET Tenant, roles : SUBSET Role]
Definition == [defaultEnabled : BOOLEAN, tenants : SUBSET Tenant, roles : SUBSET Role]

FlagAssumption == Blank \notin Nat /\ Percentage \subseteq Nat /\ Moment \subseteq Nat

TypeOK ==
    /\ flags \in [FlagID -> Rollout \cup {None}]
    /\ defs \in [FlagID -> Definition \cup {None}]

Init ==
    /\ flags = [id \in FlagID |-> None]
    /\ defs = [id \in FlagID |-> None]

-----------------------------------------------------------------------------
\* Deliberate faults, used only to show that the properties can fail.
Reached_Inclusive(subject, percentage) ==
    percentage > 0 /\ (percentage < 100 => subject # Blank /\ subject <= percentage)
-----------------------------------------------------------------------------

\* RegisterFlag with DefaultOff declared; the window is not compared.
RegisterFlag(id, f) ==
    /\ flags[id] = None
    /\ f.percentage \in 0 .. 100
    /\ flags' = [flags EXCEPT ![id] = f]
    /\ UNCHANGED defs

SetFlagState(id, enabled) ==
    /\ flags[id] # None
    /\ flags' = [flags EXCEPT ![id].enabled = enabled]
    /\ UNCHANGED defs

SetRolloutPercentage(id, p) ==
    /\ flags[id] # None
    /\ p \in 0 .. 100
    /\ flags' = [flags EXCEPT ![id].percentage = p]
    /\ UNCHANGED defs

\* The percentage checks of Evaluate: at 100 no subject is needed.
Reached(subject, percentage) ==
    percentage > 0 /\ (percentage < 100 => subject # Blank /\ subject < percentage)

\* Evaluate for a flag that is registered: is it exposed?
Exposed(f, ctx) ==
    /\ ctx.authorized
    /\ f.enabled
    /\ f.from # Blank => ctx.time >= f.from
    /\ f.to # Blank => ctx.time <= f.to
    /\ f.tenants # {} => ctx.tenant \in f.tenants
    /\ f.roles # {} => f.roles \cap ctx.roles # {}
    /\ Reached(ctx.subject, f.percentage)

\* packages/flags: Register with validate, and Evaluate in the one known stage.
Register(id, d) ==
    /\ ~d.defaultEnabled
    /\ defs[id] = None
    /\ defs' = [defs EXCEPT ![id] = d]
    /\ UNCHANGED flags

StaticallyExposed(d, ctx) ==
    /\ d.defaultEnabled
    /\ d.tenants # {} => ctx.tenant \in d.tenants
    /\ d.roles # {} => d.roles \cap ctx.roles # {}

Next ==
    \E id \in FlagID :
        \/ \E f \in [enabled : BOOLEAN, percentage : Percentage, from : {Blank} \cup Moment,
                     to : {Blank} \cup Moment, tenants : SUBSET Tenant, roles : SUBSET Role] :
              RegisterFlag(id, f)
        \/ \E enabled \in BOOLEAN : SetFlagState(id, enabled)
        \/ \E p \in Percentage : SetRolloutPercentage(id, p)
        \/ \E d \in Definition : Register(id, d)

Spec == Init /\ [][Next]_vars

-----------------------------------------------------------------------------
Context == [authorized : BOOLEAN, tenant : Tenant, roles : SUBSET Role, time : Moment,
            subject : Bucket \cup {Blank}]

\* A rollout of p percent reaches exactly p of the hundred cohorts, and raising the
\* percentage never takes a flag away from someone who sees it.
RolloutExact ==
    \A id \in FlagID : flags[id] # None =>
        LET f == flags[id] IN
            /\ Cardinality({b \in Bucket : Reached(b, f.percentage)}) = f.percentage
            /\ \A ctx \in Context, q \in Percentage \cap (f.percentage .. 100) :
                  Exposed(f, ctx) => Exposed([f EXCEPT !.percentage = q], ctx)

\* A flag of packages/flags is never on: what Register accepts Evaluate refuses.
StaticFlagsOff ==
    \A id \in FlagID, ctx \in Context :
        ~(defs[id] # None /\ StaticallyExposed(defs[id], ctx))
=============================================================================
