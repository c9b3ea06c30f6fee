--------------------------- MODULE ScanResolution ---------------------------
(***************************************************************************)
(* Scanned labels and what they resolve to:                                *)
(* modules/identity-authorization/scan_resolution.go.                      *)
(*                                                                         *)
(* A label is kept as the parts its text has: scheme, tenant, object, and  *)
(* the exp parameter, Blank when it is no number.  Resolve looks the       *)
(* object up under the read lock and appends its record under the write    *)
(* lock later; in between the object may be registered anew in another     *)
(* state.  The token of a label and the active project of a caller are     *)
(* read nowhere in the code.                                               *)
(***************************************************************************)
EXTENDS Naturals, Sequences

CONSTANTS
    Tenant,
    ObjectID,     \* identifiers whose prefix fits their type
    OtherID,      \* identifiers whose prefix does not
    Site,
    Label,        \* [scheme, tenant, id, exp]: the labels scanned
    Context,      \* [authenticated, tenant, role, site, action]: the callers
    Scanner,      \* scans that may be under way at once
    Blank,        \* an empty field
    None,         \* no object, no exp parameter, no scan under way
    Moment,       \* the days on which something happens, 0 among them
    MaxRecords    \* bound on the scans made

VARIABLES
    objects,      \* [Tenant \X ObjectID -> object or None]
    auditRecords,
    scans,        \* [Scanner -> the scan under way or Idle]
    now

vars == <<objects, auditRecords, scans, now>>

\* Two of the permissions of registerRoles and three roles that differ in them.
Granted == [r \in {"INSPECTOR", "VIEWER", "AUDITOR"} |->
               CASE r = "INSPECTOR" -> {"inspection:read", "inspection:create"}
                 [] OTHER -> {"inspection:read"}]
Role == DOMAIN Granted
Permission == UNION {Granted[r] : r \in Role}

Object == [site : Site \cup {Blank}, state : {"ACTIVE", "ARCHIVED"},
           permission : Permission \cup {Blank}]
\* InternalDiagnostic, without the names it quotes: one for each return of Resolve.
Diagnostic == {"RESOLVED", "UNAUTHENTICATED", "SYNTAX", "EXPIRED", "CROSS_TENANT", "MISSING",
               "INACTIVE", "SCOPE", "PERMISSION"}
ScanRecord == [tenant : Tenant, id : ObjectID \cup OtherID, diagnostic : Diagnostic]
Idle == [diagnostic |-> None]

ScanAssumption ==
    /\ 0 \in Moment
    /\ ObjectID \cap OtherID = {}
    /\ Label \subseteq [scheme : {"uri", "compact", "https", "other"},
                       tenant : Tenant \cup {Blank}, id : ObjectID \cup OtherID,
                       exp : Moment \cup {None, Blank}]
    /\ Context \subseteq [authenticated : BOOLEAN, tenant : Tenant, role : Role,
                         site : Site \cup {Blank}, action : Permission \cup {Blank}]

TypeOK ==
    /\ objects \in [Tenant \X ObjectID -> Object \cup {None}]
    /\ auditRecords \in Seq(ScanRecord)
    /\ scans \in [Scanner -> ScanRecord \cup {Idle}]
    /\ now \in Moment

Init ==
    /\ objects = [k \in Tenant \X ObjectID |-> None]
    /\ auditRecords = <<>>
    /\ scans = [s \in Scanner |-> Idle]
    /\ now = 0

-----------------------------------------------------------------------------
\* Deliberate faults, used only to show that the properties can fail.
Told_Inactive(diagnostic) ==
    CASE diagnostic = "RESOLVED" -> "ALLOWED"
      [] diagnostic = "INACTIVE" -> "EXPIRED"
      [] OTHER -> "UNAUTHORIZED"
-----------------------------------------------------------------------------

\* ParseScan.  The compact form carries no expiry, and one that is not a number
\* counts as none.
ParseScan(label) ==
    IF label.scheme = "other" \/ label.tenant = Blank \/ label.id \in OtherID THEN None
    ELSE [tenant |-> label.tenant, id |-> label.id,
          expires |-> IF label.scheme = "compact" \/ label.exp = Blank THEN None
                      ELSE label.exp]

\* Steps 6 to 8 of Resolve, on the object found.
Checked(ctx, object) ==
    LET required == IF ctx.action # Blank THEN ctx.action ELSE object.permission IN
    CASE object.state # "ACTIVE" -> "INACTIVE"
      [] Blank \notin {ctx.site, object.site} /\ ctx.site # object.site -> "SCOPE"
      [] required # Blank /\ required \notin Granted[ctx.role] -> "PERMISSION"
      [] OTHER -> "RESOLVED"

\* Resolve up to its record, for a registry with the given objects: the return it takes,
\* named by the diagnostic of its record.
Resolve(ctx, label, registry) ==
    LET payload == ParseScan(label) IN
    IF ~ctx.authenticated THEN "UNAUTHENTICATED"
    ELSE IF payload = None THEN "SYNTAX"
    ELSE IF payload.expires # None /\ now > payload.expires THEN "EXPIRED"
    ELSE IF payload.tenant # ctx.tenant THEN "CROSS_TENANT"
    ELSE IF registry[<<ctx.tenant, payload.id>>] = None THEN "MISSING"
    ELSE Checked(ctx, registry[<<ctx.tenant, payload.id>>])

\* DenialCode and ErrorMessage of the result.  The result holds the record too, and so
\* the diagnostic.
Told(diagnostic) ==
    CASE diagnostic = "RESOLVED" -> "ALLOWED"
      [] diagnostic = "UNAUTHENTICATED" -> "UNAUTHENTICATED"
      [] diagnostic = "SYNTAX" -> "INVALID_INPUT"
      [] diagnostic = "EXPIRED" -> "EXPIRED"
      [] OTHER -> "UNAUTHORIZED"

\* Registering an ID again replaces the object: it is how an object is archived.
RegisterObject(t, id, object) ==
    /\ objects' = [objects EXCEPT ![<<t, id>>] = object]
    /\ UNCHANGED <<auditRecords, scans, now>>

Look(s, ctx, label) ==
    /\ scans[s] = Idle
    /\ Len(auditRecords) < MaxRecords
    /\ scans' = [scans EXCEPT ![s] = [diagnostic |-> Resolve(ctx, label, objects),
                                      tenant |-> ctx.tenant, id |-> label.id]]
    /\ UNCHANGED <<objects, auditRecords, now>>

recordAudit(s) ==
    /\ scans[s] # Idle
    /\ auditRecords' = Append(auditRecords, scans[s])
    /\ scans' = [scans EXCEPT ![s] = Idle]
    /\ UNCHANGED <<objects, now>>

Tick == now' \in {t \in Moment : t > now} /\ UNCHANGED <<objects, auditRecords, scans>>

Next ==
    \/ \E t \in Tenant, id \in ObjectID, o \in Object : RegisterObject(t, id, o)
    \/ \E s \in Scanner, ctx \in Context, label \in Label : Look(s, ctx, label)
    \/ \E s \in Scanner : recordAudit(s)
    \/ Tick

Spec == Init /\ [][Next]_vars

-----------------------------------------------------------------------------
\* The registry without objects, and with those of one tenant only.
Empty == [k \in Tenant \X ObjectID |-> None]
Own(tenant) == [k \in Tenant \X ObjectID |-> IF k[1] = tenant THEN objects[k] ELSE None]

\* Code and message of a refusal tell nothing about what exists: whoever is refused is
\* told what a registry without any object would have told.  What other tenants hold
\* changes nothing of a result, the diagnostic of its record included.
RefusalsTellNothing ==
    \A ctx \in Context, label \in Label :
        LET diagnostic == Resolve(ctx, label, objects) IN
            /\ diagnostic # "RESOLVED" => Told(diagnostic) = Told(Resolve(ctx, label, Empty))
            /\ diagnostic = Resolve(ctx, label, Own(ctx.tenant))

\* "unauthorized scan attempts return a non-differentiating, non-enumerating denial
\* response": the whole result, with the record it holds.
ResultTellsNothing ==
    \A ctx \in Context, label \in Label :
        LET diagnostic == Resolve(ctx, label, objects) IN
            diagnostic # "RESOLVED" => diagnostic = Resolve(ctx, label, Empty)
=============================================================================
