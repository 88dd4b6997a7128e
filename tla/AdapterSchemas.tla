--------------------------- MODULE AdapterSchemas ---------------------------
(***************************************************************************)
(* What the provider adapters accept as parameters.  The three validators  *)
(* (adapters/openapi.py, github.py, payments.py) differ in how they are    *)
(* written and in one rule, and share the promise of adapters/__init__.py: *)
(* nothing undeclared is silently dropped.  Here each adapter is a table   *)
(* of field declarations and one operator judges parameters against it.    *)
(*                                                                         *)
(* A value is known by what a validator can tell of it: its JSON type,     *)
(* whether it is a safe path segment (or a well-formed name or code), and  *)
(* its size if it is a number.                                             *)
(***************************************************************************)
EXTENDS Integers

CONSTANT None

JsonTypes == {"string", "integer", "number", "boolean", "object", "array"}

Value(type, safe, n) == [type |-> type, safe |-> safe, n |-> n]

(* A declared field; bounds and enum are None when not declared, and a     *)
(* bound is None when that side is open.                                   *)
Field(type, required, bounds) ==
    [type |-> type, required |-> required, nullable |-> FALSE, path |-> FALSE,
     enum |-> None, bounds |-> bounds]

AtLeast(n) == [least |-> n, most |-> None]

Within(n, bounds) ==
    /\ bounds.least # None => n >= bounds.least
    /\ bounds.most # None => n <= bounds.most

Segment(f) == [f EXCEPT !.path = TRUE]

(* isinstance counts a bool as an int; the OpenAPI and GitHub validators   *)
(* except it by hand, the payments validator does not.                     *)
TypeFits(type, v, boolIsInt) ==
    \/ v.type = type
    \/ type = "number" /\ v.type = "integer"
    \/ boolIsInt /\ type \in {"integer", "number"} /\ v.type = "boolean"

Admits(f, v, boolIsInt) ==
    IF v.type = "null" THEN f.nullable
    ELSE /\ TypeFits(f.type, v, boolIsInt)
         /\ f.enum # None => v \in f.enum
         /\ v.type \in {"integer", "number"} /\ f.bounds # None => Within(v.n, f.bounds)
         /\ f.path => v.type = "string" /\ v.safe

AdmitsUndeclared(fields, params, boolIsInt) ==   \* variant: unknown fields pass
    /\ \A name \in DOMAIN fields : fields[name].required => name \in DOMAIN params
    /\ \A name \in DOMAIN params \cap DOMAIN fields :
          Admits(fields[name], params[name], boolIsInt)

Validates(fields, params, boolIsInt) ==
    /\ DOMAIN params \subseteq DOMAIN fields
    /\ \A name \in DOMAIN fields : fields[name].required => name \in DOMAIN params
    /\ \A name \in DOMAIN params : Admits(fields[name], params[name], boolIsInt)

-----------------------------------------------------------------------------
(* Compiling one operation of an OpenAPI document.  An operation has       *)
(* pathVars, the variables of its path template; parameters and body, from *)
(* names to schemas; and the names its body requires.  A schema that uses  *)
(* a keyword the compiler does not understand is refused, never widened.   *)
Schema(type, nullable, required) ==
    [type |-> type, nullable |-> nullable, required |-> required, enum |-> None,
     bounds |-> None, opaque |-> FALSE]

Parseable(s) == s.type \in JsonTypes /\ ~s.opaque

Compiles(op) ==
    /\ \A name \in DOMAIN op.parameters : Parseable(op.parameters[name])
    /\ \A name \in DOMAIN op.body : Parseable(op.body[name])

Declared(op, name, key, default) ==
    IF name \in DOMAIN op.body /\ op.body[name][key] # None THEN op.body[name][key]
    ELSE IF name \in DOMAIN op.parameters /\ op.parameters[name][key] # None
    THEN op.parameters[name][key]
    ELSE default

(* The body's declaration of a name overrides a parameter's, nullability   *)
(* adds up, and a path variable is required and judged as a segment.       *)
Compile(op) ==
    [name \in op.pathVars \cup DOMAIN op.parameters \cup DOMAIN op.body |->
        [type |-> Declared(op, name, "type", "string"),
         enum |-> Declared(op, name, "enum", None),
         bounds |-> Declared(op, name, "bounds", None),
         nullable |-> \E table \in {op.parameters, op.body} :
                        name \in DOMAIN table /\ table[name].nullable,
         required |-> \/ name \in op.pathVars
                      \/ \E table \in {op.parameters, op.body} :
                            name \in DOMAIN table /\ table[name].required,
         path |-> name \in op.pathVars]]

-----------------------------------------------------------------------------
(* The tables of the GitHub and payments adapters.                         *)
Repository == [owner |-> Segment(Field("string", TRUE, None)),
               repo |-> Segment(Field("string", TRUE, None))]

Text == Field("string", TRUE, None)
Optional(type) == Field(type, FALSE, None)

Extend(f, g) ==
    [n \in DOMAIN f \cup DOMAIN g |-> IF n \in DOMAIN g THEN g[n] ELSE f[n]]

GitHubActions ==
    [issue_create |-> Extend(Repository,
        [title |-> Text, body |-> Optional("string"), labels |-> Optional("array")]),
     issue_comment |-> Extend(Repository,
        [issue_number |-> Field("integer", TRUE, AtLeast(1)), body |-> Text]),
     branch_create |-> Extend(Repository,
        [branch |-> Text, from |-> [Optional("string") EXCEPT !.nullable = TRUE]]),
     pr_open |-> Extend(Repository,
        [title |-> Text, head |-> Text, base |-> Text, body |-> Optional("string"),
         draft |-> Optional("boolean")])]

Amount == Field("integer", TRUE, AtLeast(0))
Currency == Segment(Text)   \* three letters
Metadata == [metadata |-> Optional("object")]

PaymentActions ==
    [refund |-> Extend(Metadata, [charge_id |-> Text, amount |-> Amount,
        currency |-> Currency, reason |-> Optional("string")]),
     invoice_pay |-> Extend(Metadata, [invoice_id |-> Text, amount |-> Amount,
        currency |-> Currency, payment_method |-> Text]),
     capture |-> Extend(Metadata, [payment_intent_id |-> Text, amount |-> Amount,
        currency |-> Currency]),
     cancel |-> Extend(Metadata, [payment_intent_id |-> Text,
        reason |-> Optional("string")])]
=============================================================================
