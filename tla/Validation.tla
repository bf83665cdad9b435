----------------------------- MODULE Validation -----------------------------
(***************************************************************************)
(* The body of POST /applications: what ApplicationCreate refuses, what    *)
(* _compute_derived makes of the rest, and what the row then holds.  The   *)
(* two convert the same five values with float(), each in its own way.     *)
(*                                                                         *)
(* A body gives every required field a kind of value.                      *)
(*   missing     the key is not there, or null, or ""                      *)
(*   empty       [] or {}                                                  *)
(*   text        a string float() does not read, or another container      *)
(*   zero        0, "0" or false                                           *)
(*   negative    a finite number, or a string of one                       *)
(*   positive    a finite number, or a string of one                       *)
(*   true        true, or digits of another script: a positive number for  *)
(*               float() whose text is none for PostgreSQL's numeric       *)
(*   nan, inf    the string "nan" or "inf" ("-inf" is negative where a     *)
(*               positive number is required and like inf elsewhere)       *)
(*   huge        an integer beyond the range of a float                    *)
(* Quotients of two finite numbers are taken to be finite, and bodies with *)
(* the bare tokens NaN and Infinity, which the JSON columns refuse, are    *)
(* left out.                                                               *)
(***************************************************************************)
EXTENDS Integers

Kinds == {"missing", "empty", "text", "zero", "negative", "positive", "true",
          "nan", "inf", "huge"}

\* In the order in which they must be positive numbers.
Positives ==
    <<"net_monthly_income", "loan_amount", "estimated_payment">>

Fields == {"name", "net_monthly_income", "monthly_obligations",
           "existing_loans_payment", "loan_amount", "estimated_payment"}

Amounts == Fields \ {"name"}

IsBody(b) == b \in [Fields -> Kinds]

\* float(): a sort of number, or what it raises.
Float ==
    [zero |-> "zero", negative |-> "negative", positive |-> "positive",
     true |-> "positive", nan |-> "nan", inf |-> "inf",
     text |-> "ValueError", empty |-> "TypeError", missing |-> "TypeError",
     huge |-> "OverflowError"]

-----------------------------------------------------------------------------
(* ApplicationCreate._validate_required_fields.                            *)

\* Mutant: num < 0.
MustBePositive_Zero(k) ==
    IF Float[k] \in {"ValueError", "TypeError", "negative"} THEN "422"
    ELSE IF Float[k] = "OverflowError" THEN "500"
    ELSE "ok"

\* must_be_positive_number: it catches TypeError and ValueError, and NaN is not
\* <= 0.
MustBePositive(k) ==
    IF Float[k] \in {"ValueError", "TypeError", "zero", "negative"} THEN "422"
    ELSE IF Float[k] = "OverflowError" THEN "500"
    ELSE "ok"

\* Every missing field is collected before the first number is looked at; the
\* first number that fails ends it.  An exception other than ValueError is no
\* validation error: it leaves the handler.
Validate(b) ==
    LET failing == {i \in 1..3 : MustBePositive(b[Positives[i]]) # "ok"}
    IN  IF \E f \in Fields : b[f] = "missing" THEN "422"
        ELSE IF failing = {} THEN "ok"
        ELSE LET first == CHOOSE i \in failing : \A j \in failing : i <= j
             IN  MustBePositive(b[Positives[first]])

-----------------------------------------------------------------------------
(* _compute_derived.                                                       *)

\* x or 0
OrZero(k) == IF k \in {"missing", "empty", "zero"} THEN "zero" ELSE k

Value(b, f) == Float[OrZero(b[f])]

Raises(v) == v \in {"ValueError", "TypeError", "OverflowError"}

NonFinite(v) == v \in {"nan", "inf"}

\* A finite number divided by infinity is 0.
Derived(b) ==
    IF \E f \in Amounts : Raises(Value(b, f)) THEN "raises"
    ELSE IF Value(b, "net_monthly_income") \in {"zero", "negative"} THEN "none"
    ELSE IF \/ Value(b, "net_monthly_income") = "nan"
            \/ \E f \in Amounts \ {"net_monthly_income"} :
                  NonFinite(Value(b, f))
    THEN "nonFinite"
    ELSE "ratios"

-----------------------------------------------------------------------------
(* create_application.                                                     *)

\* What becomes of the body before PostgreSQL sees the tenant, as one of the
\* Forms of Intake.
Form(b) ==
    IF Validate(b) = "422" THEN "invalid"
    ELSE IF Validate(b) = "500" \/ Derived(b) = "raises" THEN "unparsable"
    ELSE IF Derived(b) = "nonFinite" THEN "nonFinite"
    ELSE "valid"

\* The text of loan_amount in the row's loan_request is one of a numeric.
Castable(b) == b["loan_amount"] \notin {"true", "text", "empty"}
=============================================================================
