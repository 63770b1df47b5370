------------------------------ MODULE MCServices ------------------------------
(* Model checking Services.                                                  *)
EXTENDS Services

MCKeyOf == [v \in Versions |-> 1]
MCBucketOf == [k \in CacheKeys |-> IF k = 2 THEN 3 ELSE k]     \* the page in between is empty

(* Expressions for the parser: one field of interest at a time, with values  *)
(* at and past both ends, ranges that run forwards and backwards, and steps. *)
Field(shape, a, b, step) == [shape |-> shape, a |-> a, b |-> b, step |-> step]
Any == {Field("any", 0, 0, 0)}
Midnight == [f \in {"minute", "hour", "day", "month", "weekday"} |->
                IF f \in {"minute", "hour"} THEN {Field("one", 0, 0, 0)} ELSE Any]
FieldsUpTo(hi) ==
    {Field("one", a, 0, 0) : a \in {0, 1, hi, hi + 1}}
    \cup {Field("any", 0, 0, n) : n \in 0 .. 3} \cup {Field("any", 0, 0, 0 - 1)}
    \cup {Field("range", a, b, n) : a, b \in {0, 1, 2, hi, hi + 1}, n \in {0, 2}}
    \cup {Field("bad", 0, 0, 0)}
MCExpressions ==
    {[Midnight EXCEPT !["minute"] = {i}] : i \in FieldsUpTo(3)}
    \cup {[Midnight EXCEPT !["weekday"] = {i}] : i \in FieldsUpTo(6)}
    \cup {[Midnight EXCEPT !["day"] = {i}] : i \in FieldsUpTo(4)}
    \cup {[Midnight EXCEPT !["weekday"] = {Field("range", 6, 1, 0), Field("one", 3, 0, 0)},
                           !["month"] = {Field("one", 2, 0, 0)}]}
=============================================================================
