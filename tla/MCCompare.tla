----------------------------- MODULE MCCompare -----------------------------
(***************************************************************************)
(* The comparison against what it is meant to tell apart, over all pairs   *)
(* of small values and of small errors.                                    *)
(***************************************************************************)
EXTENDS Compare

VARIABLE input

Scalars == {<<"int32", 0>>, <<"int64", 0>>, <<"double", 0>>, <<"negativeZero", 0>>,
            <<"NaN", 0>>, <<"int32", 7>>, <<"double", 9>>, <<"objectId", "6a0f">>,
            <<"uuid", 1>>, <<"uuid", 2>>, <<"timestamp", 1>>, <<"timestamp", 2>>,
            <<"null", 0>>} \cup {Str("a"), Str("b")}
FieldNames == {"n", "millis", "operationTime"}
Flat == Scalars \cup {<<"array", << >>>>, <<"doc", << >>>>}
          \cup {<<"doc", <<<<k, x>>>>>> : k \in FieldNames, x \in Scalars}
          \cup {<<"array", <<x>>>> : x \in Scalars}
TwoFields == {<<"doc", <<<<"n", <<"int32", 0>>>>, <<k, x>>>>>> :
                k \in {"millis", "operationTime"}, x \in Scalars}
Turned(d) == <<"doc", <<d[2][2], d[2][1]>>>>
Nested == {<<"array", <<<<"doc", <<<<"millis", x>>>>>>>>>> : x \in Scalars}
Values == Flat \cup TwoFields \cup Nested \cup {Turned(d) : d \in TwoFields}

Labels == {<< >>, <<"A">>, <<"A", "B">>, <<"B", "A">>}
Errors == {None}
  \cup {[None EXCEPT !.kind = "plain", !.msg = m] : m \in {"x", "y"}}
  \cup {[None EXCEPT !.kind = "command", !.codes = <<c>>, !.name = n,
           !.labels = l, !.msg = m] :
          c \in {0, 1}, n \in {"", "N"}, l \in Labels, m \in {"x", "y"}}
  \cup {[None EXCEPT !.kind = "write", !.codes = c, !.concern = w[1], !.name = w[2],
           !.labels = l, !.msg = "x"] :
          c \in {<< >>, <<1>>, <<1, 2>>}, l \in Labels,
          w \in {<<<< >>, "">>, <<<<2>>, "N">>}}

Null == <<"null", 0>>
Init == \/ input \in [m : Values, d : Values, e : {None}, f : {None}]
        \/ input \in [m : {Null}, d : {Null}, e : Errors, f : Errors]

(* What must match, on the raw values: equal types and payloads, field by field
   in any order, except for server-generated UUIDs and timestamps, the values of
   ignored fields, and DumboDB's millis up to the tolerance. *)
RECURSIVE Same(_, _)
Same(m, d) ==
  CASE m[1] = "doc" /\ d[1] = "doc" ->
         /\ Keys(m[2]) = Keys(d[2])
         /\ \A k \in Keys(m[2]) \ IgnoredFields :
              LET a == Field(m[2], k)
                  b == Field(d[2], k)
              IN \/ Same(a, b)
                 \/ k = "millis" /\ IsNumber(a) /\ IsNumber(b)
                    /\ b[2] - a[2] <= MillisTolerance
    [] m[1] = "array" /\ d[1] = "array" ->
         Len(m[2]) = Len(d[2]) /\ \A i \in DOMAIN m[2] : Same(m[2][i], d[2][i])
    [] m[1] \in {"uuid", "timestamp"} -> d[1] = m[1]
    [] OTHER -> m = d

(* Errors match when a driver's caller could not tell them apart: both or neither
   failed, and code, codeName and labels, in any order, are equal; an error that
   has none of these matches only one with the same message. *)
Telling(e) == <<ErrorCode(e), ErrorName(e), Range(e.labels)>>
SameError(e, f) ==
  /\ e # None /\ f # None /\ Telling(e) = Telling(f)
  /\ Telling(e) = <<0, "", {}>> => e.msg = f.msg

(* "compareValues is exact": two responses match exactly when they are the same up
   to what is masked on purpose, and so do two errors; in particular a field that
   only one server sends, another numeric type, a NaN or a negative zero is a
   divergence. The strings leave out those that look like a masked value. *)
CompareIsExact ==
  LET e == input.e
      f == input.f
  IN CompareResponses(input.m, e, input.d, f)
       <=> IF e = None /\ f = None THEN Same(input.m, input.d) ELSE SameError(e, f)
=============================================================================
