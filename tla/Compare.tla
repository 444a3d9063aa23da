------------------------------ MODULE Compare ------------------------------
(***************************************************************************)
(* CompareResponses (harness/compare.go): when the answers of the two      *)
(* servers count as the same. A value is a pair <<type, payload>>; the     *)
(* payload of a document is a sequence of <<key, value>>, whose keys are   *)
(* distinct, and that of an array a sequence of values. A NaN and a        *)
(* negative zero, which are doubles, have a type of their own. A payload   *)
(* of a string or an ObjectID is an opaque name.                           *)
(***************************************************************************)
EXTENDS Integers, Sequences, SequencesExt, FiniteSets

CONSTANTS IgnoredFields,   \* defaultIgnoredFields
          MillisTolerance  \* millisToleranceMS

Str(s) == <<"string", s>>
IgnoredValueSentinel == Str("<ignored>")

Keys(fields) == {f[1] : f \in Range(fields)}
Field(fields, k) == fields[CHOOSE i \in DOMAIN fields : fields[i][1] = k][2]

(* What normalize makes of a value that is neither a document nor an array *)
Scalar(x) ==
  CASE x[1] = "objectId" -> Str(x[2])
    [] x[1] = "uuid" -> Str("<UUID>")
    [] x[1] = "timestamp" -> Str("<Timestamp>")
    [] x[1] = "NaN" -> Str("<NaN>")
    [] OTHER -> x

ShownKeysDropped(fields) == Keys(fields) \ IgnoredFields  \* Seeded defect: ignored fields are removed.

(* normalizeBSONDoc: the order of the fields is lost; the value of an ignored
   field is replaced, its presence stays. *)
ShownKeys(fields) == Keys(fields)

RECURSIVE Normalize(_)
Normalize(x) ==
  CASE x[1] = "doc" ->
         <<"map", [k \in ShownKeys(x[2]) |->
                     IF k \in IgnoredFields THEN IgnoredValueSentinel
                     ELSE Normalize(Field(x[2], k))]>>
    [] x[1] = "array" -> <<"slice", [i \in DOMAIN x[2] |-> Normalize(x[2][i])]>>
    [] OTHER -> Scalar(x)

IsNumber(x) == x[1] \in {"int32", "int64", "double"}  \* toFloat64

NotMuchSlower(m, d) == d[2] <= m[2] + MillisTolerance

(* harmonizeMillis, on normalized values: what it makes of DumboDB's. *)
RECURSIVE HarmonizeMillis(_, _)
HarmonizeMillis(m, d) ==
  CASE m[1] = "map" /\ d[1] = "map" ->
         <<"map", [k \in DOMAIN d[2] |->
            IF k \notin DOMAIN m[2] THEN d[2][k]
            ELSE LET mv == m[2][k]
                     dv == d[2][k]
                 IN IF k = "millis" /\ IsNumber(mv) /\ IsNumber(dv)
                       /\ NotMuchSlower(mv, dv)
                    THEN mv
                    ELSE HarmonizeMillis(mv, dv)]>>
    [] m[1] = "slice" /\ d[1] = "slice" /\ Len(m[2]) = Len(d[2]) ->
         <<"slice", [i \in DOMAIN d[2] |-> HarmonizeMillis(m[2][i], d[2][i])]>>
    [] OTHER -> d

(* compareValues after normalize and harmonizeMillis *)
CompareValues(mongo, dumbo) ==
  Normalize(mongo) = HarmonizeMillis(Normalize(mongo), Normalize(dumbo))

(***************************************************************************)
(* Errors: a CommandError ("command") has a code, a name and labels; a     *)
(* WriteException or BulkWriteException ("write") has the codes of its     *)
(* write errors, perhaps a write concern error, and labels; any other      *)
(* error only its message.                                                 *)
(***************************************************************************)
None == [kind |-> "none", codes |-> << >>, concern |-> << >>, name |-> "",
         labels |-> << >>, msg |-> ""]

ErrorCode(e) ==
  IF e.kind \in {"command", "write"} /\ e.codes # << >> THEN e.codes[1]
  ELSE IF e.kind = "write" /\ e.concern # << >> THEN e.concern[1] ELSE 0

(* The name of a "write" error is that of its write concern error. *)
ErrorName(e) == IF e.kind = "command" \/ e.concern # << >> THEN e.name ELSE ""

(* Sorted: how often each label occurs. *)
ErrorLabels(e) ==
  [l \in Range(e.labels) |-> Cardinality({i \in DOMAIN e.labels : e.labels[i] = l})]

Structured(e) == ErrorCode(e) # 0 \/ ErrorName(e) # "" \/ e.labels # << >>

(* compareErrors *)
CompareErrors(m, d) ==
  \/ m.kind = "none" /\ d.kind = "none"
  \/ /\ m.kind # "none" /\ d.kind # "none"
     /\ ErrorCode(m) = ErrorCode(d)
     /\ ErrorName(m) = ErrorName(d)
     /\ ErrorLabels(m) = ErrorLabels(d)
     /\ m.msg = d.msg \/ Structured(m) \/ Structured(d)

(* CompareResponses: does it say Match? *)
CompareResponses(mRes, mErr, dRes, dErr) ==
  IF mErr.kind # "none" \/ dErr.kind # "none" THEN CompareErrors(mErr, dErr)
  ELSE CompareValues(mRes, dRes)
=============================================================================
