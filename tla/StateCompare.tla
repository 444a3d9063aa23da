---------------------------- MODULE StateCompare ----------------------------
(***************************************************************************)
(* The comparison of two servers' whole state (harness/statecompare.go)    *)
(* and the corruptions that keep it honest (harness/negativecontrol.go). A *)
(* BSON value is <<type, payload>>; the payload of a document is a         *)
(* sequence of <<key, value>>, that of an array a sequence of values.      *)
(* A captured collection is a record of its options, its indexes by name   *)
(* and its documents by _id; databases and collections are functions.      *)
(***************************************************************************)
EXTENDS Integers, Sequences, FiniteSets, SequencesExt

Doc(fields) == <<"doc", fields>>
Keys(d) == {f[1] : f \in Range(d[2])}

(* The fields are put into a map: of two fields with one name the last counts. *)
Field(d, k) == d[2][CHOOSE i \in DOMAIN d[2] :
                      d[2][i][1] = k /\ \A j \in i + 1 .. Len(d[2]) : d[2][j][1] # k][2]

systemDatabases == {"admin", "config", "local"}
SystemCollections == {"system.views"}  \* the names with the prefix "system."

(***************************************************************************)
(* Capture. A server is, per database and collection, the options and the  *)
(* sequences of index specifications and documents it lists; an index      *)
(* without a name or a document without an _id is an error.                *)
(***************************************************************************)
ByKey(docs, k) ==
  [key \in {Field(docs[i], k) : i \in DOMAIN docs} |->
     docs[CHOOSE i \in DOMAIN docs :
            /\ Field(docs[i], k) = key
            /\ \A j \in i + 1 .. Len(docs) : Field(docs[j], k) # key]]

CaptureFails(server) ==
  \E db \in DOMAIN server \ systemDatabases :
    \E c \in DOMAIN server[db] \ SystemCollections :
      \/ \E d \in Range(server[db][c].indexes) : "name" \notin Keys(d)
      \/ \E d \in Range(server[db][c].documents) : "_id" \notin Keys(d)

CaptureServerState(server) ==
  [db \in DOMAIN server \ systemDatabases |->
     [c \in DOMAIN server[db] \ SystemCollections |->
        [options |-> server[db][c].options,
         indexes |-> ByKey(server[db][c].indexes, "name"),
         documents |-> ByKey(server[db][c].documents, "_id")]]]

(***************************************************************************)
(* compareRawValue: do the two values differ? Fields may be in any order,  *)
(* except those of an _id that is a document.                              *)
(***************************************************************************)
TypesDiffer(a, b) == a[1] # b[1]

Ordered(key, a, root) == root /\ key = "_id" /\ a[1] = "doc"

RECURSIVE ValuesDiffer(_, _, _)
ValuesDiffer(a, b, root) ==
  IF TypesDiffer(a, b) THEN TRUE
  ELSE CASE a[1] = "doc" ->
              \/ Keys(a) # Keys(b)
              \/ \E k \in Keys(a) :
                   LET x == Field(a, k)
                       y == Field(b, k)
                   IN IF Ordered(k, x, root) THEN x # y ELSE ValuesDiffer(x, y, FALSE)
         [] a[1] = "array" ->
              \/ Len(a[2]) # Len(b[2])
              \/ \E i \in DOMAIN a[2] : ValuesDiffer(a[2][i], b[2][i], FALSE)
         [] OTHER -> a[2] # b[2]

compareRawDocuments(a, b) == ValuesDiffer(a, b, TRUE)

stripIndexVersion(idx) == Doc(SelectSeq(idx[2], LAMBDA f : f[1] # "v"))

OneSided(want, got) == DOMAIN want \ DOMAIN got  \* Seeded defect: extra entries are not looked for.
Unmatched(want, got) == (DOMAIN want \ DOMAIN got) \cup (DOMAIN got \ DOMAIN want)
Shared(want, got) == DOMAIN want \cap DOMAIN got

diffCollection(want, got) ==
  (IF compareRawDocuments(want.options, got.options) THEN {<<"options">>} ELSE {})
    \cup {<<"index", n>> : n \in Unmatched(want.indexes, got.indexes)}
    \cup {<<"index", n>> : n \in {m \in Shared(want.indexes, got.indexes) :
            compareRawDocuments(stripIndexVersion(want.indexes[m]),
                                stripIndexVersion(got.indexes[m]))}}
    \cup {<<"document", k>> : k \in Unmatched(want.documents, got.documents)}
    \cup {<<"document", k>> : k \in {m \in Shared(want.documents, got.documents) :
            compareRawDocuments(want.documents[m], got.documents[m])}}

diffDatabase(want, got) ==
  {<<c>> : c \in Unmatched(want, got)}
    \cup UNION {{<<c>> \o p : p \in diffCollection(want[c], got[c])} : c \in Shared(want, got)}

DiffServerState(want, got) ==
  {<<db>> : db \in Unmatched(want, got)}
    \cup UNION {{<<db>> \o p : p \in diffDatabase(want[db], got[db])} : db \in Shared(want, got)}

(***************************************************************************)
(* Corruptions(): what each may make of a captured state. A map is walked  *)
(* in any order and left after the first entry, so any may be hit.         *)
(***************************************************************************)
SetField(d, k, v) ==
  IF k \in Keys(d)
  THEN Doc([i \in DOMAIN d[2] |-> IF d[2][i][1] = k THEN <<k, v>> ELSE d[2][i]])
  ELSE Doc(Append(d[2], <<k, v>>))

Retyped(v) == CASE v[1] = "int32" -> <<"int64", v[2]>>
                [] v[1] = "int64" -> <<"int32", v[2]>>
                [] OTHER -> v
RetypeInt(d, k) == IF k \in Keys(d) THEN SetField(d, k, Retyped(Field(d, k))) ELSE d

Without(f, k) == [x \in DOMAIN f \ {k} |-> f[x]]
Collections(s) == UNION {{db} \X DOMAIN s[db] : db \in DOMAIN s}

(* mutateFirstDocument, with what each corruption makes of the document *)
CorruptDocument(d, name) ==
  CASE name = "changed scalar" -> SetField(d, "payload", <<"string", "corrupted">>)
    [] name = "int32 changed to int64" -> RetypeInt(d, "n")
    [] name = "changed _id" -> SetField(d, "_id", <<"string", "displaced">>)
    [] name = "changed date" -> SetField(d, "when", <<"date", 915148800>>)

DocumentCorruptions == {"changed scalar", "int32 changed to int64", "changed _id", "changed date"}
OtherCorruptions == {"missing document", "extra document", "missing collection",
                     "missing database", "missing index", "changed index key",
                     "changed collection options"}

CorruptCollection(c, name) ==
  CASE name \in DocumentCorruptions ->
         {[c EXCEPT !.documents[k] = CorruptDocument(@, name)] : k \in DOMAIN c.documents}
    [] name = "missing document" ->
         {[c EXCEPT !.documents = Without(@, k)] : k \in DOMAIN c.documents}
    [] name = "extra document" ->
         LET key == <<"phantom">>  \* not the key of any _id
         IN {[c EXCEPT !.documents = [k \in DOMAIN @ \cup {key} |->
                IF k = key THEN Doc(<<<<"_id", <<"string", "phantom">>>>>>) ELSE @[k]]]}
    [] name = "missing index" ->
         {[c EXCEPT !.indexes = Without(@, n)] : n \in DOMAIN c.indexes}
    [] name = "changed index key" ->
         {[c EXCEPT !.indexes[n] = SetField(@, "key", Doc(<<<<"wrongField", <<"int32", 1>>>>>>))] :
            n \in DOMAIN c.indexes}
    [] name = "changed collection options" ->
         {[c EXCEPT !.options = SetField(@, "validationLevel", <<"string", "off">>)]}

Corrupted(s, name) ==
  CASE name = "missing database" -> {Without(s, db) : db \in DOMAIN s}
    [] name = "missing collection" ->
         {[s EXCEPT ![p[1]] = Without(@, p[2])] : p \in Collections(s)}
    [] OTHER -> UNION {{[s EXCEPT ![p[1]][p[2]] = c] : c \in CorruptCollection(s[p[1]][p[2]], name)} :
                         p \in Collections(s)}
=============================================================================
