--------------------------- MODULE MCStateCompare ---------------------------
(***************************************************************************)
(* The comparison over all pairs of small server states, and every         *)
(* corruption of the corpus that SeedCorruptionCorpus writes.              *)
(***************************************************************************)
EXTENDS StateCompare

VARIABLE input

I32(n) == <<"int32", n>>
Item(i) == Doc(<<<<"_id", I32(i)>>, <<"n", I32(i)>>, <<"payload", <<"string", "original">>>>,
                 <<"when", <<"date", 1767225600>>>>>>)
Index(name, v, field) ==
  Doc(<<<<"v", I32(v)>>, <<"key", Doc(<<<<field, I32(1)>>>>)>>, <<"name", <<"string", name>>>>>>)
Strict == Doc(<<<<"validator", Doc(<<<<"n", I32(1)>>>>)>>, <<"validationLevel", <<"string", "strict">>>>>>)

(* SeedCorruptionCorpus, with two documents instead of five *)
SeedCorruptionCorpus ==
  [corpus |-> [items |-> [options |-> Strict,
                          indexes |-> <<Index("_id_", 2, "_id"), Index("n_1", 2, "n")>>,
                          documents |-> <<Item(0), Item(1)>>]]]

PairId(x, y) == Doc(<<<<x, I32(1)>>, <<y, I32(1)>>>>)
TypedIds == {I32(1), <<"int64", 1>>, PairId("a", "b"), PairId("b", "a")}
Bodies == {I32(1), <<"int64", 1>>, PairId("a", "b"), PairId("b", "a"),
           <<"array", <<I32(1), I32(2)>>>>, <<"array", <<I32(2), I32(1)>>>>,
           <<"array", <<I32(1)>>>>}
Documents == {<< >>} \cup {<<Doc(<<<<"_id", i>>, <<"x", b>>>>)>> : i \in TypedIds, b \in Bodies}
               \cup {<<Doc(<<<<"x", I32(1)>>, <<"_id", i>>>>)>> : i \in TypedIds}
Options == {Doc(<< >>), Strict}
Indexes == {<<Index("_id_", v, f)>> : v \in {1, 2}, f \in {"_id", "n"}}
             \cup {<<Index("_id_", 2, "_id"), Index("n_1", 2, "n")>>}
Colls == {[options |-> Doc(<< >>), indexes |-> <<Index("_id_", 2, "_id")>>, documents |-> d] :
            d \in Documents}
         \cup {[options |-> o, indexes |-> i, documents |-> << >>] : o \in Options, i \in Indexes}
Plain == [options |-> Doc(<< >>), indexes |-> <<Index("_id_", 2, "_id")>>, documents |-> << >>]
Servers == {[db |-> [c |-> x]] : x \in Colls}
             \cup {[db |-> [c |-> Plain, d |-> Plain]], [db |-> [d |-> Plain]],
                   [db |-> [c |-> Plain], e |-> [c |-> Plain]],
                   [db |-> [c |-> Plain], local |-> [oplog |-> Plain]],
                   [db |-> [c |-> [Plain EXCEPT !.documents = <<Doc(<< >>)>>]]],
                   SeedCorruptionCorpus}

PairInit == \E w, g \in {s \in Servers : ~CaptureFails(s)} :
              input = [want |-> CaptureServerState(w), got |-> CaptureServerState(g),
                       names |-> << >>]

(* The negative control: the corpus against itself, corrupted once or twice *)
ControlInit ==
  LET corpus == CaptureServerState(SeedCorruptionCorpus)
  IN input = [want |-> corpus, got |-> corpus, names |-> << >>]
Corrupt(name) ==
  /\ Len(input.names) < 2
  /\ \E bad \in Corrupted(input.got, name) :
       input' = [input EXCEPT !.got = bad, !.names = Append(@, name)]
Control == \E name \in DocumentCorruptions \cup OtherCorruptions : Corrupt(name)

(* What must compare equal: types and payloads, documents field by field, the _id
   as it is stored, an index without its version. *)
RECURSIVE Canon(_, _)
Canon(v, root) ==
  CASE v[1] = "doc" ->
         <<"map", [k \in Keys(v) |-> IF root /\ k = "_id" THEN Field(v, k)
                                     ELSE Canon(Field(v, k), FALSE)]>>
    [] v[1] = "array" -> <<"array", [i \in DOMAIN v[2] |-> Canon(v[2][i], FALSE)]>>
    [] OTHER -> v
NoVersion(m) == <<"map", [k \in DOMAIN m[2] \ {"v"} |-> m[2][k]]>>
CanonState(s) ==
  [db \in DOMAIN s |-> [c \in DOMAIN s[db] |->
     [options |-> Canon(s[db][c].options, TRUE),
      indexes |-> [n \in DOMAIN s[db][c].indexes |-> NoVersion(Canon(s[db][c].indexes[n], TRUE))],
      documents |-> [k \in DOMAIN s[db][c].documents |-> Canon(s[db][c].documents[k], TRUE)]]]]

(* No divergence is reported exactly when the two states hold the same databases,
   collections, options, indexes and documents, with their types: nothing that
   replication may lose, add or retype escapes, and a different order of fields or
   an older index version raises no alarm. Every corruption of the negative control
   is seen, whichever entry it hits and whichever side it is on, and one never hides
   another: only a document removed again after it was added, or a type changed
   back, leaves nothing to see. *)
DiffIsExact ==
  LET undone == \/ input.names = <<"extra document", "missing document">>
                \/ Len(input.names) = 2 /\ input.names[1] = input.names[2]
      seen == DiffServerState(input.want, input.got) # {}
  IN /\ seen = (CanonState(input.want) # CanonState(input.got))
     /\ input.names # << >> /\ ~undone =>
          seen /\ DiffServerState(input.got, input.want) # {}
=============================================================================
