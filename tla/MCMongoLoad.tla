----------------------------- MODULE MCMongoLoad -----------------------------
(***************************************************************************)
(* Instances of MongoLoad: one or two collections of up to three documents.*)
(***************************************************************************)
EXTENDS MongoLoad

Id(t)    == <<"objectId", t>>
Late     == <<"bool", "true">>   \* sorted behind all ObjectIds
MCIds    == <<<<"string", "a">>, <<"string", "b">>, <<"string", "true">>,
              <<"object", "a,b">>, <<"object", "b,a">>,
              <<"binData", "\\xa1">>, <<"binData", "\\x16">>, <<"oldBinary", "\\x16">>, <<"uuid", "\\x16">>,
              <<"uuid", "\\x17">>, Id("a1"), Id("a2"), Id("a3"), Late>>
Doc(t)   == "_id" :> Id(t)
With(t, f, v)        == Doc(t) @@ (f :> v)
With2(t, f, v, g, w) == Doc(t) @@ (f :> v) @@ (g :> w)

MCWords == {"a", "b", "true", "1", "5", "noon", "\\x16"}
MCQuoted(text) == "\"" \o text \o "\""
MCSortKeys(keys) == IF keys = "b,a" THEN "a,b" ELSE keys

S(t) == <<"string", t>>
N    == <<"int", "5">>

None == <<>>

Job(source, target, sourceRules, targetRules, modes, replicaSet, noTx) ==
    [source |-> source, target |-> target, sourceRules |-> sourceRules,
     targetRules |-> targetRules, modes |-> modes,
     replicaSet |-> replicaSet, noTransaction |-> noTx]

\* Two collections, the first with a validator, into a target that has some,
\* all or none of them; every pair of modes.
Rule == [types  |-> [f \in {"email", "plan"} |-> {"string"}],
         labels |-> [f \in {"email", "plan"} |-> IF f = "plan" THEN {"a", "b"} ELSE {}],
         required |-> {"plan"}]
\* The target's validator wants what the source's does not.
Stricter == [Rule EXCEPT !.required = {"email", "plan"}]
Narrower == [Rule EXCEPT !.labels["plan"] = {"a"}]

Users  == {With2("a1", "email", S("a"), "plan", S("a")), With("a2", "plan", S("b"))}
Events == {With("a1", "kind", S("a")), With2("a2", "kind", S("b"), "score", N)}
Old    == {With2("a2", "plan", S("a"), "email", S("b")), With2("a3", "plan", S("a"), "email", S("b"))}
Seen   == {With2("a2", "kind", S("a"), "score", <<"int", "1">>), With("a3", "kind", S("a"))}

Loads ==
    {Job(<<Users, Events>>, target, 1 :> Rule, rules, <<m, n>>, replicaSet, TRUE) :
        target \in {1 :> {}, 1 :> Old, (1 :> Old) @@ (2 :> Seen)},
        rules \in {1 :> Rule, 1 :> Stricter, 1 :> Narrower},
        m \in Modes, n \in Modes, replicaSet \in {FALSE}}
    \cup {Job(<<Users, Events>>, 1 :> Old, 1 :> Rule, 1 :> Rule, <<m, m>>, r, FALSE) :
            m \in Modes, r \in BOOLEAN}

\* A field with values of two or three types, in the sample and beyond it.
Samples == {S("a"), S("5"), N, <<"long", "5000000000">>, <<"long", "1">>, <<"double", "1.5">>,
            <<"bool", "true">>, <<"object", "b,a">>, <<"date", "noon">>, <<"binData", "\\x01">>,
            <<"uuid", "\\x16">>, <<"oldBinary", "\\x17">>, <<"null", "">>, <<"javascript", "a">>, <<"decimal", "1.5">>,
            <<"regex", "a">>, <<"minKey", "">>, <<"timestamp", "1:5">>}

Unforeseen == {<<"bool", "true">>, <<"long", "5000000000">>, S("a")}

Mixed ==
    {Job(<<{With("a1", "x", v), With("a2", "x", w)} \cup third>>, target, None, None, <<m>>, TRUE, FALSE) :
        v \in Samples, w \in Samples,
        third \in {{}} \cup {{With("a3", "x", u)} : u \in Unforeseen},
        target \in {None, 1 :> {With("a3", "x", S("b"))}},
        m \in {"upsert", "skip_existing"}}
    \cup
    {Job(<<{With("a1", "x", v), With("a2", "x", v), With("a3", "x", w)}>>,
         1 :> {With("a3", "x", <<"int", "1">>)}, None, None, <<m>>, TRUE, FALSE) :
        v \in {N, S("5"), <<"bool", "true">>}, w \in Unforeseen, m \in {"truncate_first"}}

\* A profile of ids that are no ObjectIds, and one that is met beyond the sample;
\* a collection that is there without documents; one without documents to load.
Odd ==
    {Job(<<{"_id" :> S("b")}>>, target, None, None, <<m>>, TRUE, FALSE) :
        target \in {None, 1 :> {}, 1 :> {"_id" :> S("b")}}, m \in Modes}
    \cup {Job(<<{Doc("a1"), Doc("a2"), "_id" :> Late}>>, None, None, None, <<m>>, TRUE, FALSE) :
            m \in Modes}
    \cup {Job(<<{}, {Doc("a1"), Doc("a2"), Doc("a3")}>>, target, None, None, <<m, m>>, TRUE, FALSE) :
            m \in Modes, target \in {None, 2 :> {}, 1 :> {Doc("a1")}}}

\* A load brings documents that change what the sample of the next one says of ids.
Shifting ==
    {Job(<<{"_id" :> S("b"), "_id" :> S("true")}>>, 1 :> {"_id" :> S("a"), Doc("a1")},
         None, None, <<m>>, TRUE, FALSE) : m \in Modes}

\* Binary data of any kind beyond a sample of one kind.
Binary(type, bytes) == <<type, bytes>>
Subtypes ==
    {Job(<<{With("a1", "x", v), With("a2", "x", v), With("a3", "x", w)}>>, None, None, None,
         <<"upsert">>, TRUE, FALSE) :
        v \in {Binary(t, "\\x16") : t \in Binaries}, w \in {Binary(t, b) : t \in Binaries, b \in Octets}}

\* Ids that come out as others: into targets that have the document under the id of
\* the source, and under the one that it gets.
Changing ==
    {Job(<<{"_id" :> id} \cup more>>, target, None, None, <<m>>, TRUE, FALSE) :
        id \in {<<"object", "b,a">>, Binary("oldBinary", "\\x16"), Binary("uuid", "\\x16"), Id("a1")},
        more \in {{}, {"_id" :> Binary("uuid", "\\x17")}, {"_id" :> Binary("binData", "\\x16")},
                  {"_id" :> <<"object", "a,b">>}},
        target \in {None, 1 :> {}} \cup {1 :> {("_id" :> k) @@ ("x" :> N)} :
            k \in {<<"object", "b,a">>, <<"object", "a,b">>, Binary("oldBinary", "\\x16"),
                   Binary("binData", "\\x16"), Binary("uuid", "\\x16")}},
        m \in Modes}

MCJobs == Loads \cup Mixed \cup Odd \cup Shifting \cup Subtypes \cup Changing

\* The target has been given its collections, which hold no documents yet.
ProfileJobs ==
    {Job(<<Users, Events>>, (1 :> {}) @@ (2 :> {}), 1 :> Rule, 1 :> Rule, <<m, m>>, TRUE, FALSE) :
        m \in Modes}
==============================================================================
