------------------------------- MODULE MCDeploy -------------------------------
(* Jobs on three ranks for Deploy: two parameters of which the segments are  *)
(* uneven, one or two modules, data-parallel or in stages.                   *)
EXTENDS Deploy

MCNumel == [a |-> 4, b |-> 5]

\* A model on every rank; two stages, a on the first, b on the second; two
\* stages which share a, with b unused.
Route(value, sources, dests) == [value |-> value, sources |-> sources, dests |-> dests]
Everywhere(ps) ==
    [params |-> ps, buffers |-> {}, users |-> [p \in ToSet(ps) |-> {Ranks}],
     in |-> <<Route("x", Ranks, Ranks)>>, mid |-> << >>, out |-> <<Route("y", Ranks, Ranks)>>]
TwoStages ==
    [params |-> <<"a", "b">>, buffers |-> {},
     users |-> [p \in {"a", "b"} |-> IF p = "a" THEN {{0}} ELSE {{1, 2}}],
     in |-> <<Route("x", Ranks, {0})>>, mid |-> <<Route("h", {0}, {1, 2})>>,
     out |-> <<Route("y", {1, 2}, Ranks)>>]
SharedAcross ==
    [TwoStages EXCEPT !.users = [p \in {"a", "b"} |-> IF p = "a" THEN {{0}, {1}} ELSE {}],
                      !.mid[1].dests = {1}, !.out[1].sources = {1}]

\* Ids that agree, that differ, and that mean another parameter elsewhere.
Same    == [r \in Ranks |-> [a |-> 1, b |-> 2]]
Own     == [r \in Ranks |-> [a |-> 1 + 10 * r, b |-> 2 + 10 * r]]
Swapped == [r \in Ranks |-> IF r = 0 THEN [a |-> 1, b |-> 2] ELSE [a |-> 2, b |-> 1]]

Job(stored, modules, ids, hash, gather, zero) ==
    [stored |-> stored, modules |-> modules, id |-> ids, hash |-> hash,
     gather |-> gather, zero |-> zero]

\* The worst hash, and one that tells some keys apart.
Hashes == {"collide", "spread"}
MCHash(h, k) ==
    IF h = "collide" THEN 0 ELSE IF k.kind = "ranks" THEN Cardinality(k.sources) ELSE 2

\* Parameters that are distributed are used on every rank (see README).
MCJobs ==
    {Job(<<"b", "a">>, <<Everywhere(<<"a", "b">>)>>, i, h, TRUE, z) :
        i \in {Same, Own, Swapped}, h \in Hashes, z \in BOOLEAN}
    \union {Job(<<"a", "b">>, <<Everywhere(<<"a">>), Everywhere(<<"b">>)>>, i, "collide", FALSE, FALSE) :
        i \in {Same, Own}}
    \union {Job(<< >>, <<m>>, Own, h, g, z) :
        m \in {TwoStages, SharedAcross}, h \in Hashes, g \in BOOLEAN, z \in BOOLEAN}
    \union {Job(<<"b">>, <<Everywhere(<<"b">>), [SharedAcross EXCEPT !.params = <<"a">>]>>, Own, "collide", TRUE, FALSE)}

\* A parameter and a buffer, as BufferModel2 of test/test_bn.py has them.
BufferJobs ==
    {Job(<< >>, <<[Everywhere(<<"a", "b">>) EXCEPT !.buffers = {"b"}]>>, Own, h, TRUE, FALSE) :
        h \in Hashes}

\* Both sets of jobs keep to what Deploy_proofs assumes for the parameters.
ASSUME SeparateAssumption == JobsSeparate
=============================================================================
