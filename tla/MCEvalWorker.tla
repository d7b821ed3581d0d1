---------------------------- MODULE MCEvalWorker ----------------------------
EXTENDS EvalWorker, TLC

CONSTANTS w1, w2, t1, t2, r1, r2

BothRules   == {<<t1, r1>>, <<t1, r2>>}
OneRuleEach == {<<t1, r1>>, <<t2, r1>>}
OneRule     == {<<t1, r1>>}

Symmetry == Permutations(Worker)
=============================================================================
