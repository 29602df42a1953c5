---- MODULE MCReceivables ----
\* One or two sales of one customer, two workers, one receipt recorded in treasury. A unit is
\* a shilling, so that a drift of one is within the tolerance and a drift of two is not.
EXTENDS Receivables
CONSTANTS p1, p2, d1
MCProc == {p1, p2}
MCDirect == {d1}
Scene(may, price) == [may |-> may, price |-> price]
MCScenes == {
    Scene({"till", "direct"}, <<1, 1>>),
    Scene({"till", "direct"}, <<2, 0>>),
    Scene({"till", "fail", "late"}, <<1, 1>>),
    Scene({"till", "fail", "late"}, <<2, 0>>),
    Scene({"direct", "fail"}, <<1, 1>>),
    Scene({"direct", "fail", "overlap", "crash"}, <<1, 1>>),
    Scene({"till", "direct", "fail", "late", "foreign"}, <<1, 0>>),
    Scene({"till", "direct", "void"}, <<1, 0>>),
    Scene({"till", "void"}, <<2, 0>>),
    Scene({"till", "void", "overlap", "fail", "late"}, <<1, 0>>),
    Scene({"till", "direct", "overlap", "crash"}, <<1, 0>>)}
====
