--------------------------- MODULE MCPartitioner ---------------------------
(***************************************************************************)
(* Instances of Partitioner: every model of NumOps tensor operators that   *)
(* read at most two values each, and larger ones with a residual path, two *)
(* towers, a size that several operators read, a transposed parameter and  *)
(* a loss.                                                                 *)
(***************************************************************************)
EXTENDS Partitioner

CONSTANT NumOps

Tensors(src) == [n |-> Len(src), src |-> src, kind |-> [o \in DOMAIN src |-> "tensor"]]

Sources(o) == {{a, b} : a, b \in 0 .. o - 1}

\* Sources of NumOps operators such that every value but the last is read.
AllSources ==
    LET upto[k \in 0 .. NumOps] ==
            IF k = 0 THEN {<<>>} ELSE {Append(s, S) : s \in upto[k - 1], S \in Sources(k)}
    IN  {s \in upto[NumOps] : UNION {s[o] : o \in 1 .. NumOps} = 0 .. NumOps - 1}

Residual == Tensors(<<{0}, {1}, {1, 2}, {3}, {3, 4}>>)

Towers == Tensors(<<{0}, {0}, {1}, {2}, {3, 4}>>)

\* Operator 2 is the size of value 1.
Sized == [n |-> 5, src |-> <<{0}, {1}, {1, 2}, {3}, {2, 4}>>,
          kind |-> <<"tensor", "other", "tensor", "tensor", "tensor">>]

\* Operator 1 transposes a parameter, operator 5 is a criterion.
Criterion == [n |-> 5, src |-> <<{Param}, {0, 1}, {2}, {3, Param}, {0, 4}>>,
              kind |-> <<"tensor", "tensor", "tensor", "tensor", "scalar">>]

\* Long enough to be coarsened to the second level, and uncoarsened back.
Deep == Tensors(<<{0}, {1}, {2}, {1, 3}, {4}, {2, 5}>>)

\* Two values each read by the same two operators.
Crossed == Tensors(<<{0}, {0}, {1, 2}, {1, 2}, {3, 4}>>)

MCModels == {Tensors(s) : s \in AllSources} \cup {Residual, Towers, Sized, Criterion, Deep}

CrossedModels == {Crossed}
=============================================================================
