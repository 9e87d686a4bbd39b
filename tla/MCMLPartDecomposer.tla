------------------------- MODULE MCMLPartDecomposer -------------------------
(***************************************************************************)
(* Instances of MLPartDecomposer: models with a residual path, two towers, *)
(* a size, a transposed parameter and a loss.                              *)
(***************************************************************************)
EXTENDS MLPartDecomposer

Tensors(src) == [n |-> Len(src), src |-> src, kind |-> [o \in DOMAIN src |-> "tensor"]]

Residual == Tensors(<<{0}, {1}, {1, 2}, {3}>>)

Towers == Tensors(<<{0}, {0}, {1}, {2, 3}>>)

\* Operator 2 is the size of value 1.
Sized == [n |-> 4, src |-> <<{0}, {1}, {1, 2}, {2, 3}>>,
          kind |-> <<"tensor", "other", "tensor", "tensor">>]

\* Operator 1 transposes a parameter, operator 4 is a criterion.
Criterion == [n |-> 4, src |-> <<{Param}, {0, 1}, {2, Param}, {0, 3}>>,
              kind |-> <<"tensor", "tensor", "tensor", "scalar">>]

\* Operator 2 is the size of the model's argument, which operator 4 reads.
InputSize == [n |-> 4, src |-> <<{0}, {0}, {1}, {2, 3}>>,
              kind |-> <<"tensor", "other", "tensor", "tensor">>]

MCModels == {Residual, Towers, Sized, Criterion}

InputSizeModels == {InputSize}
=============================================================================
