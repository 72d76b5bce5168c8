------------------------- MODULE MCLayoutInference -------------------------
(* LayoutInference on chains, forks and joins of three operations over two  *)
(* inputs (1, 3) and a constant (2); operation c makes 2c + 2, and a split  *)
(* also 2c + 3.  Axes are fixed there, and all pairs of axes are tried in   *)
(* diamonds of four operations, which reduce one operand twice.             *)
EXTENDS LayoutInference, TLC

op(kind, nhwc, ins, outs, axis) ==
  [kind |-> kind, nhwc |-> nhwc, ins |-> ins, outs |-> outs, axis |-> axis]

\* The operations that may be the c-th, over computed operands C of four axes
\* and T of three.
Candidates(c, C, T) ==
  LET o == 2 * c + 2
  IN  {op("pool", TRUE, <<a>>, <<o>>, 0) : a \in C \cup T}
        \cup {op("default", FALSE, <<a>>, <<o>>, 0) : a \in C}
        \cup {op("axis", FALSE, <<a>>, <<o, o + 1>>, 2) : a \in C \cup T}
        \cup {op("arg", FALSE, <<a>>, <<o>>, 0) : a \in C}
        \cup {op("act", FALSE, <<a>>, <<o>>, 0) : a \in C}
        \cup {op("conv", TRUE, <<a, k>>, <<o>>, 0) : a \in C \ {3, 4}, k \in {2, 3} \cup (C \cap {4})}
        \cup {op("conv", TRUE, <<a, k>>, <<o>>, 0) : a \in T \cap {4, 6}, k \in {3} \cup (C \cap {4})}
        \cup {op("conv", FALSE, <<a, 3>>, <<o>>, 0) : a \in C \cap {4}}
        \cup {op("deconv", TRUE, <<a, 2>>, <<o>>, 0) : a \in (C \cap {4}) \cup (T \cap {6})}
        \cup {op("depthwise", TRUE, <<x[1], x[2]>>, <<o>>, 0) : x \in (C \X C) \cap {<<1, 4>>, <<4, 4>>}}
        \cup {op("depthwise", TRUE, <<a, 2>>, <<o>>, 0) : a \in C \cap {4}}
        \cup {op("concat", FALSE, <<a, 2>>, <<o>>, 1) : a \in C}
        \cup {op("concat", FALSE, <<x[1], x[2]>>, <<o>>, 1) : x \in {x \in C \X C : x[1] < x[2]}}
        \cup {op("elem", FALSE, <<x[1], x[2]>>, <<o>>, 0) : x \in {x \in T \X T : x[1] < x[2]}}

Grow(c, S) ==
  UNION {{LET new == ToSet(x.outs)
              small == x.kind = "arg" \/ x.ins[1] \in g.T
          IN  [ops |-> Append(g.ops, x), C |-> g.C \cup (IF small THEN {} ELSE new),
               T |-> g.T \cup (IF small THEN new ELSE {}), read |-> g.read \cup ToSet(x.ins)]
            : x \in Candidates(c, g.C, g.T)} : g \in S}

\* The first operation is one whose results are in another layout, of fewer axes or
\* two: the others would pass the input on.
Starts == {g \in Grow(1, {[ops |-> <<>>, C |-> {1, 3}, T |-> {}, read |-> {}]}) :
             g.ops[1].ins[1] = 1 /\ g.ops[1].kind \in {"pool", "conv", "arg", "axis"}}

\* No operation stands alone.
Connected(g) == /\ ToSet(g.ops[1].outs) \cap g.read # {}
                /\ ToSet(g.ops[3].ins) \cap (4..7) # {}

\* One operand reduced along two axes and joined again.
diamonds == {[ops |-> <<op("pool", TRUE, <<1>>, <<4>>, 0), op("arg", FALSE, <<4>>, <<6>>, x),
                        op("arg", FALSE, <<4>>, <<8>>, y), op("elem", FALSE, <<6, 8>>, <<10>>, 0)>>,
              ndim |-> [o \in 1..11 |-> IF o \in {6, 8, 10} THEN 3 ELSE 4]] : x, y \in 0..3}

graphs == diamonds \cup {[ops |-> g.ops, ndim |-> [o \in 1..11 |-> IF o \in g.T THEN 3 ELSE 4]] :
                           g \in {g \in Grow(3, Grow(2, Starts)) : Connected(g)}}
=============================================================================
