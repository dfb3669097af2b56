----------------------------- MODULE MC_DeferEmit -----------------------------
(* Function bodies of at most Size statements of any kind, and of more, up to  *)
(* Deep, of the kinds in DeepLeaves, with at least one defer.                 *)
EXTENDS DeferEmit

CONSTANTS Size, Leaves, Deep, DeepLeaves

\* The shapes of the lists of n statements: "leaf" is a statement without a block.
Shapes ==
  LET lists[n \in 0..Deep] ==
        LET block(op, k) == {<<op>> \o b \o <<"end">> : b \in lists[k - 2]}
            twoBlocks(k, m) ==
              {<<"if">> \o b \o <<"else">> \o c \o <<"end">> : b \in lists[m], c \in lists[k - 3 - m]}
            statements(k) ==
              IF k = 1 THEN {<<"leaf">>}
              ELSE block("if", k) \union block("loop", k)
                     \union UNION {twoBlocks(k, m) : m \in 0..(k - 4)}
        IN  IF n = 0 THEN {<<>>}
            ELSE UNION {{s \o rest : s \in statements(k), rest \in lists[n - k]} : k \in 1..n}
  IN  lists

\* The statements of a shape whose leaves are filled in.
Text(shape, leaf) ==
  LET stack[i \in 1..Len(shape)] ==
        IF i = 1 THEN <<>>
        ELSE IF shape[i - 1] \in Opening THEN Append(stack[i - 1], i - 1)
        ELSE IF shape[i - 1] = "end" THEN Front(stack[i - 1])
        ELSE stack[i - 1]
  IN  [i \in 1..Len(shape) |->
         [op |-> IF shape[i] = "leaf" THEN leaf[i] ELSE shape[i], within |-> stack[i]]]

Filled(shape, leaves) ==
  {Text(shape, leaf) :
     leaf \in {l \in [{i \in 1..Len(shape) : shape[i] = "leaf"} -> leaves] :
                 \E i \in DOMAIN l : l[i] = "defer"}}

\* A longer body has a block in it.
MCBodies ==
  [shape \in {s \in UNION {Shapes[n] : n \in 1..Deep} :
                Len(s) > Size => \E i \in 1..Len(s) : s[i] \in Opening} |->
     Filled(shape, IF Len(shape) <= Size THEN Leaves ELSE DeepLeaves)]

===============================================================================
