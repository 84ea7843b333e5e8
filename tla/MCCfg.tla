-------------------------------- MODULE MCCfg ---------------------------------
(***************************************************************************)
(* Bodies for TLC: every simple statement in every position of a loop, an arm  *)
(* or a block that is itself inside a loop of each kind, followed by code that  *)
(* would notice a wrong jump or a wrong variable.                            *)
(***************************************************************************)
EXTENDS CfgMatch

CONSTANTS x, e, f

Act(n)       == [k |-> "act", val |-> n]
Use(n)       == [k |-> "use", name |-> n]
While(b)     == [k |-> "while", body |-> b]
If(b, c)     == [k |-> "if", body |-> b, else |-> c]
For(k, n, b) == [k |-> k, name |-> n, body |-> b]

Break    == [k |-> "break"]
Continue == [k |-> "continue"]
Drop     == [k |-> "drop"]
RetStmt  == [k |-> "return", val |-> 3]
VarX     == [k |-> "var", name |-> x, val |-> 7]
AssignX  == [k |-> "assign", name |-> x, val |-> 8]

Leaves == {Act(1), VarX, AssignX, Use(x), Break, Continue, RetStmt}
Inner  == {<<>>} \cup {<<l>> : l \in Leaves} \cup {<<l, Act(2)>> : l \in Leaves}

(* Statements for the body of a loop; an inner for binds f. *)
Compound ==
  {While(b) : b \in Inner} \cup {Block(b) : b \in Inner}
    \cup {For(k, f, b) : k \in {"list", "iter"}, b \in Inner \cup {<<Use(f), Continue>>}}
    \cup {If(b, c) : b \in Inner, c \in {<<>>, <<Act(2)>>, <<Break>>}}

InLoop == {<<c, Use(x)>> : c \in Compound} \cup {<<If(<<l>>, <<>>), c>> : l \in {Break, Continue}, c \in Compound}

Loops(bodies) ==
  {While(b) : b \in bodies} \cup {For(k, e, Append(b, Use(e))) : k \in {"list", "iter"}, b \in bodies}

(* The list also shrinks, where no list loop is under way. *)
Shrinking == {For("iter", e, <<If(<<Drop>>, <<>>), Use(e)>>), For("list", e, <<Use(e)>>)}

MCBodies == {<<l, Act(4), Use(x)>> : l \in Loops(InLoop)} \cup {<<Drop, l>> : l \in Shrinking}

(* A for that reuses the name of a variable around it. *)
ShadowBodies == {<<For(k, x, <<Act(1)>>), Use(x)>> : k \in {"list", "iter"}}
                  \cup {<<While(<<VarX, For(k, x, <<Use(x)>>), Use(x)>>)>> : k \in {"list", "iter"}}

(* The list shrinks while a loop runs over it. *)
ShrinkBodies == {<<For(k, e, <<If(<<Drop>>, <<>>), Act(1)>>)>> : k \in {"list", "iter"}}

Simple == Leaves \cup {Act(2), Act(4), Use(e), Use(f), Drop}

MCStmt     == Simple \cup Compound \cup {If(<<l>>, <<>>) : l \in {Break, Continue}} \cup Loops(InLoop)
                \cup {If(<<Drop>>, <<>>)} \cup Shrinking
ShadowStmt == Simple \cup {For(k, x, <<u>>) : k \in {"list", "iter"}, u \in {Act(1), Use(x)}}
                \cup {b[1] : b \in ShadowBodies}
ShrinkStmt == Simple \cup {If(<<Drop>>, <<>>)} \cup {b[1] : b \in ShrinkBodies}
=============================================================================
