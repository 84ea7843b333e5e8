------------------------------- MODULE MCFront --------------------------------
(***************************************************************************)
(* Front on every program of a root file, two files beside it and two of the    *)
(* same stems in a directory below, with up to two imports in the root, one in    *)
(* each of the others, and any of these files missing.                      *)
(***************************************************************************)
EXTENDS Front

CONSTANTS X, Y, L, p

Paths   == {"main.of", "a.of", "b.of", "sub/a.of", "sub/b.of", "sub/main.of", "sub/sub/a.of"}
Targets == {"main", "a", "b", "sub/a", "of:core"}

Stem == [q \in Paths |->
           CASE q \in {"a.of", "sub/a.of", "sub/sub/a.of"} -> "a"
             [] q \in {"b.of", "sub/b.of"} -> "b"
             [] OTHER -> "main"]

InDir(q) == q \in {"sub/a.of", "sub/b.of", "sub/main.of", "sub/sub/a.of"}
JoinPath == [q \in Paths |-> [t \in Targets |->
               CASE t = "main"  -> IF InDir(q) THEN "sub/main.of" ELSE "main.of"
                 [] t = "a"     -> IF InDir(q) THEN "sub/a.of" ELSE "a.of"
                 [] t = "b"     -> IF InDir(q) THEN "sub/b.of" ELSE "b.of"
                 [] t = "sub/a" -> IF InDir(q) THEN "sub/sub/a.of" ELSE "sub/a.of"
                 [] OTHER       -> "main.of"]]

Fn(n)          == [k |-> "fn", name |-> n]
Type(n)        == [k |-> "type", name |-> n]
Method(n)      == [k |-> "method", name |-> n]
Glob(t)        == [k |-> "glob", from |-> t]
Named(t, n, m) == [k |-> "named", from |-> t, name |-> n, as |-> m]

CoreHas    == <<Type(L), Fn(p)>>
PreludeHas == <<L, p>>

OfRoot == {Glob("a"), Glob("b"), Named("a", X, X), Named("b", X, X), Named("b", X, Y),
           Glob("sub/a"), Named("a", L, L)}
OfA    == {<<>>, <<Glob("b")>>, <<Named("b", X, X)>>, <<Named("main", X, Y)>>, <<Glob("a")>>}
OfB    == {<<>>, <<Named("a", X, X)>>, <<Named("a", Y, X)>>, <<Named("of:core", L, X)>>}

Root == {is \o ds : is \in {<<>>} \cup {<<i>> : i \in OfRoot} \cup {<<i, j>> : i, j \in OfRoot},
                    ds \in {<<>>, <<Fn(X)>>, <<Type(Y), Fn(Y)>>}}
InA  == {is \o ds : is \in OfA, ds \in {<<Fn(X)>>, <<Type(X), Method(Y)>>}}
InB  == {is \o ds : is \in OfB, ds \in {<<>>, <<Fn(X)>>, <<Fn(Y)>>}}
InSub == <<Glob("b"), Fn(Y)>>

(* With all of the files, and with a.of or everything but the root gone.         *)
SomeDisks ==
  {[q \in {"main.of", "a.of", "b.of", "sub/a.of", "sub/b.of"} |->
      CASE q = "main.of" -> r [] q = "a.of" -> a [] q = "b.of" -> b
        [] q = "sub/a.of" -> InSub [] OTHER -> <<Fn(Y)>>] :
     r \in Root, a \in InA, b \in InB}
    \cup {[q \in {"main.of"} |-> r] : r \in Root}
    \cup {[q \in {"main.of", "b.of"} |-> IF q = "b.of" THEN b ELSE r] : r \in Root, b \in InB}
===============================================================================
