-------------------------------- MODULE Types --------------------------------
(***************************************************************************)
(* Types as the validator compares them (ResolvedType, hir.rs) and as the lowering     *)
(* and the code generator lay them out (MirType, mir.rs): when a value of one may go    *)
(* where another is expected, and which tag a variant has in its union.             *)
(*                                                                         *)
(* A struct is its name; interfaces, type arguments of structs and types of functions  *)
(* are left out, type parameters of functions are in.                            *)
(***************************************************************************)
EXTENDS Integers, SequencesExt

CONSTANTS Structs,      (* struct -> its fields, a sequence of <<name, type>>           *)
          NameOrder     (* the structs in the order of their full names               *)

(* F of v, which is evaluated once.                                                *)
With(v, F(_)) == CHOOSE r \in {F(x) : x \in {v}} : TRUE

Prim(p)    == <<"Prim", p>>
Struct(s)  == <<"Struct", s>>
Param(x)   == <<"Param", x>>
Null       == <<"Null">>
Union(ts)  == <<"Union", ts>>
Bool       == Prim("bool")
I64        == Prim("i64")
IsUnion(t) == t[1] = "Union"
IsPrim(t)  == t[1] = "Prim"

IntPrims      == {"i8", "u8", "i64"}
is_numeric(t) == IsPrim(t) /\ t[2] \in IntPrims

(* What each of them holds, scaled down: a byte has 2 bits, a word 3.                       *)
Values(p) == CASE p = "i8" -> -2..1 [] p = "u8" -> 0..3 [] p = "i64" -> -4..3

RECURSIVE substitute(_, _)
substitute(t, subst) ==
  CASE t[1] = "Param" -> IF t[2] \in DOMAIN subst THEN subst[t[2]] ELSE t
    [] t[1] = "Union" -> Union([k \in DOMAIN t[2] |-> substitute(t[2][k], subst)])
    [] OTHER          -> t

Flat(t) == IF IsUnion(t) THEN t[2] ELSE <<t>>

(* Fault: a union of fewer types may go where a larger one is expected.                  *)
SubsetIsCompatible(actual, expected) ==
  actual = expected \/ (IsUnion(expected) /\ ToSet(Flat(actual)) \subseteq ToSet(expected[2]))

types_compatible_in(actual, expected) ==
  \/ actual = expected
  \/ /\ IsUnion(expected)
     /\ IF IsUnion(actual) THEN ToSet(actual[2]) = ToSet(expected[2]) ELSE actual \in ToSet(expected[2])

unify_branch_types(a, b) ==
  LET vs == FoldLeft(LAMBDA out, t : IF Contains(out, t) THEN out ELSE Append(out, t), <<>>, Flat(a) \o Flat(b))
  IN  IF a = b THEN a ELSE IF Len(vs) = 1 THEN vs[1] ELSE Union(vs)

-----------------------------------------------------------------------------
(* The order of variants: by name_type, capitals before the module of a struct's name. *)
TypeOrder == <<"bool", "i64", "i8", "Null", "u8", "Union">> \o NameOrder
name_type(t) == SelectInSeq(TypeOrder, LAMBDA key : key = IF t[1] \in {"Null", "Union"} THEN t[1] ELSE t[2])
sort_union_variants(vs) == SortSeq(vs, LAMBDA s, t : name_type(s) < name_type(t))

NULL_TAG == 0
Absent   == -1       (* stands for a panic *)
NonNull(vs) == SelectSeq(vs, LAMBDA t : t # Null)

(* The tag of a variant looked up by its type, as coerce_to does...                  *)
union_tag_for(vs, v) ==
  CASE v = Null              -> NULL_TAG
    [] v # Null /\ v \in ToSet(vs) -> SelectInSeq(NonNull(sort_union_variants(vs)), LAMBDA t : t = v)
    [] OTHER                 -> Absent

-----------------------------------------------------------------------------
(* Representation: <<"Prim", p>>, <<"Ref", s>>, <<"Nullable", s>>, <<"Unit">>, or             *)
(* <<"Tagged", sorted variants>>: 16 bytes, a tag and a payload.                       *)
try_nullable_ref(vs) ==
  IF Len(vs) = 2 /\ Contains(vs, Null) /\ NonNull(vs) # <<>> /\ NonNull(vs)[1][1] = "Struct"
  THEN NonNull(vs)[1][2] ELSE "none"

lower_concrete_type(t) ==
  CASE IsPrim(t)        -> t
    [] t[1] = "Struct"  -> <<"Ref", t[2]>>
    [] t = Null         -> <<"Unit">>
    [] IsUnion(t)       -> LET s == try_nullable_ref(t[2]) IN
                           IF s # "none" THEN <<"Nullable", s>> ELSE <<"Tagged", sort_union_variants(t[2])>>

IsTagged(m) == m[1] = "Tagged"
IsRef(m)    == m[1] \in {"Ref", "Nullable"}

(* ... and as the table of the union gives it to a type already lowered, as `is` and `as` ask.  *)
build_union_variants(m) ==
  [k \in DOMAIN m[2] |->
    [tag |-> IF m[2][k] = Null THEN NULL_TAG ELSE Len(NonNull(SubSeq(m[2], 1, k))),
     ty  |-> lower_concrete_type(m[2][k])]]
tag_of_variant_mir(m, ty) ==
  LET k == SelectInSeq(build_union_variants(m), LAMBDA v : v.ty = ty) IN
  IF k = 0 THEN Absent ELSE build_union_variants(m)[k].tag
===============================================================================
