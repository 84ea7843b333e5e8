------------------------------- MODULE Compile -------------------------------
(***************************************************************************)
(* From an accepted program to what its code does: the validator (Checker), the lowering      *)
(* (Lowering) and the compiled code (Machine) in a row, against the meaning of the program      *)
(* (Meaning). The order in which instances are lowered is module Mono's.                   *)
(***************************************************************************)
EXTENDS Lowering, Machine, Meaning

CONSTANT Programs     (* name -> functions, as the parser gives them                       *)

VARIABLES picked, hir, pending

vars == <<picked, hir, pending, machine>>

Init ==
  /\ picked \in DOMAIN Programs
  /\ hir = <<>> /\ pending = {}
  /\ code = <<>> /\ frames = <<>> /\ heap = <<>> /\ halt = <<"no">>

Validate ==
  /\ hir = <<>>
  /\ hir' = Checked(Programs[picked])
  /\ IF Accepted(hir') THEN pending' = {<<"main", <<>>>>} /\ UNCHANGED halt
                       ELSE halt' = <<"refused">> /\ UNCHANGED pending
  /\ UNCHANGED <<picked, code, frames, heap>>

LowerInstance ==
  /\ pending # {}
  /\ LET inst == CHOOSE i \in pending : TRUE
         fn   == lower_function(hir, inst)
     IN  /\ code' = (inst :> fn) @@ code
         /\ pending' = (pending \cup Mentions(fn)) \ DOMAIN code'
  /\ UNCHANGED <<picked, hir, frames, heap, halt>>

Generate ==
  /\ code # <<>> /\ pending = {} /\ frames = <<>> /\ halt = <<"no">>
  /\ IF \A inst \in DOMAIN code : ~code[inst].panic /\ Compiles(code[inst])
     THEN LET in == Entered(<<"main", <<>>>>, <<>>, 0) IN
          frames' = <<in.frame>> /\ heap' = in.heap /\ UNCHANGED halt
     ELSE halt' = <<"crashed">> /\ UNCHANGED <<frames, heap>>
  /\ UNCHANGED <<picked, hir, pending, code>>

Execute == Step /\ UNCHANGED <<picked, hir, pending>>

Next == Validate \/ LowerInstance \/ Generate \/ Execute
Spec == Init /\ [][Next]_vars

-----------------------------------------------------------------------------
(* What the validator lets through and the rest of the compiler cannot do, or does otherwise.   *)
AllNodes == UNION {Nodes(hir[f].body) : f \in DOMAIN hir}
OfKind(kinds) == {n \in AllNodes : n.kind \in kinds}
Inside(n)     == UNION {Nodes(n.parts[k]) : k \in DOMAIN n.parts}

(* `is` and `as` take a union to one of its variants, a value to a union with it, or an integer  *)
(* to an integer; other conversions are accepted and panic in lower_as or lower_is.          *)
IsInt(t) == is_numeric(t)
CastsMakeSense ==
  \A n \in OfKind({"As", "Is"}) :
    LET src == n.parts[1].ty IN
    \/ IsUnion(src) /\ n.of \in ToSet(src[2])
    \/ n.kind = "As" /\ (IsInt(src) \/ src = Bool) /\ IsInt(n.of)
    \/ n.kind = "As" /\ types_compatible_in(src, n.of)

(* An arm of an if is not of a smaller union than the if (union_tag_for panics).             *)
ArmsFit ==
  \A n \in OfKind({"If"}) : \A k \in 2..Len(n.parts) : n.parts[k].of => types_compatible_in(n.parts[k].ty, n.ty)

(* Two tagged unions are not compared (operand_prim panics).                             *)
Comparable ==
  \A n \in OfKind({"Binary"}) :
    LET t == n.parts[1].ty IN t # Null /\ (IsUnion(t) => try_nullable_ref(t[2]) # "none")

(* A value of type null is written `null`: others have no register (use_operand panics).        *)
TailOf(block) == IF block.of THEN {Last(block.parts)} ELSE {}
UsedIn(n) == CASE n.kind \in {"Binary", "Unary", "Call", "StructInit", "Member", "As", "Is", "VarDecl", "AssignVar",
                              "AssignField", "Return"} -> ToSet(n.parts)
               [] n.kind = "If" /\ n.ty # Null -> UNION {TailOf(n.parts[k]) : k \in 2..Len(n.parts)}
               [] OTHER -> {}
NullIsLiteral == \A n \in AllNodes : \A v \in UsedIn(n) : v.ty = Null => v.kind = "Literal"

(* The validator does not look at the type of a body's last expression.                     *)
TailFits == \A f \in DOMAIN hir : hir[f].ret # Null => hir[f].body.of /\ types_compatible_in(hir[f].body.ty, hir[f].ret)

(* A type argument that is a union makes unions of unions.                               *)
TypeArgsAreValues == \A n \in OfKind({"Call"}) : \A k \in DOMAIN n.of[2] : ~IsUnion(n.of[2][k]) /\ n.of[2][k] # Null

(* An operand that is a variable is read when all operands have been evaluated.               *)
OperandsAssignNothing ==
  \A n \in OfKind({"Binary", "Call", "StructInit", "AssignField"}) : \A k \in DOMAIN n.parts :
    \A m \in Nodes(n.parts[k]) : m.kind # "AssignVar"

(* A union parameter is the caller's variable.                                         *)
UnionParamsAreRead ==
  \A f \in DOMAIN hir : \A m \in Nodes(hir[f].body) : m.kind = "AssignVar" =>
    \A k \in DOMAIN hir[f].params : ~(hir[f].params[k][1] = m.of /\ IsUnion(m.ty))

(* In a loop, what is not assigned keeps the value of the round before.                     *)
LoopsAssign ==
  \A w \in OfKind({"While"}) : \A n \in Inside(w) :
    /\ n.kind = "VarDecl" => n.parts # <<>>
    /\ n.kind = "If" /\ n.ty # Null => Len(n.parts) = 3 /\ n.parts[2].of /\ n.parts[3].of

Compilable  == CastsMakeSense /\ ArmsFit /\ Comparable /\ NullIsLiteral /\ TailFits /\ TypeArgsAreValues
Disciplined == Compilable /\ OperandsAssignNothing /\ UnionParamsAreRead /\ LoopsAssign

-----------------------------------------------------------------------------
(* A program that the validator accepts compiles, but for the conversions, comparisons and     *)
(* results named above: lowering and codegen never meet a type they did not expect.           *)
AcceptedCompiles == halt = <<"crashed">> => ~Compilable

RECURSIVE Observed(_, _)
ObservedField(w, s, k) == With(lower_field(FieldMir(s, k), w, s, k), LAMBDA v : Observed(v, Structs[s][k][2]))
ObservedUnion(w, t, m) ==
  With(CHOOSE v \in ToSet(t[2]) : union_tag_for(t[2], v) = Load(w, 0)[2], LAMBDA v :
    Observed(ireduce(clif_type(lower_concrete_type(v)), Load(w, 1)), v))
Observed(w, t) ==
  CASE t = Bool              -> <<t, w[2] = 1>>
    [] IsPrim(t) /\ t # Bool -> <<t, NumberOf(t[2], w)>>
    [] t = Null              -> NoValue
    [] t[1] = "Struct"       -> <<t, [x \in {f[1] : f \in ToSet(Structs[t[2]])} |-> ObservedField(w, t[2], FieldIndex(t[2], x))]>>
    [] IsUnion(t)            -> With(lower_concrete_type(t), LAMBDA m :
                                  IF IsTagged(m) THEN ObservedUnion(w, t, m)
                                  ELSE IF w = Zero THEN NoValue ELSE Observed(w, Struct(m[2])))

(* What the code leaves in memory, traps included, is what the program means.                 *)
SameMeaning ==
  halt[1] \in {"done", "trap"} /\ Disciplined =>
    MeaningOf(hir) = IF halt[1] = "trap" THEN halt ELSE <<"done", Observed(halt[2], hir["main"].ret)>>

(* The union registers of a frame that have a block of their own.                          *)
Owned(f) == {l \in DOMAIN f.regs : l > code[f.fn].arity /\ IsTagged(code[f.fn].locals[l])}
BlockOf(h, f, l) == <<h[f.regs[l][2]][f.regs[l][3]], h[f.regs[l][2]][f.regs[l][3] + 1]>>
Unassigned == <<Zero, Zero>>

(* Whenever a union can be read, its payload is a value of the variant that its tag names:      *)
(* within the range of an integer type, or the address of an object.                       *)
Carries(block, t) ==
  LET tag == block[1][2] IN
  \E v \in ToSet(t[2]) :
    /\ union_tag_for(t[2], v) = tag
    /\ CASE v = Null  -> TRUE
         [] IsPrim(v) -> block[2][1] # "ptr" /\ NumberOf(v[2], ireduce(prim_clif(v[2]), block[2])) = Signed(block[2])
         [] OTHER     -> block[2][1] = "ptr"
TagsTellPayloads ==
  Compilable => \A k \in DOMAIN frames : \A l \in DOMAIN frames[k].regs :
    LET m == code[frames[k].fn].locals[l]
        block == BlockOf(heap, frames[k], l)
    IN  IsTagged(m) => block = Unassigned \/ Carries(block, m)

(* The block of a union local is nobody else's, and inside no object.                       *)
OneOwner ==
  \A j, k \in DOMAIN frames : \A l \in Owned(frames[j]), m \in Owned(frames[k]) :
    frames[j].regs[l] = frames[k].regs[m] => j = k /\ l = m

(* A function changes no union variable of its callers until it returns.                     *)
CallersUnionsStay ==
  [][UnionParamsAreRead => \A k \in DOMAIN frames : k < Len(frames) /\ k < Len(frames') =>
       \A l \in Owned(frames[k]) : BlockOf(heap', frames'[k], l) = BlockOf(heap, frames[k], l)]_vars
===============================================================================
