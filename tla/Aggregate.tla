----------------------------- MODULE Aggregate ------------------------------
(***************************************************************************)
(* Aggregate descriptions (dyncall_aggregate.c) and how closing one        *)
(* classifies its eightbytes for x64 System V (dyncall_aggregate_x64.c).   *)
(* The caller describes structs, packed structs and unions field by field, *)
(* with the offsets and the size a C compiler gives them.                  *)
(*                                                                         *)
(* A field holds the nested description itself here, a pointer to it in    *)
(* the code: the caller frees one only when no other refers to it.         *)
(***************************************************************************)
EXTENDS Integers, Sequences, FiniteSets, SequencesExt

CONSTANTS
  ScalarTypes,  \* signature characters of the scalar fields in use
  ArrayLens,    \* array_len values in use
  MaxFields,    \* bound: fields of one description (maxFieldCount)
  MaxClosed,    \* bound: closed descriptions alive
  MaxSize       \* bound: size of a description, in bytes

VARIABLES
  closed,  \* closed descriptions
  open     \* the description under construction, or NoAggr

vars == <<closed, open>>

NoAggr  == [n |-> 0]
Layouts == {"struct", "packed", "union"}

-----------------------------------------------------------------------------
(* Fields.                                                                 *)

ScalarSize(type) ==
  CASE type \in {"B", "i", "I", "f"} -> 4
    [] type \in {"c", "C"} -> 1
    [] type \in {"s", "S"} -> 2
    [] type \in {"j", "J", "l", "L", "d", "p", "Z"} -> 8

ScalarClass(type) == IF type \in {"f", "d"} THEN "SSE" ELSE "INTEGER"

(* A field aligns like its type, a nested aggregate like its widest field. *)
Scalar(type, offset, len) ==
  [type |-> type, offset |-> offset, size |-> ScalarSize(type),
   alignment |-> ScalarSize(type), arrayLen |-> len, sub |-> NoAggr]

Nested(ag, offset, len) ==
  [type |-> "A", offset |-> offset, size |-> ag.size,
   alignment |-> ag.alignment, arrayLen |-> len, sub |-> ag]

FieldEnd(f) == f.offset + f.size * f.arrayLen

MaxOf(a, b) == IF a > b THEN a ELSE b
AlignUp(n, a) == IF a = 0 THEN n ELSE ((n + a - 1) \div a) * a

(* The compiler's layout: where the next field goes, how large the whole. *)
OffsetIn(ag, alignment) ==
  CASE ag.layout = "union"  -> 0
    [] ag.layout = "packed" -> ag.end
    [] ag.layout = "struct" -> AlignUp(ag.end, alignment)

SizeOf(ag) == IF ag.layout = "packed" THEN ag.end ELSE AlignUp(ag.end, ag.alignment)

-----------------------------------------------------------------------------
(* Classification.                                                         *)

(* Mutant: the class of the last field wins. *)
merge_last(clz, new) == IF new = "NONE" THEN clz ELSE new

dc_merge_sysv_classes(clz, new) ==
  IF clz = "NONE" THEN new
  ELSE IF new = "NONE" THEN clz
  ELSE IF "MEMORY" \in {clz, new} THEN "MEMORY"
  ELSE IF "INTEGER" \in {clz, new} THEN "INTEGER"
  ELSE "SSE"

(* The int in which an element's offset is kept wraps at 2^32, where the   *)
(* elements of an array begin this much further on than without a wrap.    *)
Wraps(size) == (-(65536 % size) * (65536 % size)) % size

(* Where the elements begin that the code looks at, of an array at offset  *)
(* that reaches into the eightbyte at q.  (qword_offset - offset) / f->size *)
(* is a division of unsigned 64-bit numbers cut to the int j.  An array at *)
(* or in front of q is walked from the element there.  Of one behind q the *)
(* division is of a number near 2^64: for the sizes whose j is positive    *)
(* the loop ends before it begins; for the others it begins far in front,  *)
(* and what lies at q then are elements as well as places where none is,   *)
(* once for every wrap.  (No array of aggregates larger than an eightbyte, *)
(* powers of two, is behind q in an aggregate of sixteen bytes.)           *)
ElementsAt(offset, size, len, q) ==
  LET first == (q - offset) \div size IN
    IF offset <= q
    THEN {offset + size * j : j \in first .. (IF first + 8 \div size < len
                                              THEN first + 8 \div size ELSE len - 1)}
    ELSE IF 2 * Wraps(size) >= size THEN {}
    ELSE {at \in q - size + 1 .. q + 7 :
            \E w \in 0 .. Wraps(size) :
              /\ (at - offset + w * Wraps(size)) % size = 0
              /\ w = 0 => at < offset + size * len}

(* Mutant: the next eightbyte's first field is taken for part of this one. *)
OutsideLate(offset, length, q) == offset < 0 \/ offset > q + 8 \/ offset + length <= q

(* Offsets are unsigned: what lies before the aggregate is far behind it. *)
Outside(offset, length, q) == offset < 0 \/ offset >= q + 8 \/ offset + length <= q

RECURSIVE dc_get_sysv_class_for_8byte(_, _, _)
dc_get_sysv_class_for_8byte(ag, index, base) ==
  LET q == index * 8
      FieldClass(f) ==
        LET offset == base + f.offset IN
          IF Outside(offset, f.size * f.arrayLen, q) THEN "NONE"
          ELSE IF f.alignment # 0 /\ offset % f.alignment # 0 THEN "MEMORY"
          ELSE IF f.type # "A" THEN ScalarClass(f.type)
          ELSE IF f.size = 0 THEN "NONE"
          ELSE FoldLeft(dc_merge_sysv_classes, "NONE",
                 SetToSeq({dc_get_sysv_class_for_8byte(f.sub, index, at) :
                           at \in ElementsAt(offset, f.size, f.arrayLen, q)})) IN
    FoldLeft(dc_merge_sysv_classes, "NONE",
             [n \in 1 .. Len(ag.fields) |-> FieldClass(ag.fields[n])])

(* The classes up to the first NONE, as every user of them reads them. *)
dc_get_sysv_classes_for_aggr(ag) ==
  LET one == dc_get_sysv_class_for_8byte(ag, 0, 0)
      two == dc_get_sysv_class_for_8byte(ag, 1, 0) IN
    IF ag.size > 16 \/ "MEMORY" \in {one, two} THEN <<"MEMORY">>
    ELSE IF one = "NONE" THEN <<>>
    ELSE IF two = "NONE" THEN <<one>>
    ELSE <<one, two>>

-----------------------------------------------------------------------------
(* The operations.                                                         *)

Opened == open # NoAggr

dcNewAggr(layout) ==
  /\ ~Opened /\ Cardinality(closed) < MaxClosed
  /\ open' = [n |-> MaxFields, layout |-> layout, end |-> 0,
              alignment |-> 0, fields |-> <<>>]
  /\ UNCHANGED closed

(* Mutant: the description ends where its last field does. *)
AddFieldLastEnd(f) ==
  /\ Opened /\ Len(open.fields) < open.n
  /\ FieldEnd(f) <= MaxSize
  /\ open' = [open EXCEPT !.fields = Append(@, f), !.end = FieldEnd(f),
                          !.alignment = MaxOf(@, f.alignment)]
  /\ UNCHANGED closed

(* The contract bounds the fields by maxFieldCount; the code does not. *)
AddField(f) ==
  /\ Opened /\ Len(open.fields) < open.n
  /\ FieldEnd(f) <= MaxSize
  /\ open' = [open EXCEPT !.fields = Append(@, f),
                          !.end = MaxOf(@, FieldEnd(f)),
                          !.alignment = MaxOf(@, f.alignment)]
  /\ UNCHANGED closed

dcAggrField(type, len) ==
  Opened /\ AddField(Scalar(type, OffsetIn(open, ScalarSize(type)), len))

dcAggrFieldAggr(ag, len) ==
  Opened /\ AddField(Nested(ag, OffsetIn(open, ag.alignment), len))

dcCloseAggr ==
  /\ Opened
  /\ LET ag == [size |-> SizeOf(open), alignment |-> open.alignment,
                fields |-> open.fields] IN
       closed' = closed \cup
         {[size |-> ag.size, alignment |-> ag.alignment, fields |-> ag.fields,
           sysv_classes |-> dc_get_sysv_classes_for_aggr(ag)]}
  /\ open' = NoAggr

dcFreeAggr(ag) ==
  /\ ~Opened
  /\ \A other \in closed : \A n \in DOMAIN other.fields : other.fields[n].sub # ag
  /\ closed' = closed \ {ag}
  /\ UNCHANGED open

Init == closed = {} /\ open = NoAggr

Next ==
  \/ \E layout \in Layouts : dcNewAggr(layout)
  \/ \E type \in ScalarTypes, len \in ArrayLens : dcAggrField(type, len)
  \/ \E ag \in closed, len \in ArrayLens : dcAggrFieldAggr(ag, len)
  \/ dcCloseAggr
  \/ \E ag \in closed : dcFreeAggr(ag)

Spec == Init /\ [][Next]_vars

-----------------------------------------------------------------------------
(* Properties.                                                             *)

(* The scalars of an aggregate at their final offsets, arrays and nested   *)
(* aggregates laid out flat.                                               *)
RECURSIVE Scalars(_, _)
Scalars(ag, base) ==
  UNION {LET f == ag.fields[n] IN
           UNION {LET at == base + f.offset + j * f.size IN
                    IF f.type = "A" THEN Scalars(f.sub, at)
                    ELSE {[at |-> at, size |-> f.size, clz |-> ScalarClass(f.type)]} :
                  j \in 0 .. f.arrayLen - 1} :
         n \in DOMAIN ag.fields}

(* The ABI's rule, on the flat layout: an eightbyte is INTEGER when any    *)
(* scalar in it is, and an aggregate that is larger than two eightbytes or *)
(* has an unaligned scalar is passed in memory.                            *)
ClassOf(scalars, q) ==
  LET in == {s \in scalars : s.at < q + 8 /\ s.at + s.size > q} IN
    IF in = {} THEN "NONE"
    ELSE IF \E s \in in : s.clz = "INTEGER" THEN "INTEGER" ELSE "SSE"

ABIClasses(ag) ==
  LET scalars == Scalars(ag, 0) IN
    IF ag.size > 16 \/ \E s \in scalars : s.at % s.size # 0 THEN <<"MEMORY">>
    ELSE SelectSeq(<<ClassOf(scalars, 0), ClassOf(scalars, 8)>>, LAMBDA c : c # "NONE")

(* Every nested aggregate begins where an eightbyte does. *)
RECURSIVE NestedOnEightbytes(_, _)
NestedOnEightbytes(ag, base) ==
  \A n \in DOMAIN ag.fields :
    LET f == ag.fields[n] IN
      f.type = "A" =>
        /\ (base + f.offset) % 8 = 0
        /\ \A j \in 0 .. f.arrayLen - 1 :
             NestedOnEightbytes(f.sub, base + f.offset + j * f.size)

(* Descriptions are what their fields add up to. *)
TypeOK ==
  /\ Cardinality(closed) <= MaxClosed
  /\ \A ag \in closed :
       /\ ag.size \in 0 .. MaxSize /\ ag.alignment \in {0, 1, 2, 4, 8}
       /\ Len(ag.fields) <= MaxFields
       /\ \A n \in DOMAIN ag.fields : FieldEnd(ag.fields[n]) <= ag.size

(* Closing a description gives each eightbyte the class a C compiler gives *)
(* it (dc_get_sysv_class_for_8byte), or calls would look for the argument  *)
(* in other registers than the target does.                                *)
ClassifiedAsABI == \A ag \in closed : ag.sysv_classes = ABIClasses(ag)

(* That much is so of aggregates that nest others at eightbytes only. *)
ClassifiedAsABIOnEightbytes ==
  \A ag \in closed : NestedOnEightbytes(ag, 0) => ag.sysv_classes = ABIClasses(ag)
=============================================================================
