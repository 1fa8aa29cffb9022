------------------------------ MODULE BlobDoc ------------------------------
(***************************************************************************)
(* The document a BlobObj holds (blob.data), as BlobObj._traverse reads    *)
(* and changes one part of it.                                             *)
(*                                                                         *)
(* A value of the document is an object, an array or a scalar; scalars are *)
(* members of the constant Scalars.  The parts of an array are "-" or the  *)
(* decimal form of an index that is not beyond its end.                    *)
(***************************************************************************)
EXTENDS Integers, SequencesExt

CONSTANT Scalars

Obj(f) == <<"object", f>>
Arr(s) == <<"array", s>>
Undefined == <<"undefined">>

IsObj(d) == d \notin Scalars /\ d[1] = "object"
IsArr(d) == d \notin Scalars /\ d[1] = "array"

\* What an update returns: the document, and whether it was changed to the end.
Done(d) == [doc |-> d, ok |-> TRUE]
Thrown(d) == [doc |-> d, ok |-> FALSE]

-----------------------------------------------------------------------------
(* The part of a context.                                                  *)

\* `-' is the element after the last.
Index(s, part) ==
  IF part = "-" THEN Len(s) ELSE CHOOSE i \in 0..Len(s) : ToString(i) = part

Child(context, part) ==
  LET items == context[2] IN
  IF IsObj(context)
  THEN IF part \in DOMAIN items THEN items[part] ELSE Undefined
  ELSE IF Index(items, part) < Len(items)
       THEN items[Index(items, part) + 1] ELSE Undefined

With(context, part, d) ==
  LET items == context[2] IN
  IF IsObj(context) THEN Obj((part :> d) @@ items)
  ELSE IF Index(items, part) < Len(items)
       THEN Arr([items EXCEPT ![Index(items, part) + 1] = d])
       ELSE Arr(Append(items, d))

Without(context, part) ==
  LET items == context[2] IN
  IF IsObj(context) THEN Obj(Restrict(items, DOMAIN items \ {part}))
  ELSE IF Index(items, part) < Len(items)
       THEN Arr(RemoveAt(items, Index(items, part) + 1)) ELSE context
=============================================================================
