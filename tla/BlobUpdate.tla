----------------------------- MODULE BlobUpdate -----------------------------
(***************************************************************************)
(* The updates that change a document: BlobObj.applyUpdate and _traverse.  *)
(*                                                                         *)
(* A pointer is the sequence of its parts, already split and unescaped.    *)
(* An update is [op, path, args]; what it returns says whether it threw    *)
(* (ok = FALSE), and holds the changes made before it did.                 *)
(***************************************************************************)
EXTENDS BlobDoc

\* What set and unshift put in the place of a part that is missing.
Made(context, part, op) ==
  IF ~IsObj(context) \/ Child(context, part) # Undefined THEN context
  ELSE CASE op = "set"     -> With(context, part, Obj(<<>>))
         [] op = "unshift" -> With(context, part, Arr(<<>>))
         [] OTHER          -> context

\* The parts that a loop over the names of an object or an array finds.
Parts(d) ==
  IF IsObj(d) THEN d[2]
  ELSE [part \in {ToString(i - 1) : i \in DOMAIN d[2]} |-> Child(d, part)]

\* extend(true, target, source): what has the same kind on both sides is merged,
\* the rest replaced.  Names of an array that are no index are not in its JSON.
RECURSIVE Merged(_, _)
Merged(target, source) ==
  LET old == Parts(target)
      new == Parts(source)
      Both(k) == /\ k \in DOMAIN old
                 /\ \/ IsObj(old[k]) /\ IsObj(new[k])
                    \/ IsArr(old[k]) /\ IsArr(new[k])
      all == [k \in DOMAIN new |->
                IF Both(k) THEN Merged(old[k], new[k]) ELSE new[k]] @@ old
      last == Len(target[2]) + Cardinality(DOMAIN new)
  IN IF IsObj(target) THEN Obj(all)
     ELSE Arr([i \in 1..Cardinality({j \in 1..last : ToString(j - 1) \in DOMAIN all}) |->
                 all[ToString(i - 1)]])

-----------------------------------------------------------------------------
(* The updates.                                                            *)

Matches(d, field, wanted) ==
  IsObj(d) /\ Child(d, field) = wanted

RECURSIVE Traverse(_, _, _, _)

\* forEach: the length is taken first, the elements as they come; an element
\* removed by a subcommand moves the next one into the place just visited.
Filtered(list, args) ==
  LET Sub(i, acc, u) ==
        IF acc.ok
        THEN Traverse(acc.doc, <<ToString(i)>> \o u.path, u.op, u.args)
        ELSE acc
      Visit(acc, i) ==
        IF acc.ok /\ i < Len(acc.doc[2])
             /\ Matches(acc.doc[2][i + 1], args.field, args.value)
        THEN FoldLeft(LAMBDA x, u : Sub(i, x, u), acc, args.subs) ELSE acc
  IN FoldLeft(Visit, Done(list), [n \in 1..Len(list[2]) |-> n - 1])

\* The last part of the pointer.
Changed(context, part, op, args) ==
  LET old == Child(context, part) IN
  CASE op = "set"     -> Done(With(context, part, args))
    [] op = "unset"   -> Done(Without(context, part))
    [] op = "extend"  -> IF IsObj(old) \/ IsArr(old)
                         THEN Done(With(context, part, Merged(old, args)))
                         ELSE Thrown(context)
    [] op = "unshift" -> IF old = Undefined THEN Done(With(context, part, Arr(<<args>>)))
                         ELSE IF IsArr(old)
                         THEN Done(With(context, part, Arr(<<args>> \o old[2])))
                         ELSE Thrown(context)
    [] op = "filter"  -> IF IsArr(old)
                         THEN LET r == Filtered(old, args)
                              IN [r EXCEPT !.doc = With(context, part, r.doc)]
                         ELSE Done(context)
    [] OTHER          -> Thrown(context)

Traverse(context, path, op, args) ==
  LET part == Head(path)
      made == Made(context, part, op)
      gone == Child(made, part) = Undefined
  IN IF ~IsObj(context) /\ ~IsArr(context) THEN Done(context)
     ELSE IF gone /\ (IsObj(context) \/ Len(path) > 1) THEN Done(context)
     ELSE IF Len(path) > 1
     THEN LET r == Traverse(Child(made, part), Tail(path), op, args)
          IN [r EXCEPT !.doc = With(made, part, r.doc)]
     ELSE Changed(made, part, op, args)

ApplyUpdate(d, u) == Traverse(d, u.path, u.op, u.args)
=============================================================================
