---------------------------- MODULE RuntimeNodes ----------------------------
(***************************************************************************)
(* Two nodes of the node runtime that decide where data goes, the IF node  *)
(* and the merge node. One behaviour is one execution of a node.           *)
(***************************************************************************)
EXTENDS Naturals, Sequences, SequencesExt

(***************************************************************************)
(* The IF node of the node runtime (nodes/if_node.go): conditions on the   *)
(* fields of an item, combined by "and" or "or", send the item to the      *)
(* output "true" or "false". A value carries its Go kind, the text "%v"    *)
(* prints for it (as a sequence of symbols), the number toNumber makes of  *)
(* it, and for arrays and objects what they hold; equality and membership  *)
(* work on the text, the order on the number. One behaviour is one         *)
(* execution of the node, IfInit chooses its configuration and its item.   *)
(***************************************************************************)

CONSTANTS Items,       \* the items that arrive
          Conditions,  \* [field, operator, value] in use
          CommaParts(_),        \* strings.Split and TrimSpace of a text
          RegexMatches(_, _),   \* whether a text matches a pattern
          Nil,                  \* Go's nil
          NaN                   \* the number strconv.ParseFloat makes of "NaN"

VARIABLES ifNode

ifVars == <<ifNode>>

RECURSIVE getFieldValue(_, _)

(* Down the path as long as there are objects; a missing field is nil. *)
getFieldValue(v, path) ==
    IF path = << >> THEN v
    ELSE IF v = Nil \/ v.kind # "map" THEN Nil
    ELSE IF Head(path) \notin DOMAIN v.fields THEN Nil
    ELSE getFieldValue(v.fields[Head(path)], Tail(path))

(* fmt.Sprintf("%v", v) *)
Sprint(v) == IF v = Nil THEN <<"<nil>">> ELSE v.text

toNumber(v) ==
    IF v = Nil \/ v.kind \notin {"float64", "int", "string"} THEN 0 ELSE v.number

toBool(v) ==
    /\ v # Nil
    /\ v.kind = "bool" => v.text = <<"true">>
    /\ v.kind = "string" => v.text \notin {<< >>, <<"false">>, <<"0">>}
    /\ v.kind \in {"float64", "int"} => v.number # 0

isEmpty(v) ==
    \/ v = Nil
    \/ v.kind = "string" /\ v.text = << >>
    \/ v.kind = "array" /\ v.elements = << >>
    \/ v.kind = "map" /\ DOMAIN v.fields = {}

compareEqual(a, b) ==
    \/ a = Nil /\ b = Nil
    \/ a # Nil /\ b # Nil /\ Sprint(a) = Sprint(b)

compareContains(a, b) ==
    \E i \in 0..Len(Sprint(a)) :
      IsPrefix(Sprint(b), SubSeq(Sprint(a), i + 1, Len(Sprint(a))))
compareStartsWith(a, b) == IsPrefix(Sprint(b), Sprint(a))
compareEndsWith(a, b) == IsSuffix(Sprint(b), Sprint(a))

(* The order of float64: nothing is less or greater than NaN. *)
compareLess(a, b) ==
    LET x == toNumber(a)  y == toNumber(b) IN x # NaN /\ y # NaN /\ x < y

compareGreater_OrSame(a, b) == ~compareLess(a, b)

compareGreater(a, b) == compareLess(b, a)

(* A slice by its elements' texts, a string by its comma-separated parts.  *)
isIn(v, list) ==
    /\ list # Nil
    /\ \/ list.kind = "array"
          /\ \E i \in DOMAIN list.elements : Sprint(list.elements[i]) = Sprint(v)
       \/ list.kind = "string" /\ Sprint(v) \in CommaParts(list.text)

evaluateCondition(v, operator, value) ==
    CASE operator = "equals" -> compareEqual(v, value)
      [] operator = "notEquals" -> ~compareEqual(v, value)
      [] operator = "contains" -> compareContains(v, value)
      [] operator = "notContains" -> ~compareContains(v, value)
      [] operator = "startsWith" -> compareStartsWith(v, value)
      [] operator = "endsWith" -> compareEndsWith(v, value)
      [] operator = "greaterThan" -> compareGreater(v, value)
      [] operator = "greaterThanOrEqual" -> compareGreater(v, value) \/ compareEqual(v, value)
      [] operator = "lessThan" -> compareLess(v, value)
      [] operator = "lessThanOrEqual" -> compareLess(v, value) \/ compareEqual(v, value)
      [] operator = "isEmpty" -> isEmpty(v)
      [] operator = "isNotEmpty" -> ~isEmpty(v)
      [] operator = "isNull" -> v = Nil
      [] operator = "isNotNull" -> v # Nil
      [] operator = "isTrue" -> toBool(v)
      [] operator = "isFalse" -> ~toBool(v)
      [] operator = "regex" -> RegexMatches(Sprint(v), Sprint(value))
      [] operator = "in" -> isIn(v, value)
      [] operator = "notIn" -> ~isIn(v, value)
      [] OTHER -> FALSE

(* No condition at all lets every item through. *)
evaluateConditions(conditions, item, combine) ==
    LET holds(i) == evaluateCondition(getFieldValue(item, conditions[i].field),
                                      conditions[i].operator, conditions[i].value)
    IN \/ conditions = << >>
       \/ combine = "or" /\ \E i \in DOMAIN conditions : holds(i)
       \/ combine # "or" /\ \A i \in DOMAIN conditions : holds(i)

ExecuteIf ==
    /\ ifNode.output = "none"
    /\ ifNode' = [ifNode EXCEPT !.output =
                    IF evaluateConditions(ifNode.conditions, ifNode.item, ifNode.combine)
                    THEN "true" ELSE "false"]

(* Two conditions at most. *)
IfInit == ifNode \in [item : Items, combine : {"and", "or"}, output : {"none"},
                    conditions : {<< >>} \cup {<<c>> : c \in Conditions}
                                 \cup (Conditions \X Conditions)]

IfNext == ExecuteIf

IfSpec == IfInit /\ [][IfNext]_ifVars

------------------------------------------------------------------------
Opposite ==
    LET pairs == {<<"equals", "notEquals">>, <<"contains", "notContains">>,
                  <<"isEmpty", "isNotEmpty">>, <<"isNull", "isNotNull">>,
                  <<"isTrue", "isFalse">>, <<"in", "notIn">>,
                  <<"greaterThan", "lessThanOrEqual">>,
                  <<"lessThan", "greaterThanOrEqual">>}
        both == pairs \cup {<<p[2], p[1]>> : p \in pairs}
    IN [o \in {p[1] : p \in both} |-> (CHOOSE p \in both : p[1] = o)[2]]

Comparisons == {"greaterThan", "greaterThanOrEqual", "lessThan", "lessThanOrEqual"}

(* Numbers of which neither is less than the other and that do not look    *)
(* the same: 1 and "1.0", 0 and a missing field, NaN and any other.        *)
LooksDifferent(c, item) ==
    LET v == getFieldValue(item, c.field) IN
    /\ c.operator \in Comparisons
    /\ ~compareLess(v, c.value) /\ ~compareGreater(v, c.value)
    /\ ~compareEqual(v, c.value)

Turned(cs) ==
    [i \in DOMAIN cs |-> [cs[i] EXCEPT !.operator = Opposite[cs[i].operator]]]

(* A node and the node with every operator and the way of combining turned *)
(* round send every item to different outputs, unless an order operator    *)
(* meets equal numbers that print differently: < and > compare numbers and *)
(* the "or equal" part of <= and >= compares texts (if_node.go:201-208),   *)
(* so that neither x >= y nor x <= y holds.                                *)
OppositesRouteApart ==
    LET cs == ifNode.conditions
        dual == IF ifNode.combine = "or" THEN "and" ELSE "or"
    IN /\ ifNode.output # "none"
       /\ cs # << >>
       /\ \A i \in DOMAIN cs : cs[i].operator \in DOMAIN Opposite
       /\ ~\E i \in DOMAIN cs : LooksDifferent(cs[i], ifNode.item)
       => (ifNode.output = "true") # evaluateConditions(Turned(cs), ifNode.item, dual)
-----------------------------------------------------------------------------
(***************************************************************************)
(* The merge node of the node runtime (nodes/merge_node.go): eight ways to *)
(* join the data of two branches. An item is a function from field names   *)
(* to values; a value is a pair of its Go type and its content, so that    *)
(* what "%v" prints (the content) can be told from what is stored. One     *)
(* behaviour is one execution of the node: MergeInit chooses the           *)
(* configuration and the two inputs.                                       *)
(***************************************************************************)

CONSTANTS Inputs,     \* the data a branch can carry
          Modes,      \* the modes in use
          MergeKey,   \* the field merged on
          ScalarItem, \* an item that is not an object
          NoOutput

VARIABLES node

mergeVars == <<node>>

EmptyObject == [f \in {} |-> 0]
IsObject(item) == item # ScalarItem
AsObject(item) == IF IsObject(item) THEN item ELSE EmptyObject

(* An array, an object with an array "items", any other object, a scalar,  *)
(* or nothing.                                                             *)
toArray(input) ==
    CASE input.kind \in {"array", "items"} -> input.items
      [] input.kind \in {"object", "scalar"} -> <<input.items[1]>>
      [] input.kind = "nil" -> << >>

Objects(input) == SelectSeq(toArray(input), IsObject)

(* fmt.Sprintf("%v", m[key]): the content; a missing field prints <nil>.   *)
KeyOf(item) == IF MergeKey \in DOMAIN item THEN item[MergeKey][2] ELSE "<nil>"

RECURSIVE mergeObjects(_, _, _)

(* The fields of both; on a clash as configured, nested objects merged     *)
(* in their turn.                                                          *)
mergeObjects(m1, m2, clash) ==
    [f \in DOMAIN m1 \cup DOMAIN m2 |->
       IF f \notin DOMAIN m2 THEN m1[f]
       ELSE IF f \notin DOMAIN m1 THEN m2[f]
       ELSE IF clash = "preferInput1" THEN m1[f]
       ELSE IF clash = "merge" /\ m1[f][1] = "map" /\ m2[f][1] = "map"
       THEN <<"map", mergeObjects(m1[f][2], m2[f][2], clash)>>
       ELSE m2[f]]

appendItems(a, b) == toArray(a) \o toArray(b)

mergeByIndex(a, b, clash) ==
    LET arr1 == toArray(a)  arr2 == toArray(b)
        longer == IF Len(arr1) < Len(arr2) THEN Len(arr2) ELSE Len(arr1)
        item(arr, i) == IF i <= Len(arr) THEN AsObject(arr[i]) ELSE EmptyObject
    IN [i \in 1..longer |-> mergeObjects(item(arr1, i), item(arr2, i), clash)]

Keys(items) == {KeyOf(items[i]) : i \in DOMAIN items}

(* index1[keyVal] = m: the last item of a key stays. *)
IndexedBy(items, k) ==
    items[CHOOSE i \in DOMAIN items :
            /\ KeyOf(items[i]) = k
            /\ \A j \in DOMAIN items : KeyOf(items[j]) = k => j <= i]

Unseen_All(arr1, arr2) == << >>

(* What is left of the first input after the second has been merged in.    *)
Unseen(arr1, arr2) == SelectSeq(arr1, LAMBDA m : KeyOf(m) \notin Keys(arr2))

mergeByKey(a, b, clash) ==
    LET arr1 == Objects(a)  arr2 == Objects(b)
        merged(i) == IF KeyOf(arr2[i]) \in Keys(arr1)
                     THEN mergeObjects(IndexedBy(arr1, KeyOf(arr2[i])), arr2[i], clash)
                     ELSE arr2[i]
    IN [i \in DOMAIN arr2 |-> merged(i)] \o Unseen(arr1, arr2)

keepKeyMatches(a, b) ==
    SelectSeq(Objects(a), LAMBDA m : KeyOf(m) \in Keys(Objects(b)))

removeKeyMatches(a, b) ==
    SelectSeq(Objects(a), LAMBDA m : KeyOf(m) \notin Keys(Objects(b)))

(* All pairs; a field both have is kept twice, the second under a prefix.  *)
combined(m1, m2) ==
    LET clashing == DOMAIN m1 \cap DOMAIN m2
        fields == DOMAIN m1 \cup (DOMAIN m2 \ clashing)
                  \cup {"input2_" \o f : f \in clashing}
    IN [f \in fields |->
          IF f \in DOMAIN m1 THEN m1[f]
          ELSE IF f \in DOMAIN m2 THEN m2[f]
          ELSE m2[CHOOSE g \in clashing : "input2_" \o g = f]]

combineAll(a, b) ==
    LET arr1 == toArray(a)  arr2 == toArray(b)  n == Len(arr2) IN
    [i \in 1..(Len(arr1) * n) |->
       combined(AsObject(arr1[((i - 1) \div n) + 1]),
                AsObject(arr2[((i - 1) % n) + 1]))]

(* One run of the node; "chosen" is its chooseBranchValue setting. *)
ExecuteMerge(chosen) ==
    LET a == node.in1  b == node.in2  clash == node.clash IN
    /\ node.out = NoOutput
    /\ node' = [node EXCEPT !.out =
         CASE node.mode = "append" -> appendItems(a, b)
           [] node.mode = "mergeByIndex" -> mergeByIndex(a, b, clash)
           [] node.mode = "mergeByKey" -> mergeByKey(a, b, clash)
           [] node.mode = "keepKeyMatches" -> keepKeyMatches(a, b)
           [] node.mode = "removeKeyMatches" -> removeKeyMatches(a, b)
           [] node.mode = "combine" -> combineAll(a, b)
           [] node.mode = "chooseBranch" -> <<IF chosen = "input1" THEN a ELSE b>>
           [] node.mode = "wait" -> <<a, b>>
           [] OTHER -> <<"unknown merge mode">>]

MergeInit == node \in [mode : Modes, in1 : Inputs, in2 : Inputs, out : {NoOutput},
                  clash : {"preferInput1", "preferInput2", "merge"}]

MergeNext == \E chosen \in {"input1", "input2"} : ExecuteMerge(chosen)

MergeSpec == MergeInit /\ [][MergeNext]_mergeVars

------------------------------------------------------------------------
RECURSIVE IsOneOf(_, _, _)

(* A value is one of two, or where both are objects has each field of the  *)
(* first, with its value there or, field by field, one of the two.         *)
IsOneOf(x, v, w) ==
    \/ x \in {v, w}
    \/ /\ x[1] = "map" /\ v[1] = "map" /\ w[1] = "map"
       /\ \A f \in DOMAIN v[2] :
            /\ f \in DOMAIN x[2]
            /\ IsOneOf(x[2][f], v[2][f], IF f \in DOMAIN w[2] THEN w[2][f] ELSE v[2][f])

(* An item of the output has the printed key of this one and every field,  *)
(* with its value or that of an item of the other input with the same key. *)
Carried(item, others, out) ==
    \E i \in DOMAIN out :
      /\ KeyOf(out[i]) = KeyOf(item)
      /\ \A f \in DOMAIN item :
           /\ f \in DOMAIN out[i]
           /\ \/ out[i][f] = item[f]
              \/ \E j \in DOMAIN others :
                   /\ KeyOf(others[j]) = KeyOf(item) /\ f \in DOMAIN others[j]
                   /\ IsOneOf(out[i][f], item[f], others[j][f])

(* Merging by key drops whatever is not an object; it loses no object of   *)
(* the second input, and of the first only those that share their printed  *)
(* key with a later one and meet it in the second (merge_node.go:197-238). *)
(* 1 and "1" print alike, and so do all items without the field.           *)
ByKeyLosesOnlyRepeats ==
    node.out # NoOutput /\ node.mode = "mergeByKey" =>
      LET arr1 == Objects(node.in1)  arr2 == Objects(node.in2) IN
      /\ \A i \in DOMAIN arr2 : Carried(arr2[i], arr1, node.out)
      /\ \A i \in DOMAIN arr1 :
           \/ Carried(arr1[i], arr2, node.out)
           \/ /\ KeyOf(arr1[i]) \in Keys(arr2)
              /\ \E j \in DOMAIN arr1 : j > i /\ KeyOf(arr1[j]) = KeyOf(arr1[i])
      /\ Len(node.out) <= Len(arr1) + Len(arr2)

(* Keeping and removing matches divide the objects of the first input,     *)
(* each in its old order, whatever the keys print like.                    *)
MatchesDivide ==
    LET kept == keepKeyMatches(node.in1, node.in2)
        removed == removeKeyMatches(node.in1, node.in2)
    IN /\ Len(kept) + Len(removed) = Len(Objects(node.in1))
       /\ Keys(kept) \cap Keys(removed) = {}
=============================================================================
