---------------------------- MODULE Expressions -----------------------------
(***************************************************************************)
(* The expression language of node settings (pkg/expression): parsing and  *)
(* evaluation, and the functions it has built in. Evaluation takes a       *)
(* function's answer as given; the functions follow with a specification   *)
(* of their own.                                                           *)
(***************************************************************************)
EXTENDS Integers, Sequences, SequencesExt

(***************************************************************************)
(* The expression language of node settings (pkg/expression/parser.go). A  *)
(* setting is a text of segments, plain text and {{expressions}}; an       *)
(* expression is a reference with a path, or a function call. The engine   *)
(* evaluates the settings of a node field by field, in the order Go walks  *)
(* the map, and gives up at the first error. splitArguments, which cuts    *)
(* the arguments of a call at the commas outside brackets and quotes, is   *)
(* modelled on characters.                                                 *)
(***************************************************************************)

CONSTANTS Settings,   \* the settings of a node: sets of segment sequences
          Fields,     \* names of the settings
          Context,    \* [input, nodes, env, vars]
          FunctionNames, \* names of the functions there are
          ArgTexts,   \* argument texts, as sequences of characters
          Nil, Fail, NoIndex

VARIABLES settings,   \* [config, left, out, status] of one evaluation
          arguments   \* [text, parts] of one call's argument list

exprVars == <<settings, arguments>>

Blank == [is |-> "blank"]
Word == [is |-> "word"]
IsExpression(segment) == segment.is = "expression"

------------------------------------------------------------------------
(* References. *)
getField(v, f) ==
    IF v # Nil /\ v.kind = "map" /\ f \in DOMAIN v.fields THEN v.fields[f] ELSE Fail

(* A part is field, field[index] or [index]. *)
Descend(v, part) ==
    LET at == IF part.field = "" THEN v ELSE getField(v, part.field) IN
    IF v = Fail \/ at = Fail \/ part.index = NoIndex THEN at
    ELSE IF at = Nil \/ at.kind # "array" \/ part.index >= Len(at.items) THEN Fail
    ELSE at.items[part.index + 1]

getValueByPath(v, path) ==
    FoldLeft(LAMBDA at, part : IF at = Fail THEN Fail ELSE Descend(at, part), v, path)

evaluateNodeData(e) ==
    IF e.node \notin DOMAIN Context.nodes THEN Fail
    ELSE LET output == Context.nodes[e.node]
             data == IF e.type \in {"data", "json"} THEN output
                     ELSE IF e.type \in DOMAIN output.fields THEN output.fields[e.type]
                     ELSE Nil
         IN getValueByPath(data, e.path)

evaluateInput(e) ==
    IF e.path \in {<<[field |-> "item", index |-> NoIndex]>>,
                   <<[field |-> "all", index |-> NoIndex]>>}
    THEN Context.input ELSE getValueByPath(Context.input, e.path)

evaluateExecution(field) ==
    IF field \in {"id", "mode", "timestamp"} THEN [kind |-> "string", text |-> field] ELSE Fail
evaluateWorkflow(field) ==
    IF field \in {"id", "name", "active"} THEN [kind |-> "string", text |-> field] ELSE Fail
evaluateDate(field) == [kind |-> "string", text |-> field]

Named(table, name, missing) == IF name \in DOMAIN table THEN table[name] ELSE missing

RECURSIVE evaluateExpression(_)

(* Arguments that are references are evaluated first; the answer of the    *)
(* function is left open.                                                  *)
FunctionValue(e) ==
    IF e.name \notin FunctionNames THEN Fail
    ELSE LET args == [i \in DOMAIN e.args |-> evaluateExpression(e.args[i])] IN
         IF \E i \in DOMAIN args : args[i] = Fail THEN Fail
         ELSE [kind |-> "answer", of |-> e.name, args |-> args]

evaluateExpression(e) ==
    CASE e.ref = "func" -> FunctionValue(e)
      [] e.ref = "node" -> evaluateNodeData(e)
      [] e.ref = "json" -> getValueByPath(Context.input, e.path)
      [] e.ref = "env" -> Named(Context.env, e.field, [kind |-> "string", text |-> ""])
      [] e.ref = "input" -> evaluateInput(e)
      [] e.ref = "date" -> evaluateDate(e.field)
      [] e.ref = "execution" -> evaluateExecution(e.field)
      [] e.ref = "workflow" -> evaluateWorkflow(e.field)
      [] e.ref = "vars" -> Named(Context.vars, e.field, Nil)
      [] e.ref = "literal" -> [kind |-> "string", text |-> e.field]

(* A reference to something other than a date is written with a dot. *)
HasDot(e) == e.ref \notin {"date", "literal"}

RECURSIVE RunsOn(_, _)

(* What the text from the first {{ to the last }} evaluates to when more   *)
(* than one expression lies there, e the first and l the last. The last    *)
(* path part or the field of e runs on over the braces, so that no field,  *)
(* node data or metadata is found; but a node without a path is asked for  *)
(* an output of a strange name, and answers nil unless a dot of l makes a  *)
(* path. No environment variable or variable is set. Two calls are one     *)
(* call of the first function, whose argument in the middle runs on from   *)
(* the one into the other. Anything else is taken as it is written.        *)
RunsOn(e, l) ==
    LET args == [i \in DOMAIN Front(e.args) |-> evaluateExpression(e.args[i])]
                \o <<RunsOn(Last(e.args), Head(l.args))>>
                \o [i \in DOMAIN Tail(l.args) |-> evaluateExpression(l.args[i + 1])]
    IN CASE e.ref \in {"json", "input", "execution", "workflow"} -> Fail
         [] e.ref = "node" ->
              IF e.node \in DOMAIN Context.nodes /\ e.path = << >> /\ ~HasDot(l)
              THEN Nil ELSE Fail
         [] e.ref = "env" -> [kind |-> "string", text |-> ""]
         [] e.ref = "vars" -> Nil
         [] e.ref = "func" /\ l.ref = "func" ->
              IF e.name \notin FunctionNames \/ \E i \in DOMAIN args : args[i] = Fail
              THEN Fail ELSE [kind |-> "answer", of |-> e.name, args |-> args]
         [] OTHER -> [kind |-> "string", text |-> "as written"]

------------------------------------------------------------------------
(* Settings. *)
Trimmed(t) ==
    LET inner == {i \in DOMAIN t : t[i] # Blank} IN
    IF inner = {} THEN << >>
    ELSE SubSeq(t, CHOOSE i \in inner : \A j \in inner : i <= j,
                   CHOOSE i \in inner : \A j \in inner : i >= j)

(* An expression that fails stays as it is written. *)
Interpolated(t) ==
    [kind |-> "text", pieces |->
       [i \in DOMAIN t |->
          IF ~IsExpression(t[i]) THEN <<"text", t[i]>>
          ELSE IF evaluateExpression(t[i].e) = Fail THEN <<"text", t[i]>>
          ELSE <<"value", evaluateExpression(t[i].e)>>]]

Whole(t) ==
    LET w == Trimmed(t) IN w # << >> /\ IsExpression(w[1]) /\ IsExpression(Last(w))

Evaluate_AnyFailure(t) ==
    IF \E i \in DOMAIN t : IsExpression(t[i]) /\ evaluateExpression(t[i].e) = Fail
    THEN Fail ELSE Interpolated(t)

Evaluate(t) ==
    IF ~Whole(t) THEN Interpolated(t)
    ELSE IF Len(Trimmed(t)) = 1 THEN evaluateExpression(Trimmed(t)[1].e)
    ELSE RunsOn(Trimmed(t)[1].e, Last(Trimmed(t)).e)

EvaluateTemplate(f) ==
    /\ settings.status = "running" /\ f \in settings.left
    /\ LET v == Evaluate(settings.config[f]) IN
       settings' = [settings EXCEPT
         !.left = @ \ {f},
         !.out[f] = v,
         !.status = IF v = Fail THEN "failed"
                    ELSE IF settings.left = {f} THEN "done" ELSE @]
    /\ UNCHANGED arguments

------------------------------------------------------------------------
(* splitArguments, character by character. *)
Opening == {"(", "[", "{"}
Closing == {")", "]", "}"}
Quotes == {"'", "\""}

SplitStep_InQuotes(s, st, i) ==
    LET c == s[i] IN
    IF c = "," THEN [st EXCEPT !.parts = Append(@, st.current), !.current = << >>]
    ELSE [st EXCEPT !.current = Append(@, c)]

SplitStep(s, st, i) ==
    LET c == s[i]
        kept == [st EXCEPT !.current = Append(@, c)]
    IN IF st.quote # ""
       THEN IF c = st.quote /\ s[i - 1] # "\\" THEN [kept EXCEPT !.quote = ""] ELSE kept
       ELSE IF c \in Quotes THEN [kept EXCEPT !.quote = c]
       ELSE IF c \in Opening THEN [kept EXCEPT !.depth = @ + 1]
       ELSE IF c \in Closing THEN [kept EXCEPT !.depth = @ - 1]
       ELSE IF c = "," /\ st.depth = 0
       THEN [st EXCEPT !.parts = Append(@, st.current), !.current = << >>]
       ELSE kept

splitArguments(s) ==
    LET start == [parts |-> << >>, current |-> << >>, depth |-> 0, quote |-> ""]
        end == FoldLeft(LAMBDA st, i : SplitStep(s, st, i), start, [i \in DOMAIN s |-> i])
    IN IF end.current = << >> THEN end.parts ELSE Append(end.parts, end.current)

parseArguments ==
    /\ arguments.parts = Nil
    /\ arguments' = [arguments EXCEPT !.parts = splitArguments(arguments.text)]
    /\ UNCHANGED settings

ExprInit ==
    /\ settings \in [config : [Fields -> Settings], left : {Fields},
                     out : {[f \in Fields |-> Nil]}, status : {"running"}]
    /\ arguments \in [text : ArgTexts, parts : {Nil}]

ExprNext ==
    \/ \E f \in Fields : EvaluateTemplate(f)
    \/ parseArguments

ExprSpec == ExprInit /\ [][ExprNext]_exprVars

------------------------------------------------------------------------
(* A node's settings fail only for a field that begins and ends with an    *)
(* expression, and that fails if it is the only one there; in any other    *)
(* text an expression that fails stays as written (parser.go:172-200).     *)
(* Fields of two expressions are evaluated as one: "{{$json.a}}            *)
(* {{$json.b}}" fails although both are there, and so do two calls; with a *)
(* variable, a date or a plain text in front they never do, nor with a     *)
(* call in front and none at the end.                                      *)
NeverFails(e, l) ==
    e.ref \in {"env", "vars", "date", "literal"} \/ (e.ref = "func" /\ l.ref # "func")
OnlyWholeFieldsFail ==
    LET Text(f) == Trimmed(settings.config[f])
        MayFail(t) ==
          /\ t # << >> /\ IsExpression(t[1]) /\ IsExpression(Last(t))
          /\ IF Len(t) = 1 THEN evaluateExpression(t[1].e) = Fail
             ELSE ~NeverFails(t[1].e, Last(t).e)
    IN /\ settings.status = "failed" =>
            \E f \in Fields : settings.out[f] = Fail /\ MayFail(Text(f))
       /\ settings.status = "done" =>
            \A f \in Fields : Len(Text(f)) = 1 => ~MayFail(Text(f))

Joined(parts) ==
    FlattenSeq([i \in DOMAIN parts |-> IF i = 1 THEN parts[i] ELSE <<",">> \o parts[i]])

Count(s, chars) == Len(SelectSeq(s, LAMBDA c : c \in chars))

(* Cutting the arguments loses no character but a comma at the end; what   *)
(* has been cut is not cut again; and no pair of brackets is torn apart,   *)
(* at least in a text without quotes (parser.go:502-553).                  *)
SplitIsExact ==
    arguments.parts # Nil =>
      /\ \/ Joined(arguments.parts) = arguments.text
         \/ Joined(arguments.parts) \o <<",">> = arguments.text
      /\ \A i \in DOMAIN arguments.parts :
           LET part == arguments.parts[i] IN
           /\ part # << >> => splitArguments(part) = <<part>>
           /\ i < Len(arguments.parts) /\ Count(arguments.text, Quotes) = 0 =>
                Count(part, Opening) = Count(part, Closing)
-----------------------------------------------------------------------------
(***************************************************************************)
(* The built-in functions of the expression language                       *)
(* (pkg/expression/functions.go). A value is Nil or a record of its kind   *)
(* and content, a text is the sequence of its character codes, a number is *)
(* an integer. One behaviour is one call: FunctionInit chooses the         *)
(* function and its arguments. convertDateFormat walks a Go map, so the    *)
(* order of its replacements is an input of the call.                      *)
(***************************************************************************)

CONSTANTS Calls,       \* [name, args] of the calls made
          Orders,      \* orders in which the replacement map is walked
          Dates,       \* texts that parseAnyDate takes for a date
          Error, Panic, NoAnswer

VARIABLES call

callVars == <<call>>

Str(text) == [kind |-> "string", text |-> text]
Num(n) == [kind |-> "number", number |-> n]
Bool(b) == [kind |-> "bool", bool |-> b]
Arr(items) == [kind |-> "array", items |-> items]

IsKind(v, kind) == v # Nil /\ v.kind = kind

------------------------------------------------------------------------
(* Conversions.  Numbers have one or two digits here, and a sign. *)
Digits(n) ==
    CASE n < 0 -> <<45, 48 - n>>
      [] n \in 0..9 -> <<48 + n>>
      [] OTHER -> <<48 + (n \div 10), 48 + (n % 10)>>

RECURSIVE Sprint(_), SprintItems(_)

(* fmt.Sprintf("%v", v): <nil>, the text, the digits, t or f for true and  *)
(* false, [a b].                                                           *)
Sprint(v) ==
    CASE v = Nil -> <<60, 110, 105, 108, 62>>
      [] IsKind(v, "string") -> v.text
      [] IsKind(v, "number") -> Digits(v.number)
      [] IsKind(v, "bool") -> IF v.bool THEN <<116>> ELSE <<102>>
      [] IsKind(v, "array") -> <<91>> \o SprintItems(v.items) \o <<93>>
SprintItems(items) ==
    IF items = << >> THEN << >>
    ELSE Sprint(Head(items))
         \o (IF Len(items) = 1 THEN << >> ELSE <<32>> \o SprintItems(Tail(items)))

toFloat(v) ==
    CASE IsKind(v, "number") -> v.number
      [] IsKind(v, "string") /\ \E n \in -9..99 : Digits(n) = v.text ->
           CHOOSE n \in -9..99 : Digits(n) = v.text
      [] OTHER -> 0
toInt(v) == toFloat(v)
toBool(v) ==
    /\ v # Nil
    /\ IsKind(v, "bool") => v.bool
    /\ IsKind(v, "string") => v.text \notin {<< >>, <<102>>, <<48>>}
    /\ IsKind(v, "number") => v.number # 0

(* The order of Go strings. *)
TextLess(s, t) ==
    \E i \in 1..(Len(t)) :
      /\ i <= Len(s) + 1
      /\ SubSeq(s, 1, i - 1) = SubSeq(t, 1, i - 1)
      /\ i <= Len(s) => s[i] < t[i]

------------------------------------------------------------------------
(* Texts. *)
funcLength(args) ==
    Num(IF IsKind(args[1], "array") THEN Len(args[1].items) ELSE Len(Sprint(args[1])))

(* s[start:end] panics when end lies before start. *)
Slice(s, start, end) ==
    IF end < start \/ start < 0 \/ start > Len(s) THEN Panic
    ELSE Str(SubSeq(s, start + 1, end))
UpTo(args, s) ==
    IF Len(args) >= 3 /\ toInt(args[3]) <= Len(s) THEN toInt(args[3]) ELSE Len(s)

funcSubstring_AnyStart(args) ==
    LET s == Sprint(args[1])  start == toInt(args[2]) IN
    IF start >= Len(s) THEN Str(<< >>) ELSE Slice(s, start, UpTo(args, s))

funcSubstring(args) ==
    LET s == Sprint(args[1])  start == toInt(args[2]) IN
    IF start < 0 \/ start >= Len(s) THEN Str(<< >>) ELSE Slice(s, start, UpTo(args, s))

RECURSIVE ReplaceText(_, _, _)

(* strings.ReplaceAll: from the left, without overlaps; the empty text is  *)
(* found before, between and after the characters.                         *)
ReplaceText(s, old, new) ==
    IF old = << >> THEN new \o FlattenSeq([i \in DOMAIN s |-> <<s[i]>> \o new])
    ELSE IF Len(s) < Len(old) THEN s
    ELSE IF IsPrefix(old, s)
    THEN new \o ReplaceText(SubSeq(s, Len(old) + 1, Len(s)), old, new)
    ELSE <<Head(s)>> \o ReplaceText(Tail(s), old, new)

funcReplace(args) == Str(ReplaceText(Sprint(args[1]), Sprint(args[2]), Sprint(args[3])))

funcJoin(args) ==
    IF ~IsKind(args[1], "array") THEN Error
    ELSE LET items == args[1].items
             piece(i) == (IF i = 1 THEN << >> ELSE Sprint(args[2])) \o Sprint(items[i])
         IN Str(FlattenSeq([i \in DOMAIN items |-> piece(i)]))

IsInside(part, s) == \E i \in 0..Len(s) : IsPrefix(part, SubSeq(s, i + 1, Len(s)))
funcContains(args) == Bool(IsInside(Sprint(args[2]), Sprint(args[1])))
funcStartsWith(args) == Bool(IsPrefix(Sprint(args[2]), Sprint(args[1])))
funcEndsWith(args) == Bool(IsSuffix(Sprint(args[2]), Sprint(args[1])))

------------------------------------------------------------------------
(* Numbers: of the array given first, or of all arguments. *)
Numbers(args) ==
    LET vs == IF IsKind(args[1], "array") THEN args[1].items ELSE args
    IN [i \in DOMAIN vs |-> toFloat(vs[i])]

Extreme(ns, below(_, _)) ==
    IF ns = << >> THEN Nil
    ELSE Num(FoldLeft(LAMBDA m, n : IF below(n, m) THEN n ELSE m, Head(ns), Tail(ns)))
funcMin(args) == Extreme(Numbers(args), LAMBDA n, m : n < m)
funcMax(args) == Extreme(Numbers(args), LAMBDA n, m : n > m)
SumOf(ns) == FoldLeft(LAMBDA s, n : s + n, 0, ns)
funcSum(args) == Num(SumOf(Numbers(args)))
(* The quotient is kept as sum and count. *)
funcAvg(args) ==
    LET ns == Numbers(args) IN
    IF ns = << >> THEN Num(0)
    ELSE [kind |-> "quotient", sum |-> SumOf(ns), count |-> Len(ns)]

------------------------------------------------------------------------
(* Arrays; each refuses anything else and none changes its argument. *)
OfArray(args, answer(_)) == IF IsKind(args[1], "array") THEN answer(args[1].items) ELSE Error

funcFirst(args) == OfArray(args, LAMBDA items : IF items = << >> THEN Nil ELSE Head(items))
funcLast(args) == OfArray(args, LAMBDA items : IF items = << >> THEN Nil ELSE Last(items))
funcCount(args) == OfArray(args, LAMBDA items : Num(Len(items)))
funcReverse_OffByOne(args) ==
    OfArray(args, LAMBDA items :
      Arr([i \in DOMAIN items |-> IF i = 1 THEN Nil ELSE items[Len(items) + 2 - i]]))
funcReverse(args) == OfArray(args, LAMBDA items : Arr(Reverse(items)))
(* Go leaves items of the same text in any order, SortSeq in one. *)
funcSort(args) ==
    OfArray(args, LAMBDA items :
      Arr(SortSeq(items, LAMBDA v, w : TextLess(Sprint(v), Sprint(w)))))
(* The first item of every text. *)
funcUnique(args) ==
    OfArray(args, LAMBDA items :
      Arr(FoldLeft(LAMBDA out, v :
                     IF \E i \in DOMAIN out : Sprint(out[i]) = Sprint(v) THEN out
                     ELSE Append(out, v), << >>, items)))
funcFilter(args) ==
    OfArray(args, LAMBDA items :
      Arr(SelectSeq(items, LAMBDA v : v # Nil /\ v # Str(<< >>))))

------------------------------------------------------------------------
(* Types and choices. *)
funcToString(args) == Str(Sprint(args[1]))
funcToNumber(args) == Num(toFloat(args[1]))
funcToBoolean(args) == Bool(toBool(args[1]))
funcIsEmpty(args) ==
    Bool(\/ args = << >>
         \/ args[1] = Nil
         \/ args[1] \in {Str(<< >>), Arr(<< >>)})
funcIf(args) == IF toBool(args[1]) THEN args[2] ELSE args[3]
funcDefault(args) == IF args[1] = Nil \/ args[1] = Str(<< >>) THEN args[2] ELSE args[1]

------------------------------------------------------------------------
(* Dates: the pattern letters and the layout of Go they stand for. *)
Y == 89
M == 77
D == 68
Layouts == [YYYY |-> <<<<Y, Y, Y, Y>>, <<50, 48, 48, 54>>>>,
            YY |-> <<<<Y, Y>>, <<48, 54>>>>,
            MM |-> <<<<M, M>>, <<48, 49>>>>,
            DD |-> <<<<D, D>>, <<48, 50>>>>,
            HH |-> <<<<72, 72>>, <<49, 53>>>>,
            mm |-> <<<<109, 109>>, <<48, 52>>>>,
            ss |-> <<<<115, 115>>, <<48, 53>>>>,
            SSS |-> <<<<83, 83, 83>>, <<48, 48, 48>>>>]

convertDateFormat_FirstOnly(format, order) ==
    ReplaceText(format, Layouts[order[1]][1], Layouts[order[1]][2])

(* One replacement after the other, in the order of the map's walk. *)
convertDateFormat(format, order) ==
    FoldLeft(LAMBDA s, p : ReplaceText(s, Layouts[p][1], Layouts[p][2]), format, order)

(* A text that is no date is an error; the answer is the layout.  A whole  *)
(* number is the seconds of a date.                                        *)
funcFormatDate(args, order) ==
    LET date == Sprint(args[1]) IN
    IF date \in Dates \/ \E n \in -9..99 : Digits(n) = date
    THEN Str(convertDateFormat(Sprint(args[2]), order)) ELSE Error

Arity == [length |-> 1, substring |-> 2, replace |-> 3, join |-> 2, contains |-> 2,
          startsWith |-> 2, endsWith |-> 2, min |-> 1, max |-> 1, sum |-> 1, avg |-> 1,
          first |-> 1, last |-> 1, count |-> 1, reverse |-> 1, sort |-> 1, unique |-> 1,
          filter |-> 1, toString |-> 1, toNumber |-> 1, toBoolean |-> 1, isEmpty |-> 0,
          if |-> 3, default |-> 2, formatDate |-> 2]

Answer(name, args, order) ==
    IF Len(args) < Arity[name] THEN Error
    ELSE CASE name = "length" -> funcLength(args)
           [] name = "substring" -> funcSubstring(args)
           [] name = "replace" -> funcReplace(args)
           [] name = "join" -> funcJoin(args)
           [] name = "contains" -> funcContains(args)
           [] name = "startsWith" -> funcStartsWith(args)
           [] name = "endsWith" -> funcEndsWith(args)
           [] name = "min" -> funcMin(args)
           [] name = "max" -> funcMax(args)
           [] name = "sum" -> funcSum(args)
           [] name = "avg" -> funcAvg(args)
           [] name = "first" -> funcFirst(args)
           [] name = "last" -> funcLast(args)
           [] name = "count" -> funcCount(args)
           [] name = "reverse" -> funcReverse(args)
           [] name = "sort" -> funcSort(args)
           [] name = "unique" -> funcUnique(args)
           [] name = "filter" -> funcFilter(args)
           [] name = "toString" -> funcToString(args)
           [] name = "toNumber" -> funcToNumber(args)
           [] name = "toBoolean" -> funcToBoolean(args)
           [] name = "isEmpty" -> funcIsEmpty(args)
           [] name = "if" -> funcIf(args)
           [] name = "default" -> funcDefault(args)
           [] name = "formatDate" -> funcFormatDate(args, order)

FunctionInit == call \in [name : Calls.names, args : Calls.args, answer : {NoAnswer}]

evaluateFunction(order) ==
    /\ call.answer = NoAnswer
    /\ call' = [call EXCEPT !.answer = Answer(call.name, call.args, order)]

FunctionNext == \E order \in Orders : evaluateFunction(order)

FunctionSpec == FunctionInit /\ [][FunctionNext]_callVars

------------------------------------------------------------------------
(* substring answers with a text inside its own for every pair of indexes  *)
(* but one kind, an end before a start that lies inside the text: the      *)
(* start is checked and the end capped, they are never compared, and the   *)
(* slice panics (functions.go:59-79). A negative start gives the empty     *)
(* text, a negative end panics. Nothing between the node and the worker    *)
(* recovers.                                                               *)
SubstringNeedsOrder ==
    call.name = "substring" /\ call.answer \notin {NoAnswer, Error} =>
      LET text == Sprint(call.args[1])
          start == toInt(call.args[2])
          backwards == Len(call.args) >= 3 /\ toInt(call.args[3]) < start
          inside == start \in 0..(Len(text) - 1)
      IN IF inside /\ backwards THEN call.answer = Panic
         ELSE /\ call.answer # Panic
              /\ IsInside(call.answer.text, text)
        
(* Sorting and reversing keep every item as often as it was there, and     *)
(* every function that selects keeps the order: what is selected is the    *)
(* same when it is selected again (functions.go:565-660).                  *)
Occurs(v, items) == Len(SelectSeq(items, LAMBDA w : w = v))
ListsKeepTheirItems ==
    call.answer \notin {NoAnswer, Error, Panic} =>
      LET again == Answer(call.name, <<call.answer>>, << >>) IN
      /\ call.name \in {"sort", "reverse"} =>
           \A i \in DOMAIN call.args[1].items :
             LET v == call.args[1].items[i] IN
             Occurs(v, call.answer.items) = Occurs(v, call.args[1].items)
      /\ call.name \in {"unique", "filter"} => again = call.answer
      /\ call.name = "sort" => Sprint(again) = Sprint(call.answer)
      /\ call.name = "reverse" => again = call.args[1]

(* Which layout a date pattern becomes depends on the order in which Go    *)
(* walks the replacements only where a four-digit year is asked for: YY    *)
(* may be replaced first, twice (functions.go:766-783).                    *)
OrderDecidesYearsOnly ==
    call.name = "formatDate" /\ call.answer \notin {NoAnswer, Error} =>
      \/ IsInside(<<Y, Y, Y, Y>>, Sprint(call.args[2]))
      \/ \A order \in Orders : Answer("formatDate", call.args, order) = call.answer
=============================================================================
