----------------------------- MODULE MCFeatures -----------------------------
(***************************************************************************)
(* Workflows as they are drawn, copied, filed, shared, debugged, recorded  *)
(* and watched, and the nodes and expressions they are made of, side by    *)
(* side: each behaviour runs one of them (focus), whose variables take the *)
(* slots s1, s2, ... in order.                                             *)
(***************************************************************************)
EXTENDS Integers, Sequences, FiniteSets, TLC

CONSTANTS None, NaN, Scalar, Fail, NoIndex, Panic

VARIABLES focus,
          s1, s2, s3, s4, s5, s6, s7, s8, s9

vars == <<focus,
          s1, s2, s3, s4, s5, s6, s7, s8, s9>>

(* The slots a component leaves free hold nothing.                         *)
Free9 == s9 = None
Free8 == s8 = None /\ Free9
Free7 == s7 = None /\ Free8
Free6 == s6 = None /\ Free7
Free5 == s5 = None /\ Free6
Free4 == s4 = None /\ Free5
Free3 == s3 = None /\ Free4
Free2 == s2 = None /\ Free3
Keep2 ==
    UNCHANGED <<focus, s2, s3, s4, s5, s6, s7, s8, s9>>
Keep3 ==
    UNCHANGED <<focus, s3, s4, s5, s6, s7, s8, s9>>
Keep4 ==
    UNCHANGED <<focus, s4, s5, s6, s7, s8, s9>>
Keep5 ==
    UNCHANGED <<focus, s5, s6, s7, s8, s9>>
Keep6 ==
    UNCHANGED <<focus, s6, s7, s8, s9>>
Keep7 ==
    UNCHANGED <<focus, s7, s8, s9>>
Keep9 ==
    UNCHANGED <<focus, s9>>
Keep10 == UNCHANGED focus

Calls == {"r1", "r2"}

(* The workflows that are drawn: nothing; a trigger; a trigger and an      *)
(* action; a node twice; a dangling connection; a path; a diamond; a       *)
(* diamond with a back edge; a cycle the trigger does not reach.           *)
Cmd(nodes, conns) == [nodes |-> nodes, conns |-> conns]
All == <<"t", "a", "b", "m">>
Diamond == << <<"t", "a">>, <<"t", "b">>, <<"a", "m">>, <<"b", "m">> >>
Drawn ==
    {Cmd(<< >>, << >>), Cmd(<<"t">>, << >>), Cmd(<<"t", "a">>, << <<"t", "a">> >>),
     Cmd(<<"a", "a">>, << >>), Cmd(<<"t">>, << <<"t", "a">> >>),
     Cmd(All, << <<"t", "a">>, <<"a", "b">>, <<"b", "m">> >>),
     Cmd(All, Diamond), Cmd(All, Append(Diamond, <<"m", "a">>)),
     Cmd(<<"m", "t", "b", "a">>, << <<"t", "m">>, <<"a", "b">>, <<"b", "a">> >>)}

(* Workflows that are copied: one node, a connection, a cycle. *)
HandDrawn ==
    LET A == <<0, 1>> B == <<0, 2>> IN
    {Cmd(<<A>>, << >>), Cmd(<<A, B>>, << <<A, B>> >>),
     Cmd(<<B, A>>, << <<A, B>>, <<B, A>> >>)}

(* Sub-workflow nodes under every error policy, with and without a timeout. *)
SubNode(flow, onError, timed, in, out) ==
    [flow |-> flow, onError |-> onError, timed |-> timed, in |-> in, out |-> out]
SubFlows ==
    LET Empty == [k \in {} |-> ""] IN
    [a |-> <<SubNode("b", "stop", TRUE, Empty, Empty),
             SubNode("a", "continue", FALSE, "x" :> "k", "k" :> "x")>>,
     b |-> <<SubNode("a", "stop", FALSE, "k" :> "k", "y" :> "k")>>,
     c |-> <<SubNode("b", "fallback", TRUE, Empty, Empty),
             SubNode("d", "stop", FALSE, Empty, "z" :> "k")>>,
     d |-> << >>]

(* The items and the conditions of the if node. *)
Text(text, n) == [kind |-> "string", text |-> text, number |-> n]
One == [kind |-> "int", text |-> <<"1">>, number |-> 1]
Choices == [kind |-> "array", text |-> <<"[", "1", " ", "NaN", "]">>,
            elements |-> <<One, Text(<<"NaN">>, NaN)>>]
Nested == [kind |-> "map", text |-> <<"map">>, fields |-> [a |-> One]]
BranchValues ==
    {None, One, Choices, Nested, Text(<<"1">>, 1), Text(<<"1", ".0">>, 1),
     Text(<<"2">>, 2), Text(<<"NaN">>, NaN), Text(<<"true">>, 0), Text(<< >>, 0),
     [kind |-> "bool", text |-> <<"false">>],
     [kind |-> "float64", text |-> <<"0", ".5">>, number |-> 0]}
Wrap(v) == [kind |-> "map", text |-> <<"map">>, fields |-> [a |-> v]]
BranchItems == {Wrap(v) : v \in BranchValues} \cup {Wrap(Wrap(One)), One}
TwoSided == {"equals", "notEquals", "contains", "notContains", "isEmpty",
             "isNotEmpty", "isNull", "isNotNull", "isTrue", "isFalse", "in", "notIn",
             "greaterThan", "lessThanOrEqual", "lessThan", "greaterThanOrEqual"}
Asks(field, operators, values) ==
    [field : {field}, operator : operators, value : values]
BranchConditions ==
    Asks(<<"a">>, TwoSided, {One, Text(<<"NaN">>, NaN)})
      \cup Asks(<<"a">>, {"startsWith", "endsWith", "regex", "in"}, {Choices})
      \cup Asks(<<"a", "a">>, {"equals"}, {One})
Whole(text) == {text}
Same(text, pattern) == text = pattern

(* The branches that are merged: with ids alike as numbers and as texts,    *)
(* without an id, and items that are no objects.                            *)
I1 == [id |-> <<"int", "1">>, a |-> <<"int", "7">>]
S1 == [id |-> <<"str", "1">>, b |-> <<"map", [x |-> <<"int", "1">>]>>]
I2 == [id |-> <<"int", "2">>, b |-> <<"map", [y |-> <<"int", "2">>]>>]
NoId == [a |-> <<"str", "8">>]
JoinInputs ==
    {[kind |-> "nil", items |-> << >>],
     [kind |-> "scalar", items |-> <<Scalar>>],
     [kind |-> "object", items |-> <<I1>>]}
      \cup {[kind |-> "array", items |-> s] :
              s \in {I1, S1, NoId, I2} \X {S1, I2, NoId, Scalar}}
      \cup {[kind |-> "items", items |-> s] : s \in {I1, S1} \X {S1} \X {I1, NoId}}

(* The data expressions refer to, and references that exist and do not. *)
At(f, i) == [field |-> f, index |-> i]
Number == [kind |-> "number", number |-> 1]
List == [kind |-> "array", items |-> <<Number>>]
Object == [kind |-> "map", fields |-> [a |-> Number, l |-> List]]
Data == [input |-> Object, nodes |-> [n |-> Object], env |-> [v |-> Number],
         vars |-> [v |-> Number]]
Json(path) == [ref |-> "json", path |-> path]
Found == Json(<<At("a", NoIndex)>>)
Lost == Json(<<At("z", NoIndex)>>)
Unset == [ref |-> "env", field |-> "w"]
References ==
    {Found, Lost, Json(<<At("l", 0)>>), Json(<<At("l", 1)>>),
     [ref |-> "input", path |-> <<At("all", NoIndex)>>],
     [ref |-> "input", path |-> <<At("a", 0)>>],
     [ref |-> "node", node |-> "n", type |-> "data", path |-> <<At("a", NoIndex)>>],
     [ref |-> "node", node |-> "n", type |-> "l", path |-> <<At("", 0)>>],
     [ref |-> "node", node |-> "m", type |-> "data", path |-> << >>],
     [ref |-> "node", node |-> "n", type |-> "data", path |-> << >>],
     Unset, [ref |-> "vars", field |-> "v"],
     [ref |-> "execution", field |-> "id"], [ref |-> "workflow", field |-> "owner"],
     [ref |-> "date", field |-> "now"], [ref |-> "literal", field |-> "x"]}
      \cup {[ref |-> "func", name |-> f, args |-> <<r>>] :
              f \in {"sum", "nosuch"}, r \in {Found, Lost, Unset}}
Today == [ref |-> "date", field |-> "today"]
Summed == [ref |-> "func", name |-> "sum", args |-> <<Found>>]
Characters == {"x", ",", "(", ")", "'", "\\"}
Word == [is |-> "word"]
Blank == [is |-> "blank"]
Expr(e) == [is |-> "expression", e |-> e]
SettingTexts ==
    {<<Word>>}
      \cup UNION {{<<Expr(e)>>, <<Blank, Expr(e), Blank>>, <<Word, Expr(e), Blank>>,
                    <<Expr(e), Word, Expr(Found)>>, <<Expr(e), Expr(Today)>>,
                    <<Expr(e), Expr(Summed)>>} : e \in References}

(* Calls of the built-in functions, texts as character codes. *)
FunctionCalls ==
    LET Num(n) == [kind |-> "number", number |-> n]
        Str(text) == [kind |-> "string", text |-> text]
        Arr(items) == [kind |-> "array", items |-> items]
        Scalars == {None, Num(-1), Num(0), Num(1), Num(2), Num(10), Str(<<49>>),
                    Str(<< >>)}
        Lists == {Arr(<< >>)}
          \cup {Arr(<<a, b, c>>) : a \in {Num(10), Num(2)}, b \in Scalars,
                                    c \in {Str(<<49>>), Num(1), Num(2)}}
        Texts == {Str(<<97, 98, 97>>), Str(<<89, 89, 89, 89, 77, 77>>),
                  Str(<<89, 89, 68, 68>>), Str(<<72, 72, 109, 109, 115, 115, 83, 83, 83>>)}
    IN [names |-> {"length", "substring", "replace", "join", "contains", "startsWith",
                   "endsWith", "min", "max", "sum", "avg", "first", "last", "count",
                   "reverse", "sort", "unique", "filter", "toString", "toNumber",
                   "toBoolean", "isEmpty", "if", "default", "formatDate"},
        args |-> {<< >>} \cup {<<x>> : x \in Lists \cup Scalars}
          \cup ((Texts \cup {Arr(<<Num(1), Str(<<97>>)>>)}) \X (Scalars \cup Texts))
          \cup (Texts \X Scalars \X Scalars)]
WalkOrders == {<<"YYYY", "YY", "MM", "DD", "HH", "mm", "ss", "SSS">>,
               <<"DD", "SSS", "YY", "mm", "YYYY", "MM", "HH", "ss">>,
               <<"MM", "ss", "YYYY", "HH", "DD", "SSS", "YY", "mm">>}
(* The text aba stands for one that parses as a date. *)
Days == {<<97, 98, 97>>}

(* Three calls edit one workflow.                                          *)
Editing == INSTANCE WorkflowService WITH
    Callers <- {"r1", "r2", "r3"}, NodeIDs <- {"t", "a", "b", "m"},
    Triggers <- {"t"}, Commands <- Drawn, MaxWrites <- 4, None <- None,
    row <- s1, wf <- s2, read <- s3, writes <- s4

(* A library of up to four workflows copied from one another. Two folder   *)
(* IDs, filed, moved, updated and deleted by two calls at a time.          *)
Library == INSTANCE WorkflowLibrary WITH
    Originals <- HandDrawn, LibraryBound <- 4, FolderIds <- {"f1", "f2"},
    Objects <- {"o1", "o2", "o3", "o4"}, FolderCalls <- Calls, MaxDepth <- 1,
    DepthBound <- 2, StackBound <- 3, Top <- None, folder <- s1, filed <- s2,
    filing <- s3, unchecked <- s4,
    library <- s1, template <- s2, usage <- s3

(* Three folder IDs, one call at a time.                                   *)
DeepTree == INSTANCE WorkflowLibrary WITH
    FolderIds <- {"f1", "f2", "f3"}, Objects <- {"o1", "o2", "o3", "o4"},
    FolderCalls <- {"r1"}, MaxDepth <- 1, DepthBound <- 2, StackBound <- 4,
    Top <- None, Originals <- {}, LibraryBound <- 0, folder <- s1,
    filed <- s2, filing <- s3, unchecked <- s4, library <- s1, template <- s2, usage <- s3

(* Workflows that call each other and themselves; nesting may go four      *)
(* deep. Two sessions of the one a user may have. Three executions         *)
(* recorded in room for one.                                               *)
Runs == INSTANCE RunFeatures WITH
    Flows <- SubFlows, Roots <- {"a", "c"}, RootKeys <- {"k"}, maxDepth <- 4,
    SessionIds <- {"d1", "d2"}, Debuggers <- {"wu"}, DebugNodes <- {"n1"},
    MaxSessions <- 1, StackLimit <- 2, NoSession <- None,
    Recorded <- {"e1", "e2"}, ReplayNodes <- {"n1"}, MaxSize <- 1,
    SnapshotBound <- 1, StartBound <- 2, NoRecording <- None, stored <- s1,
    stack <- s2, ended <- s3, session <- s1, sessions <- s2,
    lastActivity <- s3, run <- s4, revived <- s5, recording <- s1,
    recordings <- s2, started <- s3, imports <- s4, replay <- s5

(* A link, of one use or of many, and an invitation; two calls at a time.  *)
Links == INSTANCE Sharing WITH
    Workflows <- {"w1"}, Users <- {"a", "b"}, Shares <- {"h1"},
    ShareInvitations <- {"i1"}, SharingRequests <- Calls, Grants <- {"edit"},
    MaxUsesOf <- {0, 1}, UseBound <- 2, Nothing <- None, share <- s1,
    listed <- s2, shareInvitation <- s3, sharing <- s4

(* Three subscribers, who leave while an event is sent. One execution of   *)
(* two nodes, two goroutines that report its end.                          *)
Events == INSTANCE RealtimeEvents WITH
    Subscribers <- {"b1", "b2", "b3"}, Broadcasts <- {"e"}, EventCap <- 1,
    NoArray <- None, NoSub <- None, Tracked <- {"x"},
    TrackedNodes <- {"n1", "n2"}, Reports <- Calls, CountBound <- 3,
    NotTracked <- None, arrays <- s1, slice <- s2, subQueue <- s3,
    subState <- s4, removal <- s5, sending <- s6, visits <- s7,
    crossedBy <- s8, trackedExecutions <- s1, report <- s2,
    startedOnce <- s3, announced <- s4, together <- s5

(* Numbers, texts and lists under every operator and its opposite. Two     *)
(* branches with up to three items, some with the key merged on.           *)
Nodes == INSTANCE RuntimeNodes WITH
    Items <- BranchItems, Conditions <- BranchConditions,
    CommaParts <- Whole, RegexMatches <- Same, Nil <- None, NaN <- NaN,
    Inputs <- JoinInputs,
    Modes <- {"append", "mergeByIndex", "mergeByKey", "keepKeyMatches", "removeKeyMatches", "combine", "chooseBranch", "wait"},
    MergeKey <- "id", ScalarItem <- Scalar, NoOutput <- None, ifNode <- s1,
    node <- s1

(* Settings with expressions alone, between blanks, amid text and one      *)
(* after another. Calls of 25 of the 48 built-in functions, with few,      *)
(* ill-typed, negative and boundary arguments.                             *)
Evaluated == INSTANCE Expressions WITH
    Settings <- SettingTexts, Fields <- {"f", "g"}, Context <- Data,
    FunctionNames <- {"sum"}, ArgTexts <- {<< >>}, Nil <- None, Fail <- Fail,
    NoIndex <- NoIndex, Calls <- FunctionCalls, Orders <- WalkOrders,
    Dates <- Days, Error <- Fail, Panic <- Panic, NoAnswer <- NoIndex, settings <- s1,
    arguments <- s2, call <- s1

(* Every argument text of up to five characters.                           *)
Split == INSTANCE Expressions WITH
    Settings <- {<<Word>>}, Fields <- {"f", "g"}, Context <- Data,
    FunctionNames <- {"sum"},
    ArgTexts <- UNION {[1..n -> Characters] : n \in 0..5}, Nil <- None,
    Fail <- Fail, NoIndex <- NoIndex, Calls <- [names |-> {}, args |-> {}],
    Orders <- {}, Dates <- {}, Error <- Fail, Panic <- Panic, NoAnswer <- NoIndex,
    settings <- s1, arguments <- s2, call <- s1

(* Four requests of one client, told apart by their address headers or not *)
(* as they come through different proxies.                                 *)
LimitRequests == {"r1", "r2", "r3", "r4"}
Limits == INSTANCE RateLimits WITH
    Requests <- LimitRequests,
    HeaderOf <-
      [r1 |-> [forwarded |-> "c", real |-> None, remote |-> "c"],
       r2 |-> [forwarded |-> None, real |-> "c", remote |-> "c"],
       r3 |-> [forwarded |-> None, real |-> None, remote |-> "c"],
       r4 |-> [forwarded |-> "c", real |-> "d", remote |-> "c"]],
    PathOf <- [r \in LimitRequests |->
                 IF r = "r4" THEN <<"run", "w", "x">> ELSE <<"run", "w">>],
    Patterns <- <<"run", "*">> :> 1, Tiers <- [free |-> 1, pro |-> 2],
    DefaultBurst <- 1, Rate <- 1, ExpireAfter <- 1, FlushAfter <- 1,
    Minute <- 1, WindowLimit <- 1, TimeBound <- 2, Absent <- None,
    limiter <- s1, now <- s2, table <- s3, entries <- s4, req <- s5,
    admitted <- s6, tier <- s7, flushed <- s8, drops <- s9

(* Two workers and an execution store in memory, for its statistics.       *)
Stores == INSTANCE ExecutionStore WITH
    Workers <- Calls, ExecIds <- {1, 2}, Durations <- {1, 2},
    WriteBound <- 2, NoRow <- None, heap <- s1, mem <- s2, pg <- s3,
    hand <- s4, writes <- s5, overlap <- s6

-----------------------------------------------------------------------------
Init ==
    \/ focus = "workflow" /\ Editing!Init /\ Free5
    \/ focus = "copies" /\ Library!CopyInit /\ Free4
    \/ focus = "folders" /\ Library!FolderInit /\ Free5
    \/ focus = "deep" /\ DeepTree!FolderInit /\ Free5
    \/ focus = "sub" /\ Runs!SubInit /\ Free4
    \/ focus = "sharing" /\ Links!Init /\ Free5
    \/ focus = "debug" /\ Runs!DebugInit /\ Free6
    \/ focus = "replay" /\ Runs!ReplayInit /\ Free6
    \/ focus = "events" /\ Events!CastInit /\ Free9
    \/ focus = "tracker" /\ Events!TrackInit /\ Free6
    \/ focus = "if" /\ Nodes!IfInit /\ Free2
    \/ focus = "merge" /\ Nodes!MergeInit /\ Free2
    \/ focus = "settings" /\ Evaluated!ExprInit /\ Free3
    \/ focus = "arguments" /\ Split!ExprInit /\ Free3
    \/ focus = "functions" /\ Evaluated!FunctionInit /\ Free2
    \/ focus = "limits" /\ Limits!Init
    \/ focus = "statistics" /\ Stores!Init /\ Free7

Next ==
    \/ focus = "workflow" /\ Editing!Next /\ Keep5
    \/ focus = "copies" /\ Library!CopyNext /\ Keep4
    \/ focus = "folders" /\ Library!FolderNext /\ Keep5
    \/ focus = "deep" /\ DeepTree!FolderNext /\ Keep5
    \/ focus = "sub" /\ Runs!SubNext /\ Keep4
    \/ focus = "sharing" /\ Links!Next /\ Keep5
    \/ focus = "debug" /\ Runs!DebugNext /\ Keep6
    \/ focus = "replay" /\ Runs!ReplayNext /\ Keep6
    \/ focus = "events" /\ Events!CastNext /\ Keep9
    \/ focus = "tracker" /\ Events!TrackNext /\ Keep6
    \/ focus = "if" /\ Nodes!IfNext /\ Keep2
    \/ focus = "merge" /\ Nodes!MergeNext /\ Keep2
    \/ focus = "settings" /\ Evaluated!ExprNext /\ Keep3
    \/ focus = "arguments" /\ Split!ExprNext /\ Keep3
    \/ focus = "functions" /\ Evaluated!FunctionNext /\ Keep2
    \/ focus = "limits" /\ Limits!Next /\ Keep10
    \/ focus = "statistics" /\ Stores!Next /\ Keep7

Spec == Init /\ [][Next]_vars

(* The editing of one workflow alone. *)
EditingSpec ==
    /\ focus = "workflow" /\ Editing!Init /\ Free5
    /\ [][Editing!Next /\ Keep5]_vars

-----------------------------------------------------------------------------
(* A workflow stays fit to run: the search for cycles is exact and an      *)
(* active workflow is acyclic with a trigger (workflow.go:213-249,         *)
(* 470-510), copies keep the connections of their sources unless two       *)
(* sources share node ids (workflow_domain_service.go:137-168,             *)
(* import_export.go:213-236), a circle of folders needs a move that        *)
(* overlapped another call or a parent that a caller wrote itself          *)
(* (folders.go:65-180), and sub-workflows that call each other stop at the *)
(* nesting limit, with failures going up to the first node that handles    *)
(* them (subworkflow.go:80-150).                                           *)
WorkflowsStayWhole ==
    /\ focus = "workflow" =>
         Editing!WellFormed /\ Editing!HasCycleExact /\ Editing!ActiveIsRunnable
    /\ focus = "copies" => Library!CopiesKeepConnections
    /\ focus = "folders" => Library!CircleIsUnchecked
    /\ focus = "deep" => DeepTree!CircleIsUnchecked
    /\ focus = "sub" => Runs!NestingIsBounded /\ Runs!FailureStopsAtHandlers

(* Nodes and expressions compute what they are for: an IF node and its     *)
(* opposite route apart unless equal numbers print differently             *)
(* (if_node.go:201-208), a merge by key keeps the fields and values of all *)
(* objects but repeats of a printed key, and keeping and removing matches  *)
(* divide the objects (merge_node.go:197-238), and an evaluation fails     *)
(* only on a field that begins and ends with an expression while arguments *)
(* are split at top-level commas and nowhere else (parser.go:172, 502).    *)
NodesRouteAndMerge ==
    /\ focus = "if" => Nodes!OppositesRouteApart
    /\ focus = "merge" => Nodes!ByKeyLosesOnlyRepeats /\ Nodes!MatchesDivide
    /\ focus = "settings" => Evaluated!OnlyWholeFieldsFail
    /\ focus = "arguments" => Split!SplitIsExact

(* substring answers a part of its text or panics, that exactly when an    *)
(* end lies before a start inside the text (functions.go:59-79); sorting,  *)
(* reversing and selecting keep the items of their lists; and the order in *)
(* which Go walks the date layouts decides four-digit years only           *)
(* (functions.go:766-783).                                                 *)
FunctionsAnswer ==
    focus = "functions" =>
      /\ Evaluated!SubstringNeedsOrder
      /\ Evaluated!ListsKeepTheirItems
      /\ Evaluated!OrderDecidesYearsOnly

(* Nothing is counted, admitted or delivered too often although tests and  *)
(* updates are separate calls: a link is used at most its limit and once   *)
(* more per call let in at the same time (sharing.go:300-311), the         *)
(* recorder keeps at most its size and one more per import                 *)
(* (replay.go:103-124), a second live debug session had been stopped and   *)
(* revived (debug.go:150-155), a broadcast that no Unsubscribe overlapped  *)
(* reaches each subscriber once (events.go:180-219), the end of an         *)
(* execution is announced twice only if it was reported twice at once      *)
(* (events.go:441-505), a rate limiter admits no more than its budget and  *)
(* what its own cleanups give back (rate_limit_advanced.go:149-236,        *)
(* ratelimit.go:104-112), and the statistics of executions in memory are   *)
(* exact whatever order the map is walked in, unless an execution took no  *)
(* time (persistence.go:218-257).                                          *)
CountedOnce ==
    /\ focus = "sharing" => Links!LinkUseIsBounded
    /\ focus = "replay" => Runs!SizeIsBounded
    /\ focus = "debug" => Runs!SecondSessionWasRevived
    /\ focus = "events" => Events!ReachesEachOnce
    /\ focus = "tracker" => Events!EndsOnce
    /\ focus = "limits" => Limits!AdmitsWithinBudget
    /\ focus = "statistics" => Stores!StatsAreExact

(* What the comment at the repository's Update says, that the lock is      *)
(* optimistic: a write succeeds only on the version its call loaded        *)
(* (workflow_repository.go:278).                                           *)
WritesWhatItLoaded == Editing!WritesWhatItLoaded
=============================================================================
