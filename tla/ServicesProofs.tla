----------------------------- MODULE ServicesProofs -----------------------------
(***************************************************************************)
(* What MCServices promises of the services around the engine, for any     *)
(* values of the constants.  The invariant of each service stands at the   *)
(* end of its module; a behaviour runs one service.                        *)
(***************************************************************************)
EXTENDS MCServices, FiniteSetTheorems, WellFoundedInduction, TLAPS

-----------------------------------------------------------------------------
(* The life of a service: what it opens is closed, and late enough.        *)

\* A sequence that is not empty is its head and its tail.
LEMMA HeadAndTail ==
  ASSUME NEW S, NEW s \in Seq(S), s # <<>>
  PROVE  /\ Head(s) \in S /\ Tail(s) \in Seq(S)
         /\ Servers!ToSet(s) = {Head(s)} \cup Servers!ToSet(Tail(s))
         /\ Head(s) = s[1] /\ 1 \in DOMAIN s
         /\ \A i \in DOMAIN Tail(s) : i + 1 \in DOMAIN s /\ Tail(s)[i] = s[i + 1]
<1>1. /\ Head(s) \in S /\ Tail(s) \in Seq(S)
      /\ Head(s) = s[1] /\ 1 \in DOMAIN s
      /\ Len(s) \in Nat \ {0} /\ Len(Tail(s)) = Len(s) - 1
      /\ DOMAIN s = 1..Len(s) /\ DOMAIN Tail(s) = 1..(Len(s) - 1)
      /\ \A i \in 1..(Len(s) - 1) : Tail(s)[i] = s[i + 1]
  OBVIOUS
<1>2. \A i \in DOMAIN Tail(s) : i + 1 \in DOMAIN s /\ Tail(s)[i] = s[i + 1]
  BY <1>1
<1>3. ASSUME NEW i \in 1..Len(s) PROVE i = 1 \/ \E j \in 1..(Len(s) - 1) : Tail(s)[j] = s[i]
  <2>1. PICK j \in Int : j = i - 1
    BY <1>1
  <2>2. i = 1 \/ (j \in 1..(Len(s) - 1) /\ j + 1 = i)
    BY <1>1, <2>1
  <2> QED
    BY <1>1, <2>2
<1>4. Servers!ToSet(s) = {Head(s)} \cup Servers!ToSet(Tail(s))
  <2>1. ASSUME NEW i \in 1..Len(s) PROVE s[i] \in {Head(s)} \cup Servers!ToSet(Tail(s))
    BY <1>1, <1>3 DEF Servers!ToSet
  <2>2. {Head(s)} \cup Servers!ToSet(Tail(s)) \subseteq Servers!ToSet(s)
    BY <1>1, <1>2 DEF Servers!ToSet
  <2> QED
    <3>1. Servers!ToSet(s) \subseteq {Head(s)} \cup Servers!ToSet(Tail(s))
      BY <1>1, <2>1 DEF Servers!ToSet
    <3> QED
      BY <2>2, <3>1
<1> QED
  BY <1>1, <1>2, <1>4

LEMMA OfConcat ==
  ASSUME NEW S, NEW s \in Seq(S), NEW t \in Seq(S)
  PROVE  /\ s \o t \in Seq(S)
         /\ \A i \in DOMAIN (s \o t) :
              (\E j \in DOMAIN s : (s \o t)[i] = s[j]) \/ (\E j \in DOMAIN t : (s \o t)[i] = t[j])
         /\ \A j \in DOMAIN s : \E i \in DOMAIN (s \o t) : (s \o t)[i] = s[j]
         /\ \A j \in DOMAIN t : \E i \in DOMAIN (s \o t) : (s \o t)[i] = t[j]
<1>1. /\ s \o t \in Seq(S) /\ Len(s) \in Nat /\ Len(t) \in Nat /\ Len(s \o t) = Len(s) + Len(t)
      /\ DOMAIN s = 1..Len(s) /\ DOMAIN t = 1..Len(t) /\ DOMAIN (s \o t) = 1..(Len(s) + Len(t))
  OBVIOUS
<1>2. /\ \A i \in 1..Len(s) : (s \o t)[i] = s[i]
      /\ \A j \in 1..Len(t) : (s \o t)[Len(s) + j] = t[j]
  OBVIOUS
<1>3. ASSUME NEW i \in 1..(Len(s) + Len(t)), i \notin 1..Len(s)
      PROVE  \E j \in 1..Len(t) : Len(s) + j = i
  <2>1. i - Len(s) \in 1..Len(t) /\ Len(s) + (i - Len(s)) = i
    BY <1>1, <1>3
  <2> QED
    BY <2>1
<1>4. /\ \A i \in 1..Len(s) : i \in 1..(Len(s) + Len(t))
      /\ \A j \in 1..Len(t) : Len(s) + j \in 1..(Len(s) + Len(t))
  BY <1>1
<1> QED
  BY <1>1, <1>2, <1>3, <1>4

\* What is opened, by main and by the server, is closed by Shutdown or by main;
\* the database is required, and closed after the requests have been waited for.
Names == {"database", "cache", "publisher", "scheduler", "workers", "telemetry"}
Steps == [name : Names, required : BOOLEAN]
Opening(o, defers, shutdown) ==
  /\ o \in Seq(Steps)
  /\ \A i \in DOMAIN o :
       /\ o[i].name \in Servers!ToSet(shutdown) \cup defers
       /\ o[i].name # "http" /\ (o[i].name = "database" => o[i].required)
Closing(shutdown) ==
  /\ shutdown \in Seq(Names \cup {"http"})
  /\ "http" \in Servers!ToSet(shutdown)
  /\ \A i, j \in DOMAIN shutdown : shutdown[i] = "database" /\ shutdown[j] = "http" => j < i
Stoppable(e) ==
  /\ Opening(e.main.opens, e.main.defers, e.shutdown)
  /\ Opening(e.opens, e.main.defers, e.shutdown)
  /\ Closing(e.shutdown)

Needs(name) == [name |-> name, required |-> TRUE]
Likes(name) == [name |-> name, required |-> FALSE]

\* The mains.
LEMMA Mains ==
  /\ Servers!PlainMain.opens = <<>> /\ Servers!PlainMain.defers = {}
  /\ Servers!TracedMain.opens = <<Needs("telemetry")>> /\ Servers!TracedMain.defers = {"telemetry"}
  /\ Servers!BareMain.opens = <<>> /\ Servers!BareMain.defers = {}
  /\ Servers!migrationMain.opens = <<Needs("database")>> /\ Servers!migrationMain.defers = {"database"}
  /\ Servers!executorMain.opens = <<Needs("workers")>> /\ Servers!executorMain.defers = {}
  /\ Servers!apiMain.opens = <<Needs("database")>> /\ Servers!apiMain.defers = {"database"}
BY DEF Servers!PlainMain, Servers!TracedMain, Servers!BareMain, Servers!migrationMain,
       Servers!executorMain, Servers!apiMain, Servers!Required, Needs

\* What the servers open.
LEMMA Opens ==
  /\ Servers!DatabaseOnly = <<Needs("database")>>
  /\ Servers!WithCache = <<Needs("database"), Likes("cache")>>
  /\ Servers!WithEvents = <<Needs("database"), Likes("cache"), Likes("publisher")>>
BY DEF Servers!DatabaseOnly, Servers!WithCache, Servers!WithEvents,
       Servers!Required, Servers!Optional, Needs, Likes

LEMMA NeedsAndLikes ==
  ASSUME NEW x \in Names
  PROVE  /\ Needs(x) \in Steps /\ Needs(x).name = x /\ Needs(x).required = TRUE
         /\ Likes(x) \in Steps /\ Likes(x).name = x /\ x # "http"
  BY DEF Needs, Likes, Steps, Names

\* The orders of Shutdown.
LEMMA Shutdowns ==
  /\ Closing(<<"http">>)
  /\ Closing(<<"workers", "http">>)
  /\ Closing(<<"http", "database">>)
  /\ Closing(<<"http", "database", "cache">>)
  /\ Closing(<<"http", "database", "cache", "publisher">>)
  /\ Closing(<<"scheduler", "http", "database", "cache", "publisher">>)
BY DEF Closing, Names, Servers!ToSet

\* What is opened by whom.
LEMMA Openings ==
  ASSUME NEW d, NEW c
  PROVE  /\ Opening(<<>>, d, c)
         /\ \A x \in Names : x \in Servers!ToSet(c) \cup d => Opening(<<Needs(x)>>, d, c)
<1>1. Opening(<<>>, d, c)
  BY DEF Opening
<1>2. ASSUME NEW x \in Names, x \in Servers!ToSet(c) \cup d
      PROVE  Opening(<<Needs(x)>>, d, c)
  <2>1. /\ Needs(x) \in Steps /\ Needs(x).name = x /\ Needs(x).required = TRUE /\ x # "http"
    BY NeedsAndLikes
  <2>2. <<Needs(x)>> \in Seq(Steps)
    BY <2>1
  <2> QED
    BY <1>2, <2>1, <2>2 DEF Opening
<1> QED
  BY <1>1, <1>2

LEMMA OpeningsInTurn ==
  ASSUME NEW d, NEW c, NEW p, NEW q, Opening(p, d, c), Opening(q, d, c)
  PROVE  Opening(p \o q, d, c)
<1>1. p \in Seq(Steps) /\ q \in Seq(Steps)
  BY DEF Opening
<1> QED
  BY <1>1, OfConcat DEF Opening

LEMMA OpensEvents ==
  ASSUME NEW d, NEW c, {"database", "cache"} \subseteq Servers!ToSet(c)
  PROVE  /\ Opening(Servers!WithCache, d, c)
         /\ "publisher" \in Servers!ToSet(c) => Opening(Servers!WithEvents, d, c)
<1>1. /\ Needs("database") \in Steps /\ Needs("database").name = "database" /\ Needs("database").required = TRUE
      /\ Likes("cache") \in Steps /\ Likes("cache").name = "cache"
      /\ Likes("publisher") \in Steps /\ Likes("publisher").name = "publisher"
  BY NeedsAndLikes DEF Names
<1>2. /\ <<Needs("database"), Likes("cache")>> \in Seq(Steps)
      /\ <<Needs("database"), Likes("cache"), Likes("publisher")>> \in Seq(Steps)
  BY <1>1
<1>3. Opening(<<Needs("database"), Likes("cache")>>, d, c)
  BY <1>1, <1>2 DEF Opening
<1>4. ASSUME "publisher" \in Servers!ToSet(c) PROVE Opening(<<Needs("database"), Likes("cache"), Likes("publisher")>>, d, c)
  BY <1>1, <1>2, <1>4 DEF Opening
<1> QED
  BY <1>3, <1>4, Opens

LEMMA ToSets ==
  /\ Servers!ToSet(<<"http">>) = {"http"}
  /\ Servers!ToSet(<<"workers", "http">>) = {"workers", "http"}
  /\ Servers!ToSet(<<"http", "database">>) = {"http", "database"}
  /\ Servers!ToSet(<<"http", "database", "cache">>) = {"http", "database", "cache"}
  /\ Servers!ToSet(<<"http", "database", "cache", "publisher">>) = {"http", "database", "cache", "publisher"}
  /\ Servers!ToSet(<<"scheduler", "http", "database", "cache", "publisher">>) = {"scheduler", "http", "database", "cache", "publisher"}
BY DEF Servers!ToSet

\* Every service can be stopped in order (server.go of each).
LEMMA EveryServiceStoppable == \A s \in DOMAIN Servers!Service : Stoppable(Servers!Service[s])
<1> SUFFICES ASSUME NEW s \in DOMAIN Servers!Service, NEW e, e = Servers!Service[s] PROVE Stoppable(e)
  OBVIOUS
<1>1. CASE s \in {"admin", "backup", "config", "gateway", "integration", "monitoring", "storage", "credential", "tenant"}
  <2>1. e.main \in {Servers!PlainMain, Servers!BareMain} /\ e.opens = <<>> /\ e.shutdown = <<"http">>
    BY <1>1 DEF Servers!Service, Servers!Entry, Servers!HttpOnly, Servers!adminMain, Servers!backupMain,
       Servers!configMain, Servers!gatewayMain, Servers!integrationMain, Servers!monitoringMain,
       Servers!storageMain, Servers!credentialMain, Servers!tenantMain
  <2>2. e.main.opens = <<>>
    BY <2>1, Mains
  <2> QED
    BY <2>1, <2>2, Openings, Shutdowns DEF Stoppable
<1>2. CASE s = "search"
  <2>1. e.main = Servers!TracedMain /\ e.opens = <<>> /\ e.shutdown = <<"http">>
    BY <1>2 DEF Servers!Service, Servers!Entry, Servers!HttpOnly, Servers!searchMain, Servers!searchShutdown
  <2>2. Opening(e.main.opens, e.main.defers, e.shutdown)
    BY <2>1, Mains, Openings DEF Names
  <2> QED
    BY <2>1, <2>2, Openings, Shutdowns DEF Stoppable
<1>3. CASE s \in {"migration", "api"}
  <2>1. e.main \in {Servers!migrationMain, Servers!apiMain} /\ e.opens = <<>> /\ e.shutdown = <<"http">>
    BY <1>3 DEF Servers!Service, Servers!Entry, Servers!HttpOnly
  <2>2. e.main.opens = <<Needs("database")>> /\ e.main.defers = {"database"}
    BY <2>1, Mains
  <2>3. Opening(e.main.opens, e.main.defers, e.shutdown)
    BY <2>2, Openings DEF Names
  <2> QED
    BY <2>1, <2>3, Openings, Shutdowns DEF Stoppable
<1>4. CASE s = "executor"
  <2>1. e.main = Servers!executorMain /\ e.opens = <<>> /\ e.shutdown = <<"workers", "http">>
    BY <1>4 DEF Servers!Service, Servers!Entry, Servers!executorShutdown
  <2>2. Opening(e.main.opens, e.main.defers, e.shutdown)
    BY <2>1, Mains, Openings, ToSets DEF Names
  <2> QED
    BY <2>1, <2>2, Openings, Shutdowns DEF Stoppable
<1>5. ASSUME e.main = Servers!TracedMain PROVE Opening(e.main.opens, e.main.defers, e.shutdown)
  BY <1>5, Mains, Openings DEF Names
<1>6. CASE s \in {"auth", "user", "workflow"}
  <2>1. e.main = Servers!TracedMain /\ e.opens = Servers!DatabaseOnly /\ e.shutdown = <<"http", "database">>
    BY <1>6 DEF Servers!Service, Servers!Entry, Servers!authMain, Servers!userMain, Servers!workflowMain,
       Servers!authOpens, Servers!userOpens, Servers!workflowOpens,
       Servers!authShutdown, Servers!userShutdown, Servers!workflowShutdown
  <2>2. Opening(e.opens, e.main.defers, e.shutdown)
    BY <2>1, Opens, Openings, ToSets DEF Names
  <2> QED
    BY <1>5, <2>1, <2>2, Shutdowns DEF Stoppable
<1>7. CASE s = "analytics"
  <2>1. e.main = Servers!TracedMain /\ e.opens = Servers!WithCache /\ e.shutdown = <<"http", "database", "cache">>
    BY <1>7 DEF Servers!Service, Servers!Entry, Servers!analyticsMain, Servers!analyticsOpens, Servers!analyticsShutdown
  <2>2. {"database", "cache"} \subseteq Servers!ToSet(e.shutdown)
    BY <2>1, ToSets
  <2>3. Opening(e.opens, e.main.defers, e.shutdown)
    BY <2>1, <2>2, OpensEvents
  <2> QED
    BY <1>5, <2>1, <2>3, Shutdowns DEF Stoppable
<1>8. CASE s \in {"execution", "node", "notification", "webhook"}
  <2>1. e.main = Servers!TracedMain /\ e.opens = Servers!WithEvents /\ e.shutdown = <<"http", "database", "cache", "publisher">>
    BY <1>8 DEF Servers!Service, Servers!Entry, Servers!executionMain, Servers!nodeMain, Servers!notificationMain,
       Servers!webhookMain, Servers!executionOpens, Servers!nodeOpens, Servers!notificationOpens, Servers!webhookOpens,
       Servers!executionShutdown, Servers!nodeShutdown, Servers!notificationShutdown, Servers!webhookShutdown
  <2>2. {"database", "cache"} \subseteq Servers!ToSet(e.shutdown) /\ "publisher" \in Servers!ToSet(e.shutdown)
    BY <2>1, ToSets
  <2>3. Opening(e.opens, e.main.defers, e.shutdown)
    BY <2>1, <2>2, OpensEvents
  <2> QED
    BY <1>5, <2>1, <2>3, Shutdowns DEF Stoppable
<1>9. CASE s = "schedule"
  <2>1. /\ e.main = Servers!TracedMain
        /\ e.opens = Servers!WithEvents \o <<Needs("scheduler")>>
        /\ e.shutdown = <<"scheduler", "http", "database", "cache", "publisher">>
    BY <1>9 DEF Servers!Service, Servers!Entry, Servers!scheduleMain, Servers!scheduleOpens,
       Servers!scheduleShutdown, Servers!Required, Needs
  <2>2. {"database", "cache", "publisher", "scheduler"} \subseteq Servers!ToSet(e.shutdown)
    BY <2>1, ToSets
  <2>3. Opening(Servers!WithEvents, e.main.defers, e.shutdown) /\ Opening(<<Needs("scheduler")>>, e.main.defers, e.shutdown)
    BY <2>2, OpensEvents, Openings DEF Names
  <2>4. Opening(e.opens, e.main.defers, e.shutdown)
    BY <2>1, <2>3, OpeningsInTurn
  <2> QED
    BY <1>5, <2>1, <2>4, Shutdowns DEF Stoppable
<1> QED
  BY <1>1, <1>2, <1>3, <1>4, <1>6, <1>7, <1>8, <1>9 DEF Servers!Service

\* What the invariant needs of the service that runs.
LEMMA ThisIsStoppable ==
  ASSUME Servers!LifeInv
  PROVE  /\ Servers!Openings \in Seq(Servers!ToSet(Servers!Openings))
         /\ \A r \in Servers!ToSet(Servers!Openings) :
              /\ r.name \in Servers!ToSet(Servers!this.shutdown) \cup Servers!this.main.defers
              /\ r.name # "http" /\ (r.name = "database" => r.required)
         /\ Servers!this.shutdown \in Seq(Servers!ToSet(Servers!this.shutdown))
         /\ Closing(Servers!this.shutdown)
<1>1. PICK e : e = Servers!this
  OBVIOUS
<1>2. Stoppable(e)
  BY <1>1, EveryServiceStoppable DEF Servers!LifeInv, Servers!this
<1>3. Opening(e.main.opens \o e.opens, e.main.defers, e.shutdown)
  BY <1>2, OpeningsInTurn DEF Stoppable
<1>4. PICK o : o = Servers!Openings
  OBVIOUS
<1>5. Opening(o, e.main.defers, e.shutdown)
  BY <1>1, <1>3, <1>4 DEF Servers!Openings
<1>6. ASSUME NEW S, NEW q \in Seq(S) PROVE q \in Seq(Servers!ToSet(q))
  <2>1. Len(q) \in Nat /\ q = [i \in 1..Len(q) |-> q[i]] /\ \A i \in 1..Len(q) : q[i] \in Servers!ToSet(q)
    BY DEF Servers!ToSet
  <2> QED
    BY <2>1
<1>7. o \in Seq(Servers!ToSet(o)) /\ e.shutdown \in Seq(Servers!ToSet(e.shutdown))
  BY <1>2, <1>5, <1>6 DEF Opening, Stoppable, Closing
<1>8. \A r \in Servers!ToSet(o) :
        /\ r.name \in Servers!ToSet(e.shutdown) \cup e.main.defers
        /\ r.name # "http" /\ (r.name = "database" => r.required)
  BY <1>5 DEF Opening, Servers!ToSet
<1> QED
  BY <1>1, <1>2, <1>4, <1>7, <1>8 DEF Stoppable

LEMMA LifeStart == Servers!Init => Servers!LifeInv
  BY DEF Servers!Init, Servers!LifeInv, Servers!ClosedWhenReturned

\* No step of main, of a request or of a task undoes the invariant.
LEMMA LifeStep == Servers!LifeInv /\ Servers!Next => Servers!LifeInv'
<1> SUFFICES ASSUME Servers!LifeInv, Servers!Next PROVE Servers!LifeInv'
  OBVIOUS
<1> DEFINE covered == Servers!ToSet(Servers!this.shutdown) \cup Servers!this.main.defers
<1>1. /\ s1 \in DOMAIN Servers!Service /\ s6 \in Nat
      /\ s2 \in {"config", "opening", "waiting", "stopping", "returned", "fatal", "panicked"}
      /\ s2 \in {"config", "opening"} => s6 = 0 /\ s5 = "off"
      /\ s2 = "config" => s4 = {}
      /\ "http" \notin s4 /\ s5 \in {"off", "listening", "failed", "closed"}
      /\ s2 = "opening" =>
           /\ s3 \in Seq(Servers!ToSet(Servers!Openings))
           /\ Servers!NeedsDatabase => "database" \in s4 \cup {r.name : r \in Servers!ToSet(s3)}
      /\ s2 \in {"opening", "waiting"} => s4 \subseteq covered
      /\ s2 = "waiting" /\ Servers!NeedsDatabase => "database" \in s4
      /\ s2 = "stopping" =>
           /\ s3 \in Seq(Servers!ToSet(Servers!this.shutdown))
           /\ s4 \subseteq Servers!ToSet(s3) \cup Servers!this.main.defers
           /\ \A i, j \in DOMAIN s3 : s3[i] = "database" /\ s3[j] = "http" => j < i
           /\ "http" \in Servers!ToSet(s3) => (Servers!NeedsDatabase => "database" \in s4)
           /\ "http" \notin Servers!ToSet(s3) => s5 \in {"closed", "failed"} /\ (s6 = 0 \/ s8)
      /\ s2 = "returned" => s4 = {}
  BY DEF Servers!LifeInv, Servers!ClosedWhenReturned
<1>2. s1' = s1 /\ Servers!this' = Servers!this /\ Servers!Openings' = Servers!Openings
      /\ (Servers!NeedsDatabase' <=> Servers!NeedsDatabase)
  <2>1. s1' = s1
    BY DEF Servers!Next, Servers!LoadConfig, Servers!initialize, Servers!New, Servers!Start,
       Servers!RequestComes, Servers!RequestEnds, Servers!TaskEnds, Servers!Signal, Servers!ListenerFailed,
       Servers!Wake, Servers!HttpShutdown, Servers!Close, Servers!Return
  <2> QED
    BY <2>1 DEF Servers!this, Servers!Openings, Servers!NeedsDatabase
<1> HIDE DEF covered
<1>3. /\ Servers!Openings \in Seq(Servers!ToSet(Servers!Openings))
      /\ \A r \in Servers!ToSet(Servers!Openings) : r.name \in covered /\ r.name # "http" /\ (r.name = "database" => r.required)
      /\ Servers!this.shutdown \in Seq(Servers!ToSet(Servers!this.shutdown))
      /\ Closing(Servers!this.shutdown)
  BY ThisIsStoppable DEF covered
<1>4. covered' = covered
  BY <1>2 DEF covered
<1>5. CASE Servers!LoadConfig
  <2>1. CASE s2' = "opening"
    BY <1>1, <1>2, <1>3, <1>5, <2>1 DEF Servers!LoadConfig, Servers!LifeInv, Servers!ClosedWhenReturned, Servers!Openings, Servers!NeedsDatabase
  <2>2. CASE s2' = "panicked"
    BY <1>1, <1>2, <1>5, <2>2 DEF Servers!LoadConfig, Servers!LifeInv, Servers!ClosedWhenReturned
  <2> QED
    BY <1>5, <2>1, <2>2 DEF Servers!LoadConfig
<1>6. CASE Servers!initialize
  <2>1. /\ s3 # <<>> /\ s3 \in Seq(Servers!ToSet(Servers!Openings)) /\ s2 = "opening"
        /\ s5' = s5 /\ s6' = s6
    BY <1>1, <1>6 DEF Servers!initialize
  <2>2. /\ Head(s3) \in Servers!ToSet(Servers!Openings) /\ Tail(s3) \in Seq(Servers!ToSet(Servers!Openings))
        /\ Servers!ToSet(s3) = {Head(s3)} \cup Servers!ToSet(Tail(s3))
    BY <2>1, HeadAndTail
  <2>3. Head(s3).name \in covered /\ Head(s3).name # "http" /\ (Head(s3).name = "database" => Head(s3).required)
    BY <1>3, <2>2
  <2>4. CASE s4' = s4 \cup {Head(s3).name} /\ s3' = Tail(s3) /\ s2' = s2
    BY <1>1, <1>2, <2>1, <2>2, <2>3, <2>4 DEF Servers!LifeInv, Servers!ClosedWhenReturned, covered
  <2>5. CASE s4' = s4 /\ s2' = "fatal"
    BY <1>1, <1>2, <2>1, <2>5 DEF Servers!LifeInv, Servers!ClosedWhenReturned
  <2>6. CASE s4' = s4 /\ ~Head(s3).required /\ s3' = Tail(s3) /\ s2' = s2
    BY <1>1, <1>2, <2>1, <2>2, <2>3, <2>6 DEF Servers!LifeInv, Servers!ClosedWhenReturned, covered
  <2> QED
    BY <1>6, <2>4, <2>5, <2>6 DEF Servers!initialize
<1>7. CASE Servers!New
  <2>1. s3 = <<>> /\ s2 = "opening" /\ s2' = "waiting" /\ s4' = s4 /\ s6' = s6 /\ s5' = s5
    BY <1>7 DEF Servers!New
  <2>2. Servers!ToSet(s3) = {}
    BY <2>1 DEF Servers!ToSet
  <2> QED
    BY <1>1, <1>2, <2>1, <2>2 DEF Servers!LifeInv, Servers!ClosedWhenReturned, covered
<1>8. CASE Servers!Start
  BY <1>1, <1>2, <1>8 DEF Servers!Start, Servers!LifeInv, Servers!ClosedWhenReturned, covered
<1>9. CASE Servers!RequestComes
  BY <1>1, <1>2, <1>9 DEF Servers!RequestComes, Servers!LifeInv, Servers!ClosedWhenReturned, covered
<1>10. CASE Servers!RequestEnds
  BY <1>1, <1>2, <1>10 DEF Servers!RequestEnds, Servers!LifeInv, Servers!ClosedWhenReturned, covered
<1>11. CASE Servers!TaskEnds
  BY <1>1, <1>2, <1>11 DEF Servers!TaskEnds, Servers!LifeInv, Servers!ClosedWhenReturned, covered
<1>12. CASE Servers!Wake
  BY <1>1, <1>2, <1>3, <1>12 DEF Servers!Wake, Servers!LifeInv, Servers!ClosedWhenReturned, covered, Closing
<1>13. CASE Servers!HttpShutdown
  <2>1. /\ s2 = "stopping" /\ s3 # <<>> /\ Head(s3) = "http" /\ s4' = s4 /\ s6' = s6
        /\ s3 \in Seq(Servers!ToSet(Servers!this.shutdown))
    BY <1>1, <1>13 DEF Servers!HttpShutdown
  <2>2. /\ Tail(s3) \in Seq(Servers!ToSet(Servers!this.shutdown))
        /\ Servers!ToSet(s3) = {"http"} \cup Servers!ToSet(Tail(s3))
        /\ \A i \in DOMAIN Tail(s3) : i + 1 \in DOMAIN s3 /\ Tail(s3)[i] = s3[i + 1]
        /\ DOMAIN Tail(s3) \subseteq Nat
    BY <2>1, HeadAndTail
  <2>3. CASE s5' = "closed" /\ s2' = s2 /\ s3' = s3 /\ s8' = s8
    BY <1>1, <1>2, <2>1, <2>2, <2>3 DEF Servers!LifeInv, Servers!ClosedWhenReturned
  <2>4. CASE s2' = "fatal" /\ s5' = s5
    BY <1>1, <1>2, <2>1, <2>4 DEF Servers!LifeInv, Servers!ClosedWhenReturned
  <2>5. CASE s5' = s5 /\ s5 \notin {"off", "listening"} /\ s2' = s2 /\ s3' = Tail(s3) /\ (s6 = 0 \/ s8' = TRUE)
    <3>1. \A i, j \in DOMAIN Tail(s3) : Tail(s3)[i] = "database" /\ Tail(s3)[j] = "http" => j < i
      BY <1>1, <2>1, <2>2
    <3>2. s4 \subseteq Servers!ToSet(Tail(s3)) \cup Servers!this.main.defers
      BY <1>1, <2>1, <2>2
    <3> QED
      BY <1>1, <1>2, <2>1, <2>2, <2>5, <3>1, <3>2 DEF Servers!LifeInv, Servers!ClosedWhenReturned
  <2> QED
    BY <1>13, <2>3, <2>4, <2>5 DEF Servers!HttpShutdown
<1>14. CASE Servers!Close
  <2>1. /\ s2 = "stopping" /\ s3 # <<>> /\ Head(s3) # "http" /\ s4' = s4 \ {Head(s3)} /\ s3' = Tail(s3)
        /\ s2' = s2 /\ s5' = s5 /\ s6' = s6 /\ s8' = s8
        /\ s3 \in Seq(Servers!ToSet(Servers!this.shutdown))
    BY <1>1, <1>14 DEF Servers!Close
  <2>2. /\ Tail(s3) \in Seq(Servers!ToSet(Servers!this.shutdown))
        /\ Servers!ToSet(s3) = {Head(s3)} \cup Servers!ToSet(Tail(s3))
        /\ \A i \in DOMAIN Tail(s3) : i + 1 \in DOMAIN s3 /\ Tail(s3)[i] = s3[i + 1]
        /\ DOMAIN Tail(s3) \subseteq Nat /\ DOMAIN s3 \subseteq Nat \ {0}
        /\ Head(s3) = s3[1] /\ 1 \in DOMAIN s3
    BY <2>1, HeadAndTail
  <2>3. \A i, j \in DOMAIN Tail(s3) : Tail(s3)[i] = "database" /\ Tail(s3)[j] = "http" => j < i
    BY <1>1, <2>1, <2>2
  <2>4. Head(s3) = "database" => "http" \notin Servers!ToSet(s3)
    <3>1. ASSUME Head(s3) = "database", NEW j \in DOMAIN s3, s3[j] = "http" PROVE FALSE
      BY <1>1, <2>1, <2>2, <3>1
    <3> QED
      BY <3>1 DEF Servers!ToSet
  <2> QED
    BY <1>1, <1>2, <2>1, <2>2, <2>3, <2>4 DEF Servers!LifeInv, Servers!ClosedWhenReturned
<1>15. CASE Servers!Return
  <2>1. s2 = "stopping" /\ s3 = <<>> /\ s4' = s4 \ Servers!this.main.defers /\ s2' = "returned" /\ s6' = s6 /\ s5' = s5
    BY <1>15 DEF Servers!Return
  <2>2. Servers!ToSet(s3) = {}
    BY <2>1 DEF Servers!ToSet
  <2> QED
    BY <1>1, <1>2, <2>1, <2>2 DEF Servers!LifeInv, Servers!ClosedWhenReturned
<1> QED
  BY <1>5, <1>6, <1>7, <1>8, <1>9, <1>10, <1>11, <1>12, <1>13, <1>14, <1>15
     DEF Servers!Next, Servers!Signal, Servers!ListenerFailed

LEMMA LifeIsSafe == Servers!LifeInv => Servers!ServedWithDatabase /\ Servers!ClosedWhenReturned
  BY DEF Servers!LifeInv, Servers!ServedWithDatabase, Servers!Ended

-----------------------------------------------------------------------------
(* Emails: what went out twice was not recorded once.                      *)

LEMMA MailStart == Inbox!MailInit => Inbox!MailInv
<1> SUFFICES ASSUME Inbox!MailInit PROVE Inbox!MailInv
  OBVIOUS
<1>1. /\ s1 = [i \in EmailIds |-> None] /\ s2 = [i \in EmailIds |-> [pc |-> "idle"]]
      /\ s3 = [b \in Calls |-> Inbox!EmptyBatch] /\ s4 = [b \in Calls |-> None]
      /\ s5 = [i \in EmailIds |-> 0]
  BY DEF Inbox!MailInit, Inbox!NewEmailService, Inbox!IdleMail
<1>2. Inbox!EmptyBatch \in [EmailIds -> Inbox!MailRecords \cup {None}]
  BY DEF Inbox!EmptyBatch
<1>3. Inbox!MailTyped
  BY <1>1, <1>2 DEF Inbox!MailTyped
<1>4. ASSUME NEW i \in EmailIds PROVE Inbox!Tracked(i) /\ Inbox!Recorded(i)
  <2>1. \A b \in Calls : ~Inbox!Holds(b, i) /\ ~Inbox!Posts(b, i)
    BY <1>1 DEF Inbox!Holds, Inbox!Posts, Inbox!EmptyBatch
  <2> QED
    BY <1>1, <2>1 DEF Inbox!Tracked, Inbox!Recorded
<1> QED
  BY <1>3, <1>4 DEF Inbox!MailInv

\* An email's outcome.
LEMMA Marked ==
  ASSUME NEW e \in Inbox!MailRecords
  PROVE  /\ Inbox!MarkSent(e) \in Inbox!MailRecords /\ Inbox!MarkSent(e).status = "sent"
         /\ Inbox!MarkFailed(e) \in Inbox!MailRecords /\ Inbox!MarkFailed(e).status = "failed"
         /\ \A after \in Inbox!Outcomes(e) : after \in Inbox!MailRecords /\ after.status \in {"sent", "failed"}
<1>1. PICK m : m = Inbox!MarkSent(e)
  OBVIOUS
<1>2. m = [status |-> "sent", retries |-> e.retries]
  BY <1>1 DEF Inbox!MarkSent, Inbox!MailRecords
<1>3. PICK f : f = Inbox!MarkFailed(e)
  OBVIOUS
<1>4. f = [status |-> "failed", retries |-> e.retries + 1]
  BY <1>3 DEF Inbox!MarkFailed, Inbox!MailRecords
<1>5. m \in Inbox!MailRecords /\ f \in Inbox!MailRecords
  BY <1>2, <1>4 DEF Inbox!MailRecords
<1> QED
  BY <1>1, <1>2, <1>3, <1>4, <1>5 DEF Inbox!Outcomes

LEMMA NewIsEmail == Inbox!NewEmail \in Inbox!MailRecords /\ Inbox!NewEmail # None
  BY EmailAssumption DEF Inbox!NewEmail, Inbox!MailRecords

\* An email that no step touches stays as it is.
Hands(i) ==
  \A b \in Calls :
    /\ Inbox!Holds(b, i)' = Inbox!Holds(b, i) /\ Inbox!Posts(b, i)' = Inbox!Posts(b, i)
    /\ Inbox!Posts(b, i) => s4'[b] = s4[b]
Untouched(i) == s1'[i] = s1[i] /\ s2'[i] = s2[i] /\ s5'[i] = s5[i] /\ Hands(i)
Tracks(i) == Inbox!Tracked(i)' /\ (i \notin s6' => Inbox!Recorded(i)')

LEMMA Unmoved == s3' = s3 /\ s4' = s4 => \A i \in EmailIds : Hands(i)
BY DEF Hands, Inbox!Holds, Inbox!Posts

LEMMA StaysTracked ==
  ASSUME Inbox!MailInv, NEW i \in EmailIds, Untouched(i), s6 \subseteq s6'
  PROVE  Tracks(i)
<1>1. Inbox!Tracked(i) /\ (i \notin s6 => Inbox!Recorded(i))
  BY DEF Inbox!MailInv
<1>2. Inbox!Tracked(i)'
  BY <1>1 DEF Untouched, Hands, Inbox!Tracked
<1>3. ASSUME i \notin s6' PROVE Inbox!Recorded(i)'
  <2>1. Inbox!Recorded(i)
    BY <1>1, <1>3
  <2>2. ASSUME NEW b \in Calls, Inbox!Holds(b, i)' \/ Inbox!Posts(b, i)' PROVE Inbox!InBatch(b, i)'
    <3>1. Inbox!InBatch(b, i)
      BY <2>1, <2>2 DEF Untouched, Hands, Inbox!Recorded
    <3> QED
      BY <3>1 DEF Untouched, Hands, Inbox!InBatch
  <2> QED
    BY <2>1, <2>2 DEF Untouched, Hands, Inbox!Recorded
<1> QED
  BY <1>2, <1>3 DEF Tracks

LEMMA MailQueued ==
  ASSUME Inbox!MailInv, NEW i \in EmailIds, Inbox!queueAndSend(i)
  PROVE  Inbox!MailInv'
<1>1. /\ s1[i] = None /\ s1' = [s1 EXCEPT ![i] = Inbox!NewEmail]
      /\ s2' = [s2 EXCEPT ![i] = [pc |-> "send", email |-> Inbox!NewEmail]]
      /\ s3' = s3 /\ s4' = s4 /\ s5' = s5 /\ s6' = s6
  BY DEF Inbox!queueAndSend, Inbox!Create
<1>2. Inbox!MailTyped /\ Inbox!Tracked(i) /\ (i \notin s6 => Inbox!Recorded(i))
  BY DEF Inbox!MailInv
<1>3. Inbox!MailTyped'
  BY <1>1, <1>2, NewIsEmail DEF Inbox!MailTyped
<1>4. ASSUME NEW j \in EmailIds, j # i PROVE Tracks(j)
  <2>1. Untouched(j)
    BY <1>1, <1>2, <1>4, Unmoved DEF Untouched, Inbox!MailTyped
  <2> QED
    BY <1>1, <2>1, StaysTracked
<1>5. s1'[i] = Inbox!NewEmail /\ s2'[i].pc = "send" /\ s2'[i].email = Inbox!NewEmail
  BY <1>1, <1>2 DEF Inbox!MailTyped
<1>6. \A b \in Calls : ~Inbox!Holds(b, i)' /\ ~Inbox!Posts(b, i)'
  BY <1>1, <1>2, Unmoved DEF Hands, Inbox!Tracked
<1>7. Inbox!Tracked(i)'
  BY <1>5, <1>6, NewIsEmail DEF Inbox!Tracked
<1>8. i \notin s6' => Inbox!Recorded(i)'
  BY <1>1, <1>2, <1>5, <1>6 DEF Inbox!Tracked, Inbox!Recorded
<1> QED
  BY <1>3, <1>4, <1>7, <1>8 DEF Inbox!MailInv, Tracks

LEMMA MailSent ==
  ASSUME Inbox!MailInv, NEW i \in EmailIds, Inbox!ImmediateSend(i)
  PROVE  Inbox!MailInv'
<1>1. PICK after \in Inbox!Outcomes(s2[i].email) :
        /\ s5' = [s5 EXCEPT ![i] = IF after.status = "sent" THEN @ + 1 ELSE @]
        /\ s2' = [s2 EXCEPT ![i] = [pc |-> "update", email |-> after]]
  BY DEF Inbox!ImmediateSend, Inbox!ProviderSend
<1>2. s2[i].pc = "send" /\ s1' = s1 /\ s3' = s3 /\ s4' = s4 /\ s6' = s6
  BY DEF Inbox!ImmediateSend
<1>3. Inbox!MailTyped /\ Inbox!Tracked(i) /\ (i \notin s6 => Inbox!Recorded(i))
  BY DEF Inbox!MailInv
<1>4. after \in Inbox!MailRecords
  BY <1>1, <1>2, <1>3, Marked DEF Inbox!Tracked
<1>5. Inbox!MailTyped'
  BY <1>1, <1>2, <1>3 DEF Inbox!MailTyped
<1>6. ASSUME NEW j \in EmailIds, j # i PROVE Tracks(j)
  <2>1. Untouched(j)
    BY <1>1, <1>2, <1>3, <1>6, Unmoved DEF Untouched, Inbox!MailTyped
  <2> QED
    BY <1>2, <2>1, StaysTracked
<1>7. s2'[i].pc = "update" /\ s2'[i].email = after
  BY <1>1, <1>3 DEF Inbox!MailTyped
<1>8. Hands(i)
  BY <1>2, Unmoved
<1>9. Inbox!Tracked(i)'
  BY <1>2, <1>3, <1>4, <1>7, <1>8 DEF Hands, Inbox!Tracked
<1>10. ASSUME i \notin s6' PROVE Inbox!Recorded(i)'
  <2>1. s5[i] = 0 /\ \A b \in Calls : ~Inbox!Holds(b, i) /\ ~Inbox!Posts(b, i)
    BY <1>2, <1>3, <1>10 DEF Inbox!Recorded, Inbox!InBatch
  <2>2. \A b \in Calls : ~Inbox!Holds(b, i)' /\ ~Inbox!Posts(b, i)'
    BY <1>8, <2>1 DEF Hands
  <2>3. s5'[i] = IF after.status = "sent" THEN 1 ELSE 0
    BY <1>1, <1>3, <2>1 DEF Inbox!MailTyped
  <2> QED
    BY <1>7, <2>2, <2>3 DEF Inbox!Recorded
<1> QED
  BY <1>5, <1>6, <1>9, <1>10 DEF Inbox!MailInv, Tracks

LEMMA MailUpdated ==
  ASSUME Inbox!MailInv, NEW i \in EmailIds, Inbox!ImmediateUpdate(i)
  PROVE  Inbox!MailInv'
<1>1. /\ s2[i].pc = "update" /\ s2' = [s2 EXCEPT ![i] = [pc |-> "done"]]
      /\ s3' = s3 /\ s4' = s4 /\ s5' = s5
      /\ \/ s1' = [s1 EXCEPT ![i] = s2[i].email] /\ s6' = s6
         \/ s1' = s1 /\ s6' = s6 \cup {i}
  BY DEF Inbox!ImmediateUpdate, Inbox!UpdateEmail
<1>2. Inbox!MailTyped /\ Inbox!Tracked(i) /\ (i \notin s6 => Inbox!Recorded(i))
  BY DEF Inbox!MailInv
<1>3. s2[i].email \in Inbox!MailRecords
  BY <1>1, <1>2 DEF Inbox!Tracked
<1>4. Inbox!MailTyped'
  BY <1>1, <1>2, <1>3 DEF Inbox!MailTyped
<1>5. ASSUME NEW j \in EmailIds, j # i PROVE Tracks(j)
  <2>1. Untouched(j)
    BY <1>1, <1>2, <1>5, Unmoved DEF Untouched, Inbox!MailTyped
  <2> QED
    BY <1>1, <2>1, StaysTracked
<1>6. s2'[i].pc = "done" /\ s1'[i] \in {s1[i], s2[i].email}
  BY <1>1, <1>2 DEF Inbox!MailTyped
<1>7. Hands(i)
  BY <1>1, Unmoved
<1>8. Inbox!Tracked(i)'
  BY <1>1, <1>2, <1>3, <1>6, <1>7, EmailAssumption DEF Hands, Inbox!Tracked
<1>9. ASSUME i \notin s6' PROVE Inbox!Recorded(i)'
  <2>1. s1' = [s1 EXCEPT ![i] = s2[i].email] /\ Inbox!Recorded(i)
    BY <1>1, <1>2, <1>9
  <2>2. s1'[i] = s2[i].email
    BY <1>2, <2>1 DEF Inbox!MailTyped
  <2>3. /\ s5[i] <= 1 /\ s5[i] \in Nat /\ (s5[i] = 1 => s2[i].email.status = "sent")
        /\ \A b \in Calls : ~Inbox!Holds(b, i) /\ ~Inbox!Posts(b, i)
    BY <1>1, <1>2, <2>1 DEF Inbox!Recorded, Inbox!InBatch, Inbox!MailTyped
  <2>4. s5'[i] <= 1 /\ (s1'[i].status = "pending" => s5'[i] = 0)
    BY <1>1, <2>2, <2>3
  <2>5. \A b \in Calls : ~Inbox!Holds(b, i)' /\ ~Inbox!Posts(b, i)'
    BY <1>7, <2>3 DEF Hands
  <2> QED
    BY <1>6, <2>4, <2>5 DEF Inbox!Recorded
<1> QED
  BY <1>4, <1>5, <1>8, <1>9 DEF Inbox!MailInv, Tracks

\* A batch takes what is pending: an email that is recorded was in no hands.
LEMMA MailListed ==
  ASSUME Inbox!MailInv, NEW b \in Calls, Inbox!ProcessPendingEmails(b)
  PROVE  Inbox!MailInv'
<1>1. PICK f : /\ f = [i \in EmailIds |-> IF i \in Inbox!ListPending THEN s1[i] ELSE None]
               /\ s3' = [s3 EXCEPT ![b] = f]
  BY DEF Inbox!ProcessPendingEmails
<1>2. /\ s3[b] = Inbox!EmptyBatch /\ s4[b] = None
      /\ s6' = s6 \cup {i \in Inbox!ListPending : Inbox!Taken(i)}
      /\ s1' = s1 /\ s2' = s2 /\ s4' = s4 /\ s5' = s5
  BY DEF Inbox!ProcessPendingEmails
<1>3. Inbox!MailTyped
  BY DEF Inbox!MailInv
<1>4. f \in [EmailIds -> Inbox!MailRecords \cup {None}]
  BY <1>1, <1>3 DEF Inbox!MailTyped
<1>5. Inbox!MailTyped' /\ s3'[b] = f /\ \A c \in Calls : c # b => s3'[c] = s3[c]
  BY <1>1, <1>2, <1>3, <1>4 DEF Inbox!MailTyped
<1>6. ASSUME NEW i \in EmailIds
      PROVE  /\ \A c \in Calls : Inbox!Posts(c, i)' = Inbox!Posts(c, i)
             /\ \A c \in Calls : c # b => Inbox!Holds(c, i)' = Inbox!Holds(c, i)
             /\ ~Inbox!Holds(b, i) /\ ~Inbox!Posts(b, i)
             /\ (Inbox!Holds(b, i)' <=> i \in Inbox!ListPending)
  <2>1. ~Inbox!Holds(b, i) /\ ~Inbox!Posts(b, i)
    BY <1>2 DEF Inbox!Holds, Inbox!Posts, Inbox!EmptyBatch
  <2>2. Inbox!Holds(b, i)' <=> i \in Inbox!ListPending
    BY <1>1, <1>5 DEF Inbox!Holds, Inbox!ListPending
  <2> QED
    BY <1>2, <1>5, <2>1, <2>2 DEF Inbox!Holds, Inbox!Posts
<1>7. ASSUME NEW i \in EmailIds, i \notin Inbox!ListPending PROVE Tracks(i)
  <2>1. Untouched(i)
    <3>1. \A c \in Calls : Inbox!Holds(c, i)' = Inbox!Holds(c, i)
      <4>1. Inbox!Holds(b, i)' = FALSE /\ Inbox!Holds(b, i) = FALSE
        BY <1>6, <1>7 DEF Inbox!Holds
      <4> QED
        BY <1>6, <4>1
    <3> QED
      BY <1>2, <1>6, <3>1 DEF Untouched, Hands
  <2> QED
    BY <1>2, <2>1, StaysTracked
<1>8. ASSUME NEW i \in EmailIds, i \in Inbox!ListPending PROVE Tracks(i)
  <2>1. s1[i] # None /\ s1[i].status = "pending" /\ Inbox!Tracked(i) /\ (i \notin s6 => Inbox!Recorded(i))
    BY <1>8 DEF Inbox!ListPending, Inbox!MailInv
  <2>2. Inbox!Tracked(i)'
    BY <1>2, <2>1 DEF Inbox!Tracked
  <2>3. ASSUME i \notin s6' PROVE Inbox!Recorded(i)'
    <3>1. ~Inbox!Taken(i) /\ Inbox!Recorded(i)
      BY <1>2, <1>8, <2>1, <2>3
    <3>2. s2[i].pc = "done" /\ \A c \in Calls : ~Inbox!Holds(c, i) /\ ~Inbox!Posts(c, i)
      BY <3>1 DEF Inbox!Taken
    <3>3. s5[i] = 0
      BY <2>1, <3>1, <3>2 DEF Inbox!Recorded
    <3>4. \A c \in Calls : ~Inbox!Posts(c, i)' /\ (Inbox!Holds(c, i)' => c = b)
      BY <1>6, <3>2
    <3>5. ASSUME NEW c \in Calls, Inbox!Holds(c, i)' \/ Inbox!Posts(c, i)' PROVE Inbox!InBatch(c, i)'
      BY <1>2, <3>2, <3>3, <3>4, <3>5 DEF Inbox!InBatch
    <3> QED
      BY <1>2, <3>2, <3>3, <3>5 DEF Inbox!Recorded
  <2> QED
    BY <2>2, <2>3 DEF Tracks
<1> QED
  BY <1>5, <1>7, <1>8 DEF Inbox!MailInv, Tracks

LEMMA MailPosted ==
  ASSUME Inbox!MailInv, NEW b \in Calls, NEW i \in EmailIds, Inbox!BatchSend(b, i)
  PROVE  Inbox!MailInv'
<1>1. PICK f : f = [s3[b] EXCEPT ![i] = None] /\ s3' = [s3 EXCEPT ![b] = f]
  BY DEF Inbox!BatchSend
<1>2. s4[b] = None /\ s3[b][i] # None /\ s1' = s1 /\ s2' = s2 /\ s6' = s6
  BY DEF Inbox!BatchSend
<1>3. Inbox!MailTyped /\ Inbox!Tracked(i) /\ (i \notin s6 => Inbox!Recorded(i))
  BY DEF Inbox!MailInv
<1>4. s3[b] \in [EmailIds -> Inbox!MailRecords \cup {None}] /\ s3[b][i] \in Inbox!MailRecords
  BY <1>2, <1>3 DEF Inbox!MailTyped
<1>5. f \in [EmailIds -> Inbox!MailRecords \cup {None}] /\ f[i] = None /\ \A j \in EmailIds : j # i => f[j] = s3[b][j]
  BY <1>1, <1>4
<1>6. s3'[b] = f /\ \A c \in Calls : c # b => s3'[c] = s3[c]
  BY <1>1, <1>3 DEF Inbox!MailTyped
<1>7. \A j \in EmailIds : /\ \A c \in Calls : (c # b \/ j # i) => Inbox!Holds(c, j)' = Inbox!Holds(c, j)
                          /\ ~Inbox!Posts(b, j)
  BY <1>2, <1>5, <1>6 DEF Inbox!Holds, Inbox!Posts
<1>8. ~Inbox!Holds(b, i)' /\ Inbox!Holds(b, i)
  BY <1>2, <1>5, <1>6 DEF Inbox!Holds
<1>9. CASE s4' = s4 /\ s5' = s5
  <2>1. Inbox!MailTyped'
    BY <1>1, <1>2, <1>3, <1>5, <1>9 DEF Inbox!MailTyped
  <2>2. \A j \in EmailIds, c \in Calls : Inbox!Posts(c, j)' = Inbox!Posts(c, j)
    BY <1>9 DEF Inbox!Posts
  <2>3. ASSUME NEW j \in EmailIds, j # i PROVE Tracks(j)
    <3>1. Untouched(j)
      BY <1>2, <1>7, <1>9, <2>2, <2>3 DEF Untouched, Hands
    <3> QED
      BY <1>2, <3>1, StaysTracked
  <2>4. Inbox!Tracked(i)'
    BY <1>2, <1>3, <1>8 DEF Inbox!Tracked
  <2>5. ASSUME i \notin s6' PROVE Inbox!Recorded(i)'
    <3>1. Inbox!Recorded(i) /\ Inbox!InBatch(b, i)
      BY <1>2, <1>3, <1>8, <2>5 DEF Inbox!Recorded
    <3>2. s5[i] = 0 /\ \A c \in Calls : ~Inbox!Holds(c, i)' /\ ~Inbox!Posts(c, i)'
      BY <1>7, <1>8, <2>2, <3>1 DEF Inbox!InBatch
    <3> QED
      BY <1>2, <1>9, <3>1, <3>2 DEF Inbox!Recorded
  <2> QED
    BY <2>1, <2>3, <2>4, <2>5 DEF Inbox!MailInv, Tracks
<1>10. ASSUME NEW after \in Inbox!Outcomes(s3[b][i]), Inbox!ProviderSend(i, s3[b][i], after),
              s4' = [s4 EXCEPT ![b] = [id |-> i, email |-> Inbox!BatchOutcome(s3[b][i], after)]]
       PROVE  Inbox!MailInv'
  <2>1. PICK p : p = [id |-> i, email |-> after]
    OBVIOUS
  <2>2. s5' = [s5 EXCEPT ![i] = IF after.status = "sent" THEN @ + 1 ELSE @]
        /\ s4' = [s4 EXCEPT ![b] = p]
    BY <1>10, <2>1 DEF Inbox!ProviderSend, Inbox!BatchOutcome
  <2>3. after \in Inbox!MailRecords
    BY <1>4, <1>10, Marked
  <2>4. p # None /\ p \in [id : EmailIds, email : Inbox!MailRecords] /\ p.id = i /\ p.email = after
    BY <2>1, <2>3, EmailAssumption
  <2>5. Inbox!MailTyped'
    BY <1>1, <1>2, <1>3, <1>5, <2>2, <2>4 DEF Inbox!MailTyped
  <2>6. s4'[b] = p /\ \A c \in Calls : c # b => s4'[c] = s4[c]
    BY <1>3, <2>2 DEF Inbox!MailTyped
  <2>7. /\ \A j \in EmailIds, c \in Calls : (c # b \/ j # i) => Inbox!Posts(c, j)' = Inbox!Posts(c, j)
        /\ Inbox!Posts(b, i)'
    BY <1>2, <2>4, <2>6 DEF Inbox!Posts
  <2>8. ASSUME NEW j \in EmailIds, j # i PROVE Tracks(j)
    <3>1. Hands(j)
      BY <1>7, <2>6, <2>7, <2>8 DEF Hands
    <3>2. Untouched(j)
      BY <1>2, <1>3, <2>2, <2>8, <3>1 DEF Untouched, Inbox!MailTyped
    <3> QED
      BY <1>2, <3>2, StaysTracked
  <2>9. Inbox!Tracked(i)'
    BY <1>2, <1>3, <1>8 DEF Inbox!Tracked
  <2>10. ASSUME i \notin s6' PROVE Inbox!Recorded(i)'
    <3>1. Inbox!Recorded(i) /\ Inbox!InBatch(b, i)
      BY <1>2, <1>3, <1>8, <2>10 DEF Inbox!Recorded
    <3>2. s5[i] = 0 /\ s2[i].pc = "done" /\ \A c \in Calls : Inbox!Holds(c, i) \/ Inbox!Posts(c, i) => c = b
      BY <1>8, <3>1 DEF Inbox!InBatch
    <3>3. \A c \in Calls : Inbox!Holds(c, i)' \/ Inbox!Posts(c, i)' => c = b
      BY <1>7, <2>7, <3>2
    <3>4. s5'[i] = IF after.status = "sent" THEN 1 ELSE 0
      BY <1>3, <2>2, <3>2 DEF Inbox!MailTyped
    <3>5. Inbox!InBatch(b, i)'
      BY <1>2, <1>8, <2>4, <2>6, <3>2, <3>3, <3>4 DEF Inbox!InBatch
    <3> QED
      BY <1>2, <2>7, <3>2, <3>3, <3>4, <3>5 DEF Inbox!Recorded
  <2> QED
    BY <2>5, <2>8, <2>9, <2>10 DEF Inbox!MailInv, Tracks
<1> QED
  BY <1>9, <1>10 DEF Inbox!BatchSend

LEMMA MailWritten ==
  ASSUME Inbox!MailInv, NEW b \in Calls, Inbox!BatchUpdate(b)
  PROVE  Inbox!MailInv'
<1>1. PICK p : p = s4[b]
  OBVIOUS
<1>2. /\ p # None /\ s4' = [s4 EXCEPT ![b] = None] /\ s2' = s2 /\ s3' = s3 /\ s5' = s5
      /\ \/ s1' = [s1 EXCEPT ![p.id] = p.email] /\ s6' = s6
         \/ s1' = s1 /\ s6' = s6 \cup {p.id}
  BY <1>1 DEF Inbox!BatchUpdate, Inbox!UpdateEmail
<1>3. Inbox!MailTyped
  BY DEF Inbox!MailInv
<1>4. p.id \in EmailIds /\ p.email \in Inbox!MailRecords
  BY <1>1, <1>2, <1>3 DEF Inbox!MailTyped
<1>5. PICK i \in EmailIds : i = p.id
  BY <1>4
<1>6. Inbox!MailTyped'
  BY <1>2, <1>3, <1>4 DEF Inbox!MailTyped
<1>7. s4'[b] = None /\ \A c \in Calls : c # b => s4'[c] = s4[c]
  BY <1>2, <1>3 DEF Inbox!MailTyped
<1>8. \A j \in EmailIds, c \in Calls : /\ Inbox!Holds(c, j)' = Inbox!Holds(c, j)
                                       /\ c # b \/ j # i => Inbox!Posts(c, j)' = Inbox!Posts(c, j)
  BY <1>1, <1>2, <1>5, <1>7 DEF Inbox!Holds, Inbox!Posts
<1>9. Inbox!Posts(b, i) /\ ~Inbox!Posts(b, i)'
  BY <1>1, <1>2, <1>5, <1>7 DEF Inbox!Posts
<1>10. ASSUME NEW j \in EmailIds, j # i PROVE Tracks(j)
  <2>1. Hands(j)
    <3>1. ~Inbox!Posts(b, j)
      BY <1>1, <1>5, <1>10 DEF Inbox!Posts
    <3> QED
      BY <1>7, <1>8, <1>10, <3>1 DEF Hands
  <2>2. Untouched(j)
    BY <1>2, <1>3, <1>5, <1>10, <2>1 DEF Untouched, Inbox!MailTyped
  <2> QED
    BY <1>2, <2>2, StaysTracked
<1>11. Inbox!Tracked(i) /\ (i \notin s6 => Inbox!Recorded(i))
  BY DEF Inbox!MailInv
<1>12. s1'[i] \in {s1[i], p.email} /\ p.email # None
  BY <1>2, <1>3, <1>4, <1>5, EmailAssumption DEF Inbox!MailTyped
<1>13. Inbox!Tracked(i)'
  BY <1>2, <1>9, <1>11, <1>12 DEF Inbox!Tracked
<1>14. ASSUME i \notin s6' PROVE Inbox!Recorded(i)'
  <2>1. s1' = [s1 EXCEPT ![i] = p.email] /\ Inbox!Recorded(i)
    BY <1>2, <1>5, <1>11, <1>14
  <2>2. s1'[i] = p.email
    BY <1>3, <2>1 DEF Inbox!MailTyped
  <2>3. Inbox!InBatch(b, i)
    BY <1>9, <2>1 DEF Inbox!Recorded
  <2>4. /\ s5[i] <= 1 /\ s5[i] \in Nat /\ (s5[i] = 1 => p.email.status = "sent") /\ s2[i].pc = "done"
        /\ \A c \in Calls : Inbox!Holds(c, i) \/ Inbox!Posts(c, i) => c = b
        /\ ~Inbox!Holds(b, i)
    BY <1>1, <1>3, <1>9, <2>1, <2>3 DEF Inbox!InBatch, Inbox!Recorded, Inbox!MailTyped
  <2>5. \A c \in Calls : ~Inbox!Holds(c, i)' /\ ~Inbox!Posts(c, i)'
    <3>1. ASSUME NEW c \in Calls PROVE ~Inbox!Holds(c, i)' /\ ~Inbox!Posts(c, i)'
      <4>1. CASE c = b
        BY <1>8, <1>9, <2>4, <4>1
      <4>2. CASE c # b
        BY <1>8, <2>4, <4>2
      <4> QED
        BY <4>1, <4>2
    <3> QED
      BY <3>1
  <2>6. s5'[i] <= 1 /\ (s1'[i].status = "pending" => s5'[i] = 0)
    BY <1>2, <2>2, <2>4
  <2> QED
    BY <1>2, <2>4, <2>5, <2>6 DEF Inbox!Recorded
<1> QED
  BY <1>2, <1>5, <1>6, <1>10, <1>13, <1>14 DEF Inbox!MailInv, Tracks

LEMMA MailRestarted ==
  ASSUME Inbox!MailInv, Inbox!Restart
  PROVE  Inbox!MailInv'
<1>1. /\ s2' = [i \in EmailIds |-> IF s2[i].pc = "idle" THEN [pc |-> "idle"] ELSE [pc |-> "done"]]
      /\ s3' = [b \in Calls |-> Inbox!EmptyBatch] /\ s4' = [b \in Calls |-> None]
      /\ s1' = s1 /\ s5' = s5
      /\ s6' = s6 \cup {i \in EmailIds : s2[i].pc = "update" \/ \E b \in Calls : Inbox!Posts(b, i)}
  BY DEF Inbox!Restart, Inbox!IdleMail
<1>2. Inbox!EmptyBatch \in [EmailIds -> Inbox!MailRecords \cup {None}]
  BY DEF Inbox!EmptyBatch
<1>3. Inbox!MailTyped'
  BY <1>1, <1>2 DEF Inbox!MailInv, Inbox!MailTyped
<1>4. ASSUME NEW i \in EmailIds PROVE Inbox!Tracked(i)' /\ (i \notin s6' => Inbox!Recorded(i)')
  <2>1. s2'[i].pc = (IF s2[i].pc = "idle" THEN "idle" ELSE "done")
    BY <1>1
  <2>2. \A b \in Calls : ~Inbox!Holds(b, i)' /\ ~Inbox!Posts(b, i)'
    BY <1>1 DEF Inbox!Holds, Inbox!Posts, Inbox!EmptyBatch
  <2>3. Inbox!Tracked(i) /\ (i \notin s6 => Inbox!Recorded(i))
    BY DEF Inbox!MailInv
  <2>4. Inbox!Tracked(i)'
    BY <1>1, <2>1, <2>2, <2>3 DEF Inbox!Tracked
  <2>5. ASSUME i \notin s6' PROVE Inbox!Recorded(i)'
    <3>1. s2[i].pc # "update" /\ (\A b \in Calls : ~Inbox!Posts(b, i)) /\ Inbox!Recorded(i)
      BY <1>1, <2>3, <2>5
    <3> QED
      BY <1>1, <2>1, <2>2, <2>3, <3>1 DEF Inbox!Recorded, Inbox!Tracked
  <2> QED
    BY <2>4, <2>5
<1> QED
  BY <1>3, <1>4 DEF Inbox!MailInv

LEMMA MailStep == Inbox!MailInv /\ Inbox!MailNext => Inbox!MailInv'
BY MailQueued, MailSent, MailUpdated, MailListed, MailPosted, MailWritten, MailRestarted
   DEF Inbox!MailNext, Inbox!SendTemplated, Inbox!SendDirect, Inbox!sendTemplateEmail

LEMMA SentOnceRecorded == Inbox!MailInv => Inbox!SentOnce
<1> SUFFICES ASSUME Inbox!MailInv, NEW i \in EmailIds, i \notin s6, s5[i] > 1 PROVE FALSE
  BY DEF Inbox!SentOnce
<1>1. s5[i] <= 1 /\ s5[i] \in Nat
  BY DEF Inbox!MailInv, Inbox!Recorded, Inbox!MailTyped
<1> QED
  BY <1>1
-----------------------------------------------------------------------------
(* Notifications: what stays pending has its reason.                       *)

\* The fields of a notification.
LEMMA NoteFields ==
  ASSUME NEW o, Inbox!IsNote(o)
  PROVE  /\ o.channels \in Seq(Inbox!Channels) /\ o.channels # <<>>
         /\ o.status \in Inbox!NoteStatuses /\ o.user \in Senders
         /\ o.delivery \in [{o.channels[i] : i \in DOMAIN o.channels} -> [status : Inbox!NoteStatuses, tries : Nat]]
         /\ Len(o.channels) \in DOMAIN o.channels /\ DOMAIN o.channels = 1..Len(o.channels) /\ Len(o.channels) \in Nat
         /\ \A i \in DOMAIN o.channels : o.channels[i] \in DOMAIN o.delivery
         /\ \A c \in DOMAIN o.delivery : \E i \in DOMAIN o.channels : c = o.channels[i]
         /\ o = [user |-> o.user, channels |-> o.channels, status |-> o.status, delivery |-> o.delivery]
<1>1. PICK cs : cs = o.channels
  OBVIOUS
<1>2. cs \in Seq(Inbox!Channels) /\ cs # <<>>
  BY <1>1 DEF Inbox!IsNote
<1>3. Len(cs) \in DOMAIN cs /\ DOMAIN cs = 1..Len(cs) /\ Len(cs) \in Nat
  BY <1>2
<1>4. o.delivery \in [{cs[i] : i \in DOMAIN cs} -> [status : Inbox!NoteStatuses, tries : Nat]]
  BY <1>1 DEF Inbox!IsNote
<1>5. DOMAIN o.delivery = {cs[i] : i \in DOMAIN cs}
  BY <1>4
<1>6. o.status \in Inbox!NoteStatuses /\ o.user \in Senders
      /\ o = [user |-> o.user, channels |-> o.channels, status |-> o.status, delivery |-> o.delivery]
  BY DEF Inbox!IsNote
<1> QED
  BY <1>1, <1>2, <1>3, <1>4, <1>5, <1>6

\* A new notification is pending in all its channels.
LEMMA NewNote ==
  ASSUME NEW u \in Senders, NEW list \in Inbox!Lists, NEW o, o = Inbox!NewNotification(u, list)
  PROVE  Inbox!IsNote(o) /\ o.status = "pending" /\ o.user = u
<1>1. PICK cs : cs = IF list = <<>> THEN <<InApp>> ELSE list
  OBVIOUS
<1>2. cs \in Seq(Inbox!Channels) /\ cs # <<>>
  <2>1. CASE list = <<>>
    <3>1. InApp \in Inbox!Channels
      BY DEF Inbox!Channels
    <3>2. <<InApp>> \in Seq(Inbox!Channels)
      BY <3>1
    <3> QED
      BY <1>1, <2>1, <3>2
  <2>2. CASE list # <<>>
    <3>1. PICK k \in 0..ChannelBound : list \in [1..k -> Inbox!Channels]
      BY DEF Inbox!Lists
    <3>2. list \in Seq(Inbox!Channels)
      BY <3>1, NoteAssumption
    <3> QED
      BY <1>1, <2>2, <3>2
  <2> QED
    BY <2>1, <2>2
<1>3. PICK d : d = [c \in {cs[i] : i \in DOMAIN cs} |-> [status |-> "pending", tries |-> 0]]
  OBVIOUS
<1>4. o = [user |-> u, channels |-> cs, status |-> "pending", delivery |-> d]
  BY <1>1, <1>3 DEF Inbox!NewNotification
<1>5. d \in [{cs[i] : i \in DOMAIN cs} -> [status : Inbox!NoteStatuses, tries : Nat]]
  BY <1>3 DEF Inbox!NoteStatuses
<1> QED
  BY <1>2, <1>4, <1>5 DEF Inbox!IsNote, Inbox!NoteStatuses

\* One channel has been tried.
Changed(o, p, c) ==
  /\ Inbox!IsNote(p) /\ p.channels = o.channels /\ p.user = o.user
  /\ p.delivery[c].status # "pending"
  /\ \A x \in DOMAIN o.delivery : x # c => p.delivery[x] = o.delivery[x]

With(o, c, st, k, reached) ==
  [user |-> o.user, channels |-> o.channels, status |-> reached,
   delivery |-> [o.delivery EXCEPT ![c] = [status |-> st, tries |-> k]]]

LEMMA SetOne ==
  ASSUME NEW o, Inbox!IsNote(o), NEW c \in DOMAIN o.delivery, NEW st \in {"sent", "delivered", "failed"},
         NEW t \in Nat, NEW reached \in Inbox!NoteStatuses, NEW p, p = With(o, c, st, t, reached)
  PROVE  Changed(o, p, c) /\ p.delivery[c].status = st /\ p.status = reached
<1>1. PICK d : d = [o.delivery EXCEPT ![c] = [status |-> st, tries |-> t]]
  OBVIOUS
<1>2. /\ o.delivery \in [{o.channels[i] : i \in DOMAIN o.channels} -> [status : Inbox!NoteStatuses, tries : Nat]]
      /\ o.channels \in Seq(Inbox!Channels) /\ o.channels # <<>> /\ o.user \in Senders
  BY NoteFields
<1>3. p.user = o.user /\ p.channels = o.channels /\ p.status = reached /\ p.delivery = d
      /\ p = [user |-> p.user, channels |-> p.channels, status |-> p.status, delivery |-> p.delivery]
  BY <1>1 DEF With
<1>4. [status |-> st, tries |-> t] \in [status : Inbox!NoteStatuses, tries : Nat]
  BY DEF Inbox!NoteStatuses
<1>5. d \in [{o.channels[i] : i \in DOMAIN o.channels} -> [status : Inbox!NoteStatuses, tries : Nat]]
  BY <1>1, <1>2, <1>4
<1>6. /\ d[c].status = st
      /\ \A x \in DOMAIN o.delivery : x # c => d[x] = o.delivery[x]
  BY <1>1, <1>2
<1>7. Inbox!IsNote(p)
  BY <1>2, <1>3, <1>5 DEF Inbox!IsNote
<1> QED
  BY <1>3, <1>6, <1>7 DEF Changed

\* The markers, as changes of one channel and perhaps of the status.
LEMMA Markers ==
  ASSUME NEW o, Inbox!IsNote(o), NEW c \in DOMAIN o.delivery
  PROVE  /\ Changed(o, Inbox!MarkChannelSent(o, c), c)
         /\ Inbox!AllIn(Inbox!MarkChannelSent(o, c).delivery, {"sent", "delivered", "failed"})
              => Inbox!MarkChannelSent(o, c).status = "sent"
         /\ Changed(o, Inbox!MarkChannelDelivered(o, c), c)
         /\ Changed(o, Inbox!MarkChannelFailed(o, c), c)
         /\ Inbox!MarkChannelFailed(o, c).delivery[c].status = "failed"
         /\ IF Inbox!AllIn(Inbox!MarkChannelFailed(o, c).delivery, {"failed"})
            THEN Inbox!MarkChannelFailed(o, c).status = "failed"
            ELSE Inbox!MarkChannelFailed(o, c).status = o.status
<1>1. PICK t \in Nat : o.delivery[c] = [status |-> o.delivery[c].status, tries |-> t]
  <2>1. o.delivery[c] \in [status : Inbox!NoteStatuses, tries : Nat]
    BY NoteFields
  <2> QED
    BY <2>1
<1>2. o = [user |-> o.user, channels |-> o.channels, status |-> o.status, delivery |-> o.delivery]
      /\ o.status \in Inbox!NoteStatuses /\ {"sent", "delivered", "failed"} \subseteq Inbox!NoteStatuses
  BY NoteFields DEF Inbox!NoteStatuses
<1>3. ASSUME NEW st \in {"sent", "delivered", "failed"}
      PROVE  Inbox!SetDelivery(o, c, st) = With(o, c, st, t, o.status)
  <2>1. [o.delivery[c] EXCEPT !.status = st] = [status |-> st, tries |-> t]
    BY <1>1
  <2> QED
    BY <1>2, <2>1 DEF Inbox!SetDelivery, With
<1>4. ASSUME NEW st \in {"sent", "delivered", "failed"}, NEW k \in Nat, NEW reached \in {"sent", "delivered", "failed"}, NEW b \in BOOLEAN
      PROVE  /\ Inbox!Overall(With(o, c, st, k, o.status), b, reached) = With(o, c, st, k, IF b THEN reached ELSE o.status)
             /\ With(o, c, st, k, o.status).delivery = With(o, c, st, k, IF b THEN reached ELSE o.status).delivery
  BY DEF Inbox!Overall, With
<1>5. ASSUME NEW st \in {"sent", "delivered", "failed"}, NEW k \in Nat, NEW r \in Inbox!NoteStatuses
      PROVE  LET p == With(o, c, st, k, r) IN Changed(o, p, c) /\ p.delivery[c].status = st /\ p.status = r
  <2>1. PICK p : p = With(o, c, st, k, r)
    OBVIOUS
  <2>2. Changed(o, p, c) /\ p.delivery[c].status = st /\ p.status = r
    BY <2>1, SetOne
  <2> QED
    BY <2>1, <2>2
<1>6. [Inbox!SetDelivery(o, c, "failed") EXCEPT !.delivery[c].tries = @ + 1] = With(o, c, "failed", t + 1, o.status)
  <2>1. PICK d : d = [o.delivery EXCEPT ![c] = [status |-> "failed", tries |-> t]]
    OBVIOUS
  <2>2. Inbox!SetDelivery(o, c, "failed") = [user |-> o.user, channels |-> o.channels, status |-> o.status, delivery |-> d]
    BY <1>3, <2>1 DEF With
  <2>3. [d EXCEPT ![c].tries = @ + 1] = [o.delivery EXCEPT ![c] = [status |-> "failed", tries |-> t + 1]]
    <3>1. d[c] = [status |-> "failed", tries |-> t] /\ DOMAIN d = DOMAIN o.delivery
          /\ \A x \in DOMAIN o.delivery : x # c => d[x] = o.delivery[x]
      BY <2>1
    <3>2. [d[c] EXCEPT !.tries = @ + 1] = [status |-> "failed", tries |-> t + 1]
      BY <3>1
    <3> QED
      BY <2>1, <3>1, <3>2
  <2> QED
    BY <2>2, <2>3 DEF With
<1>7. PICK b1 \in BOOLEAN : b1 = Inbox!AllIn(With(o, c, "sent", t, o.status).delivery, {"sent", "delivered", "failed"})
  BY DEF Inbox!AllIn
<1>8. PICK b2 \in BOOLEAN : b2 = Inbox!AllIn(With(o, c, "delivered", t, o.status).delivery, {"delivered", "failed"})
  BY DEF Inbox!AllIn
<1>9. PICK b3 \in BOOLEAN : b3 = Inbox!AllIn(With(o, c, "failed", t + 1, o.status).delivery, {"failed"})
  BY DEF Inbox!AllIn
<1>10. Inbox!MarkChannelSent(o, c) = With(o, c, "sent", t, IF b1 THEN "sent" ELSE o.status)
  BY <1>3, <1>4, <1>7 DEF Inbox!MarkChannelSent
<1>11. Inbox!MarkChannelDelivered(o, c) = With(o, c, "delivered", t, IF b2 THEN "delivered" ELSE o.status)
  BY <1>3, <1>4, <1>8 DEF Inbox!MarkChannelDelivered
<1>12. t + 1 \in Nat
  OBVIOUS
<1>13. Inbox!MarkChannelFailed(o, c) = With(o, c, "failed", t + 1, IF b3 THEN "failed" ELSE o.status)
  <2>1. Inbox!Overall(With(o, c, "failed", t + 1, o.status), b3, "failed") = With(o, c, "failed", t + 1, IF b3 THEN "failed" ELSE o.status)
    BY <1>4, <1>12
  <2> QED
    BY <1>6, <1>9, <2>1 DEF Inbox!MarkChannelFailed
<1>14. (IF b1 THEN "sent" ELSE o.status) \in Inbox!NoteStatuses /\ (IF b2 THEN "delivered" ELSE o.status) \in Inbox!NoteStatuses
       /\ (IF b3 THEN "failed" ELSE o.status) \in Inbox!NoteStatuses
  BY <1>2
<1>15. Changed(o, Inbox!MarkChannelSent(o, c), c) /\ Inbox!MarkChannelSent(o, c).status = IF b1 THEN "sent" ELSE o.status
  BY <1>5, <1>10, <1>14
<1>16. Changed(o, Inbox!MarkChannelDelivered(o, c), c)
  BY <1>5, <1>11, <1>14
<1>17. Changed(o, Inbox!MarkChannelFailed(o, c), c) /\ Inbox!MarkChannelFailed(o, c).delivery[c].status = "failed"
       /\ Inbox!MarkChannelFailed(o, c).status = IF b3 THEN "failed" ELSE o.status
  BY <1>5, <1>12, <1>13, <1>14
<1>18. b1 = Inbox!AllIn(Inbox!MarkChannelSent(o, c).delivery, {"sent", "delivered", "failed"})
  BY <1>4, <1>7, <1>10
<1>19. b3 = Inbox!AllIn(Inbox!MarkChannelFailed(o, c).delivery, {"failed"})
  BY <1>4, <1>9, <1>12, <1>13
<1> QED
  BY <1>15, <1>16, <1>17, <1>18, <1>19

\* What an attempt at the channel in position k makes of a notification.
LEMMA OutcomeKeeps ==
  ASSUME NEW o, Inbox!IsNote(o), NEW k \in DOMAIN o.channels, NEW p,
         p \in {Inbox!Sent(o, o.channels[k]), Inbox!MarkChannelFailed(o, o.channels[k])}
  PROVE  /\ Inbox!IsNote(p) /\ p.channels = o.channels /\ p.user = o.user
         /\ \A j : Inbox!Tried(o, j) => Inbox!Tried(p, j)
         /\ Inbox!Tried(o, k) => Inbox!Tried(p, k + 1)
         /\ Inbox!Tried(o, Len(o.channels) + 1) /\ Inbox!StaysPending(o) => Inbox!StaysPending(p)
         /\ k = Len(o.channels) /\ Inbox!Tried(o, k) => Inbox!StaysPending(p)
<1>1. PICK c : c = o.channels[k]
  OBVIOUS
<1>2. /\ c \in DOMAIN o.delivery
      /\ Len(o.channels) \in DOMAIN o.channels /\ DOMAIN o.channels = 1..Len(o.channels) /\ Len(o.channels) \in Nat
      /\ \A i \in DOMAIN o.channels : o.channels[i] \in DOMAIN o.delivery
  BY <1>1, NoteFields
\* Whatever was sent or failed, one channel has been tried, and a success with
\* all others tried settles the status.
<1>3. /\ Changed(o, p, c)
      /\ \/ Inbox!AllIn(p.delivery, {"sent", "delivered", "failed"}) => p.status = "sent"
         \/ /\ p.delivery[c].status = "failed"
            /\ IF Inbox!AllIn(p.delivery, {"failed"}) THEN p.status = "failed" ELSE p.status = o.status
  <2>1. CASE p = Inbox!MarkChannelFailed(o, c)
    BY <1>2, <2>1, Markers
  <2>2. CASE p = Inbox!Sent(o, c) /\ c # InApp
    BY <1>2, <2>2, Markers DEF Inbox!Sent
  <2>3. CASE p = Inbox!Sent(o, c) /\ c = InApp
    <3>1. PICK q : q = Inbox!MarkChannelDelivered(o, c)
      OBVIOUS
    <3>2. Changed(o, q, c)
      BY <1>2, <3>1, Markers
    <3>3. Inbox!IsNote(q) /\ c \in DOMAIN q.delivery
      <4>1. Inbox!IsNote(q) /\ q.channels[k] = c /\ k \in DOMAIN q.channels
        BY <1>1, <3>2 DEF Changed
      <4> QED
        BY <4>1, NoteFields
    <3>4. p = Inbox!MarkChannelSent(q, c)
      BY <2>3, <3>1 DEF Inbox!Sent, Inbox!InAppSend
    <3>5. Changed(q, p, c) /\ (Inbox!AllIn(p.delivery, {"sent", "delivered", "failed"}) => p.status = "sent")
      BY <3>3, <3>4, Markers
    <3>6. DOMAIN q.delivery = DOMAIN o.delivery
      BY <3>2 DEF Changed, Inbox!IsNote
    <3> QED
      BY <3>2, <3>5, <3>6 DEF Changed
  <2> QED
    BY <1>1, <2>1, <2>2, <2>3
<1>4. /\ Inbox!IsNote(p) /\ p.channels = o.channels /\ p.user = o.user
      /\ p.delivery[c].status # "pending"
      /\ \A x \in DOMAIN o.delivery : x # c => p.delivery[x] = o.delivery[x]
      /\ DOMAIN p.delivery = DOMAIN o.delivery
  BY <1>3 DEF Changed, Inbox!IsNote
<1>5. ASSUME NEW j, Inbox!Tried(o, j) PROVE Inbox!Tried(p, j)
  BY <1>2, <1>4, <1>5 DEF Inbox!Tried
<1>6. ASSUME Inbox!Tried(o, k) PROVE Inbox!Tried(p, k + 1)
  <2>1. ASSUME NEW i \in DOMAIN o.channels, i < k + 1, o.channels[i] # c
        PROVE  p.delivery[o.channels[i]].status # "pending"
    <3>1. i < k
      BY <1>1, <1>2, <2>1
    <3> QED
      BY <1>2, <1>4, <1>6, <2>1, <3>1 DEF Inbox!Tried
  <2> QED
    BY <1>4, <2>1 DEF Inbox!Tried
\* A channel is in the list at some position.
<1>7. ASSUME Inbox!Tried(p, Len(o.channels) + 1) PROVE Inbox!AllIn(p.delivery, {"sent", "delivered", "failed"})
  <2>1. ASSUME NEW x \in DOMAIN p.delivery PROVE p.delivery[x].status \in {"sent", "delivered", "failed"}
    <3>1. PICK i \in DOMAIN p.channels : x = p.channels[i]
      BY <1>4, NoteFields
    <3>2. i < Len(o.channels) + 1 /\ i \in DOMAIN o.channels
      BY <1>2, <1>4
    <3>3. p.delivery[x].status # "pending"
      BY <1>4, <1>7, <3>1, <3>2 DEF Inbox!Tried
    <3>4. p.delivery[x] \in [status : Inbox!NoteStatuses, tries : Nat]
      BY <1>4, NoteFields
    <3> QED
      BY <3>3, <3>4 DEF Inbox!NoteStatuses
  <2> QED
    BY <2>1 DEF Inbox!AllIn
<1>8. ASSUME Inbox!Tried(o, Len(o.channels) + 1), Inbox!StaysPending(o) PROVE Inbox!StaysPending(p)
  <2>1. Inbox!AllIn(p.delivery, {"sent", "delivered", "failed"})
    BY <1>5, <1>7, <1>8
  <2>2. SUFFICES ASSUME p.status = "pending" PROVE Inbox!LastFailed(p)
    BY DEF Inbox!StaysPending
  <2>3. p.delivery[c].status = "failed" /\ ~Inbox!AllIn(p.delivery, {"failed"}) /\ o.status = "pending"
    BY <1>3, <2>1, <2>2
  <2>4. o.delivery[o.channels[Len(o.channels)]].status = "failed"
    BY <1>8, <2>3 DEF Inbox!StaysPending, Inbox!LastFailed
  <2>5. p.delivery[p.channels[Len(p.channels)]].status = "failed"
    BY <1>2, <1>4, <2>3, <2>4
  <2> QED
    BY <2>3, <2>5 DEF Inbox!LastFailed
<1>9. ASSUME k = Len(o.channels), Inbox!Tried(o, k) PROVE Inbox!StaysPending(p)
  <2>1. Inbox!AllIn(p.delivery, {"sent", "delivered", "failed"})
    BY <1>6, <1>7, <1>9
  <2> QED
    BY <1>1, <1>3, <1>4, <1>9, <2>1 DEF Inbox!StaysPending, Inbox!LastFailed
<1> QED
  BY <1>4, <1>5, <1>6, <1>8, <1>9

LEMMA NoteStart == Inbox!NoteInit => Inbox!NoteInv
<1> SUFFICES ASSUME Inbox!NoteInit PROVE Inbox!NoteInv
  OBVIOUS
<1>1. /\ s1 = [n \in Notes |-> None] /\ s2 = [n \in Notes |-> None]
      /\ s3 = [n \in Notes |-> [pc |-> "idle"]]
      /\ s4 = [k \in Notes \X Inbox!Positions |-> [pc |-> "idle"]]
  BY DEF Inbox!NoteInit, Inbox!Idle
<1>2. Inbox!NoteTyped
  BY <1>1 DEF Inbox!NoteTyped
<1>3. ASSUME NEW n \in Notes PROVE Inbox!NoteFollowed(n)
  BY <1>1 DEF Inbox!NoteFollowed, Inbox!Retried
<1> QED
  BY <1>2, <1>3 DEF Inbox!NoteInv

\* A notification that no step touches is followed as before.
NoteKept(n) ==
  /\ s1'[n] = s1[n] /\ s2'[n] = s2[n] /\ s3'[n] = s3[n]
  /\ \A k \in Inbox!Positions : s4'[<<n, k>>] = s4[<<n, k>>]
  /\ n \in s5' <=> n \in s5

LEMMA KeptFollowed ==
  ASSUME NEW n \in Notes, Inbox!NoteFollowed(n), NoteKept(n)
  PROVE  Inbox!NoteFollowed(n)'
<1>1. Inbox!Quiet(n)' <=> Inbox!Quiet(n)
  BY DEF NoteKept, Inbox!Quiet
<1>2. Inbox!Stored(n)' <=> Inbox!Stored(n)
  BY <1>1 DEF NoteKept, Inbox!Stored
<1>3. \A k \in Inbox!Positions : Inbox!Retried(n, k)' <=> Inbox!Retried(n, k)
  BY DEF NoteKept, Inbox!Retried
<1> QED
  BY <1>2, <1>3 DEF Inbox!NoteFollowed, NoteKept

\* A new notification is stored as pending and sent from its first channel on.
LEMMA NoteCreated ==
  ASSUME Inbox!NoteInv, NEW n \in Notes, NEW u \in Senders, NEW list \in Inbox!Lists, Inbox!CreateNotification(n, u, list)
  PROVE  Inbox!NoteInv'
<1>1. PICK o : o = Inbox!NewNotification(u, list)
  OBVIOUS
<1>2. PICK r : r = [user |-> o.user, channels |-> o.channels, status |-> o.status]
  OBVIOUS
<1>3. /\ s1[n] = None /\ s1' = [s1 EXCEPT ![n] = r] /\ s2' = [s2 EXCEPT ![n] = o]
      /\ s3' = [s3 EXCEPT ![n] = [pc |-> "send", at |-> 1]] /\ s4' = s4 /\ s5' = s5
  BY <1>1, <1>2 DEF Inbox!CreateNotification, Inbox!Save
<1>4. Inbox!NoteTyped /\ Inbox!NoteFollowed(n)
  BY DEF Inbox!NoteInv
<1>5. Inbox!NoteTyped'
  BY <1>3, <1>4 DEF Inbox!NoteTyped
<1>6. Inbox!IsNote(o) /\ o.status = "pending" /\ o.user = u
  BY <1>1, NewNote
<1>7. r # None
  <2>1. o.channels \in Seq(Inbox!Channels) /\ o.status \in Inbox!NoteStatuses /\ o.user \in Senders
    BY <1>6, NoteFields
  <2> QED
    BY <1>2, <2>1, NoteAssumption
<1>8. s1'[n] = r /\ s2'[n] = o /\ s3'[n] = [pc |-> "send", at |-> 1]
  BY <1>3, <1>4 DEF Inbox!NoteTyped
<1>9. Inbox!Stored(n)'
  <2>1. 1 \in DOMAIN o.channels /\ Inbox!Tried(o, 1)
    <3>1. DOMAIN o.channels = 1..Len(o.channels) /\ Len(o.channels) \in DOMAIN o.channels /\ Len(o.channels) \in Nat
      BY <1>6, NoteFields
    <3> QED
      BY <3>1 DEF Inbox!Tried
  <2>2. ~Inbox!Quiet(n)'
    BY <1>8 DEF Inbox!Quiet
  <2>3. r.status \in Inbox!NoteStatuses /\ r.user = o.user /\ r.channels = o.channels
        /\ r = [user |-> o.user, channels |-> o.channels, status |-> r.status]
    BY <1>2, <1>6 DEF Inbox!NoteStatuses
  <2> QED
    BY <1>6, <1>8, <2>1, <2>2, <2>3 DEF Inbox!Stored
<1>10. Inbox!NoteFollowed(n)'
  <2>1. \A k \in Inbox!Positions : Inbox!Retried(n, k)'
    BY <1>3, <1>4 DEF Inbox!NoteFollowed, Inbox!Retried
  <2> QED
    BY <1>7, <1>8, <1>9, <2>1 DEF Inbox!NoteFollowed
<1>11. ASSUME NEW m \in Notes, m # n PROVE Inbox!NoteFollowed(m)'
  <2>1. NoteKept(m)
    BY <1>3, <1>4, <1>11 DEF NoteKept, Inbox!NoteTyped
  <2> QED
    BY <2>1, KeptFollowed DEF Inbox!NoteInv
<1> QED
  BY <1>5, <1>10, <1>11 DEF Inbox!NoteInv

\* The goroutines of one notification.
Attempted(n, k) ==
  \E p \in {Inbox!Sent(s2[n], s2[n].channels[k]), Inbox!MarkChannelFailed(s2[n], s2[n].channels[k])} :
    s2' = [s2 EXCEPT ![n] = p]

LEMMA NoteSent ==
  ASSUME Inbox!NoteInv, NEW n \in Notes, Inbox!sendNotification(n)
  PROVE  Inbox!NoteInv'
<1>1. Inbox!NoteTyped /\ Inbox!NoteFollowed(n)
  BY DEF Inbox!NoteInv
<1>2. PICK o : o = s2[n]
  OBVIOUS
<1>3. s3[n].pc = "send" /\ Inbox!Stored(n) /\ s1[n] # None
  BY <1>1 DEF Inbox!sendNotification, Inbox!NoteFollowed
<1>4. PICK k : k = s3[n].at
  OBVIOUS
<1>5. Inbox!IsNote(o) /\ k \in DOMAIN o.channels /\ Inbox!Tried(o, k)
  BY <1>2, <1>3, <1>4 DEF Inbox!Stored
<1>6. PICK p \in {Inbox!Sent(o, o.channels[k]), Inbox!MarkChannelFailed(o, o.channels[k])} :
         s2' = [s2 EXCEPT ![n] = p]
  BY <1>2, <1>4 DEF Inbox!sendNotification, Inbox!Outcome
<1>7. PICK next : /\ s3' = [s3 EXCEPT ![n] = next]
                  /\ next = IF k < Len(o.channels) THEN [pc |-> "send", at |-> k + 1] ELSE [pc |-> "read"]
  BY <1>2, <1>4 DEF Inbox!sendNotification, Inbox!Advance
<1>8. /\ s1' = s1 /\ s5' = s5
      /\ s4' = s4 \/ s4' = [s4 EXCEPT ![<<n, k>>] = [pc |-> "wait"]]
  BY <1>4 DEF Inbox!sendNotification
<1>9. /\ Inbox!IsNote(p) /\ p.channels = o.channels /\ p.user = o.user
      /\ Inbox!Tried(p, k + 1)
      /\ k = Len(o.channels) => Inbox!StaysPending(p)
  BY <1>5, <1>6, OutcomeKeeps
<1>10. s2'[n] = p /\ s3'[n] = next
  BY <1>1, <1>6, <1>7 DEF Inbox!NoteTyped
<1>11. Inbox!NoteTyped'
  BY <1>1, <1>6, <1>7, <1>8 DEF Inbox!NoteTyped
<1>12. Inbox!Stored(n)'
  <2>1. DOMAIN o.channels = 1..Len(o.channels) /\ Len(o.channels) \in Nat
    BY <1>5, NoteFields
  <2>2. ~Inbox!Quiet(n)'
    BY <1>7, <1>10 DEF Inbox!Quiet
  <2>3. CASE k < Len(o.channels)
    <3>1. next.pc = "send" /\ next.at = k + 1 /\ k + 1 \in DOMAIN p.channels
      BY <1>5, <1>7, <1>9, <2>1, <2>3
    <3> QED
      BY <1>2, <1>3, <1>8, <1>9, <1>10, <2>2, <3>1 DEF Inbox!Stored
  <2>4. CASE k = Len(o.channels)
    <3>1. next.pc = "read"
      BY <1>7, <2>1, <2>4
    <3>2. Inbox!Tried(p, Len(p.channels) + 1) /\ Inbox!StaysPending(p)
      BY <1>9, <2>4
    <3> QED
      BY <1>2, <1>3, <1>8, <1>9, <1>10, <2>2, <3>1, <3>2 DEF Inbox!Stored
  <2> QED
    BY <1>5, <2>1, <2>3, <2>4
<1>13. ASSUME NEW j \in Inbox!Positions PROVE Inbox!Retried(n, j)'
  <2>1. Inbox!Retried(n, j)
    BY <1>1 DEF Inbox!NoteFollowed
  <2>2. s4'[<<n, j>>] = s4[<<n, j>>] \/ (s4'[<<n, j>>] = [pc |-> "wait"] /\ j = k)
    BY <1>1, <1>8 DEF Inbox!NoteTyped
  <2> QED
    BY <1>2, <1>3, <1>5, <1>8, <1>9, <1>10, <2>1, <2>2 DEF Inbox!Retried
<1>14. Inbox!NoteFollowed(n)'
  <2>1. next.pc \in {"send", "read"}
    BY <1>7
  <2> QED
    BY <1>3, <1>8, <1>10, <1>12, <1>13, <2>1 DEF Inbox!NoteFollowed
<1>15. ASSUME NEW m \in Notes, m # n PROVE Inbox!NoteFollowed(m)'
  <2>1. NoteKept(m)
    BY <1>1, <1>6, <1>7, <1>8, <1>15 DEF NoteKept, Inbox!NoteTyped
  <2> QED
    BY <2>1, KeptFollowed DEF Inbox!NoteInv
<1> QED
  BY <1>11, <1>14, <1>15 DEF Inbox!NoteInv

LEMMA NoteCalled ==
  ASSUME Inbox!NoteInv, NEW n \in Notes, Inbox!UpdateCalled(n)
  PROVE  Inbox!NoteInv'
<1>1. Inbox!NoteTyped /\ Inbox!NoteFollowed(n)
  BY DEF Inbox!NoteInv
<1>2. /\ s3[n].pc = "read" /\ s3' = [s3 EXCEPT ![n] = [pc |-> "write", status |-> s2[n].status]]
      /\ s1' = s1 /\ s2' = s2 /\ s4' = s4 /\ s5' = s5
  BY DEF Inbox!UpdateCalled
<1>3. s3'[n] = [pc |-> "write", status |-> s2[n].status]
  BY <1>1, <1>2 DEF Inbox!NoteTyped
<1>4. Inbox!Stored(n) /\ s1[n] # None
  BY <1>1, <1>2 DEF Inbox!NoteFollowed
<1>5. s2[n].status \in Inbox!NoteStatuses
  BY <1>4 DEF Inbox!Stored, Inbox!IsNote
<1>6. Inbox!Stored(n)'
  <2>1. ~Inbox!Quiet(n)'
    BY <1>3 DEF Inbox!Quiet
  <2> QED
    BY <1>2, <1>3, <1>4, <1>5, <2>1 DEF Inbox!Stored
<1>7. Inbox!NoteFollowed(n)'
  <2>1. \A k \in Inbox!Positions : Inbox!Retried(n, k)'
    BY <1>1, <1>2 DEF Inbox!NoteFollowed, Inbox!Retried
  <2> QED
    BY <1>2, <1>3, <1>4, <1>6, <2>1 DEF Inbox!NoteFollowed
<1>8. ASSUME NEW m \in Notes, m # n PROVE Inbox!NoteFollowed(m)'
  <2>1. NoteKept(m)
    BY <1>1, <1>2, <1>8 DEF NoteKept, Inbox!NoteTyped
  <2> QED
    BY <2>1, KeptFollowed DEF Inbox!NoteInv
<1>9. Inbox!NoteTyped'
  BY <1>1, <1>2 DEF Inbox!NoteTyped
<1> QED
  BY <1>7, <1>8, <1>9 DEF Inbox!NoteInv

\* A status is written to a row, or lost.
WritesRow(n, st) ==
  /\ s1' = s1 \/ \E r : /\ s1' = [s1 EXCEPT ![n] = r] /\ r # None
                        /\ r = [user |-> s2[n].user, channels |-> s2[n].channels, status |-> st]
  /\ s5' \in {s5 \cup {n}, s5 \ {n}}
  /\ n \notin s5' => s1'[n].status = s2[n].status
  /\ s1'[n] # None /\ s1'[n].status \in Inbox!NoteStatuses /\ DOMAIN s1' = Notes
  /\ s1'[n] = [user |-> s2[n].user, channels |-> s2[n].channels, status |-> s1'[n].status]
  /\ \A m \in Notes : m # n => s1'[m] = s1[m] /\ (m \in s5' <=> m \in s5)

LEMMA NoteWrites ==
  ASSUME Inbox!NoteTyped, NEW n \in Notes, Inbox!Stored(n), NEW st \in Inbox!NoteStatuses, Inbox!Writes(n, st), s1[n] # None
  PROVE  WritesRow(n, st)
<1>1. CASE s1' = s1 /\ s5' = s5 \cup {n}
  BY <1>1 DEF WritesRow, Inbox!Stored, Inbox!NoteTyped
<1>2. CASE Inbox!Update(n, st) /\ s5' = (IF st # s2[n].status THEN s5 \cup {n} ELSE s5 \ {n})
  <2>1. PICK r : r = [s1[n] EXCEPT !.status = st]
    OBVIOUS
  <2>2. s1' = [s1 EXCEPT ![n] = r]
    BY <1>2, <2>1 DEF Inbox!Update
  <2>3. r = [user |-> s2[n].user, channels |-> s2[n].channels, status |-> st] /\ r.status = st
    BY <2>1 DEF Inbox!Stored
  <2>4. r # None
    <3>1. s2[n].channels \in Seq(Inbox!Channels) /\ s2[n].user \in Senders
      BY NoteFields DEF Inbox!Stored
    <3> QED
      BY <2>3, <3>1, NoteAssumption
  <2>5. s1'[n] = r /\ DOMAIN s1' = Notes /\ \A m \in Notes : m # n => s1'[m] = s1[m]
    BY <2>2 DEF Inbox!NoteTyped
  <2> QED
    BY <1>2, <2>2, <2>3, <2>4, <2>5 DEF WritesRow
<1> QED
  BY <1>1, <1>2 DEF Inbox!Writes

LEMMA NoteUpdated ==
  ASSUME Inbox!NoteInv, NEW n \in Notes, Inbox!UpdateWritten(n)
  PROVE  Inbox!NoteInv'
<1>1. Inbox!NoteTyped /\ Inbox!NoteFollowed(n)
  BY DEF Inbox!NoteInv
<1>2. /\ s3[n].pc = "write" /\ Inbox!Writes(n, s3[n].status)
      /\ s3' = [s3 EXCEPT ![n] = [pc |-> "done"]] /\ s2' = s2 /\ s4' = s4
  BY DEF Inbox!UpdateWritten
<1>3. Inbox!Stored(n) /\ s1[n] # None /\ s3[n].status \in Inbox!NoteStatuses
  BY <1>1, <1>2 DEF Inbox!NoteFollowed, Inbox!Stored
<1>4. WritesRow(n, s3[n].status)
  BY <1>1, <1>2, <1>3, NoteWrites
<1>5. s3'[n] = [pc |-> "done"]
  BY <1>1, <1>2 DEF Inbox!NoteTyped
<1>6. s1'[n] # None
  BY <1>4 DEF WritesRow
<1>7. Inbox!Stored(n)'
  BY <1>2, <1>3, <1>4, <1>5 DEF WritesRow, Inbox!Stored
<1>8. Inbox!NoteFollowed(n)'
  <2>1. \A k \in Inbox!Positions : Inbox!Retried(n, k)'
    BY <1>1, <1>2, <1>6 DEF Inbox!NoteFollowed, Inbox!Retried
  <2> QED
    BY <1>5, <1>6, <1>7, <2>1 DEF Inbox!NoteFollowed
<1>9. ASSUME NEW m \in Notes, m # n PROVE Inbox!NoteFollowed(m)'
  <2>1. NoteKept(m)
    BY <1>1, <1>2, <1>4, <1>9 DEF NoteKept, WritesRow, Inbox!NoteTyped
  <2> QED
    BY <2>1, KeptFollowed DEF Inbox!NoteInv
<1>10. Inbox!NoteTyped'
  BY <1>1, <1>2, <1>4 DEF WritesRow, Inbox!NoteTyped
<1> QED
  BY <1>8, <1>9, <1>10 DEF Inbox!NoteInv

LEMMA NoteRetried ==
  ASSUME Inbox!NoteInv, NEW n \in Notes, NEW k \in Inbox!Positions, Inbox!retryNotification(n, k)
  PROVE  Inbox!NoteInv'
<1>1. Inbox!NoteTyped /\ Inbox!NoteFollowed(n)
  BY DEF Inbox!NoteInv
<1>2. PICK o : o = s2[n]
  OBVIOUS
<1>3. PICK p \in {Inbox!Sent(o, o.channels[k]), Inbox!MarkChannelFailed(o, o.channels[k])} :
        /\ s2' = [s2 EXCEPT ![n] = p]
        /\ s4' = [s4 EXCEPT ![<<n, k>>] = [pc |-> "write", status |-> p.status]]
  BY <1>2 DEF Inbox!retryNotification, Inbox!Outcome
<1>4. s4[<<n, k>>].pc = "wait" /\ s1' = s1 /\ s3' = s3 /\ s5' = s5
  BY DEF Inbox!retryNotification
<1>5. s1[n] # None /\ k \in DOMAIN o.channels /\ Inbox!Stored(n)
  BY <1>1, <1>2, <1>4 DEF Inbox!NoteFollowed, Inbox!Retried
<1>6. Inbox!IsNote(o)
  BY <1>2, <1>5 DEF Inbox!Stored
<1>7. /\ Inbox!IsNote(p) /\ p.channels = o.channels /\ p.user = o.user
      /\ \A j : Inbox!Tried(o, j) => Inbox!Tried(p, j)
      /\ Inbox!Tried(o, Len(o.channels) + 1) /\ Inbox!StaysPending(o) => Inbox!StaysPending(p)
  BY <1>3, <1>5, <1>6, OutcomeKeeps
<1>8. s2'[n] = p /\ s4'[<<n, k>>] = [pc |-> "write", status |-> p.status]
  BY <1>1, <1>3 DEF Inbox!NoteTyped
<1>9. Inbox!Stored(n)'
  <2>1. ~Inbox!Quiet(n)'
    BY <1>8 DEF Inbox!Quiet
  <2> QED
    BY <1>2, <1>4, <1>5, <1>7, <1>8, <2>1 DEF Inbox!Stored
<1>10. ASSUME NEW j \in Inbox!Positions PROVE Inbox!Retried(n, j)'
  <2>1. Inbox!Retried(n, j)
    BY <1>1 DEF Inbox!NoteFollowed
  <2>2. CASE j = k
    <3>1. p.status \in Inbox!NoteStatuses
      BY <1>7 DEF Inbox!IsNote
    <3> QED
      BY <1>4, <1>5, <1>7, <1>8, <2>2, <3>1 DEF Inbox!Retried
  <2>3. CASE j # k
    <3>1. s4'[<<n, j>>] = s4[<<n, j>>]
      BY <1>1, <1>3, <2>3 DEF Inbox!NoteTyped
    <3> QED
      BY <1>2, <1>4, <1>7, <1>8, <2>1, <3>1 DEF Inbox!Retried
  <2> QED
    BY <2>2, <2>3
<1>11. Inbox!NoteFollowed(n)'
  BY <1>1, <1>4, <1>9, <1>10 DEF Inbox!NoteFollowed
<1>12. ASSUME NEW m \in Notes, m # n PROVE Inbox!NoteFollowed(m)'
  <2>1. NoteKept(m)
    BY <1>1, <1>3, <1>4, <1>12 DEF NoteKept, Inbox!NoteTyped
  <2> QED
    BY <2>1, KeptFollowed DEF Inbox!NoteInv
<1>13. Inbox!NoteTyped'
  BY <1>1, <1>3, <1>4 DEF Inbox!NoteTyped
<1> QED
  BY <1>11, <1>12, <1>13 DEF Inbox!NoteInv

LEMMA NoteRetryWritten ==
  ASSUME Inbox!NoteInv, NEW n \in Notes, NEW k \in Inbox!Positions, Inbox!RetryWritten(n, k)
  PROVE  Inbox!NoteInv'
<1>1. Inbox!NoteTyped /\ Inbox!NoteFollowed(n) /\ Inbox!Retried(n, k)
  BY DEF Inbox!NoteInv, Inbox!NoteFollowed
<1>2. PICK st : st = s4[<<n, k>>].status
  OBVIOUS
<1>3. /\ s4[<<n, k>>].pc = "write" /\ Inbox!Writes(n, st)
      /\ s4' = [s4 EXCEPT ![<<n, k>>] = [pc |-> "done"]] /\ s2' = s2 /\ s3' = s3
  BY <1>2 DEF Inbox!RetryWritten
<1>4. Inbox!Stored(n) /\ s1[n] # None /\ st \in Inbox!NoteStatuses /\ k \in DOMAIN s2[n].channels
  BY <1>1, <1>2, <1>3 DEF Inbox!NoteFollowed, Inbox!Retried
<1>5. WritesRow(n, st)
  BY <1>1, <1>3, <1>4, NoteWrites
<1>6. s4'[<<n, k>>] = [pc |-> "done"]
  BY <1>1, <1>3 DEF Inbox!NoteTyped
<1>7. s1'[n] # None
  BY <1>5 DEF WritesRow
<1>8. Inbox!Stored(n)'
  BY <1>3, <1>4, <1>5 DEF WritesRow, Inbox!Stored
<1>9. ASSUME NEW j \in Inbox!Positions PROVE Inbox!Retried(n, j)'
  <2>1. Inbox!Retried(n, j)
    BY <1>1 DEF Inbox!NoteFollowed
  <2>2. CASE j = k
    BY <1>3, <1>4, <1>6, <1>7, <2>2 DEF Inbox!Retried
  <2>3. CASE j # k
    <3>1. s4'[<<n, j>>] = s4[<<n, j>>]
      BY <1>1, <1>3, <2>3 DEF Inbox!NoteTyped
    <3> QED
      BY <1>3, <1>7, <2>1, <3>1 DEF Inbox!Retried
  <2> QED
    BY <2>2, <2>3
<1>10. Inbox!NoteFollowed(n)'
  BY <1>1, <1>3, <1>7, <1>8, <1>9 DEF Inbox!NoteFollowed
<1>11. ASSUME NEW m \in Notes, m # n PROVE Inbox!NoteFollowed(m)'
  <2>1. NoteKept(m)
    BY <1>1, <1>3, <1>5, <1>11 DEF NoteKept, WritesRow, Inbox!NoteTyped
  <2> QED
    BY <2>1, KeptFollowed DEF Inbox!NoteInv
<1>12. Inbox!NoteTyped'
  BY <1>1, <1>3, <1>5 DEF WritesRow, Inbox!NoteTyped
<1> QED
  BY <1>10, <1>11, <1>12 DEF Inbox!NoteInv

\* What is marked as read has an id of its own, and no row.
LEMMA NothingRead ==
  ASSUME Inbox!NoteInv, Inbox!MarkAsReadHandler
  PROVE  Inbox!NoteInv'
<1>1. s1' = s1 /\ s2' = s2 /\ s3' = s3 /\ s4' = s4 /\ s5' = s5
  BY NoteAssumption DEF Inbox!MarkAsReadHandler, Inbox!MarkAsReadService, Inbox!scanNotification, Inbox!Update
<1>2. ASSUME NEW n \in Notes PROVE Inbox!NoteFollowed(n)'
  BY <1>1, KeptFollowed DEF Inbox!NoteInv, NoteKept
<1> QED
  BY <1>1, <1>2 DEF Inbox!NoteInv, Inbox!NoteTyped

\* Nobody sends on after a restart; what was written stays.
LEMMA NoteCutOff ==
  ASSUME Inbox!NoteInv, Inbox!NoteRestart
  PROVE  Inbox!NoteInv'
<1>1. /\ s3' = [n \in Notes |-> Inbox!Forgotten(s3[n])]
      /\ s4' = [k \in Notes \X Inbox!Positions |-> Inbox!Forgotten(s4[k])]
      /\ s1' = s1 /\ s2' = s2 /\ s5' = s5
  BY DEF Inbox!NoteRestart
<1>2. Inbox!NoteTyped'
  BY <1>1 DEF Inbox!NoteInv, Inbox!NoteTyped
<1>3. ASSUME NEW n \in Notes PROVE Inbox!NoteFollowed(n)'
  <2>1. Inbox!NoteFollowed(n)
    BY DEF Inbox!NoteInv
  <2>2. s3[n].pc \in {"idle", "send", "read", "write", "done", "lost"} /\ (s3[n].pc # "idle" => s1[n] # None)
    BY <2>1 DEF Inbox!NoteFollowed
  <2>3. s3'[n].pc = IF s3[n].pc \in {"send", "read", "write"} THEN "lost" ELSE s3[n].pc
    <3>1. s3[n].pc # "wait"
      BY <2>2
    <3> QED
      BY <1>1, <3>1 DEF Inbox!Forgotten
  <2>4. ASSUME NEW k \in Inbox!Positions
        PROVE  /\ Inbox!Retried(n, k)'
               /\ s4'[<<n, k>>].pc \in {"idle", "wait", "done"} => s4[<<n, k>>].pc \in {"idle", "wait", "done"}
    <3>1. Inbox!Retried(n, k)
      BY <2>1 DEF Inbox!NoteFollowed
    <3>2. s4[<<n, k>>].pc \in {"idle", "wait", "write", "done", "lost"}
      BY <3>1 DEF Inbox!Retried
    <3>3. s4'[<<n, k>>].pc = IF s4[<<n, k>>].pc = "wait" THEN "done"
                            ELSE IF s4[<<n, k>>].pc = "write" THEN "lost" ELSE s4[<<n, k>>].pc
      BY <1>1, <3>2 DEF Inbox!Forgotten
    <3> QED
      BY <1>1, <3>1, <3>2, <3>3 DEF Inbox!Retried
  <2>5. ASSUME Inbox!Stored(n) PROVE Inbox!Stored(n)'
    <3>1. Inbox!Quiet(n)' => Inbox!Quiet(n)
      BY <2>2, <2>3, <2>4 DEF Inbox!Quiet
    <3> QED
      BY <1>1, <2>2, <2>3, <2>5, <3>1 DEF Inbox!Stored
  <2> QED
    BY <1>1, <2>1, <2>2, <2>3, <2>4, <2>5 DEF Inbox!NoteFollowed
<1> QED
  BY <1>2, <1>3 DEF Inbox!NoteInv

LEMMA NoteStep == Inbox!NoteInv /\ Inbox!NoteNext => Inbox!NoteInv'
BY NoteCreated, NoteSent, NoteCalled, NoteUpdated, NoteRetried, NoteRetryWritten, NothingRead, NoteCutOff
   DEF Inbox!NoteNext, Inbox!CreateNotificationHandler

LEMMA NotesAreSafe == Inbox!NoteInv => Inbox!PendingExplained
<1> SUFFICES ASSUME Inbox!NoteInv PROVE Inbox!PendingExplained
  OBVIOUS
<1>1. ASSUME NEW n \in Notes, Inbox!Settled(n), s1[n].status = "pending", n \notin s5, ~Inbox!CutOff(n)
      PROVE  Inbox!LastFailed(s2[n])
  <2>1. s3[n].pc = "done" /\ Inbox!Stored(n)
    BY <1>1 DEF Inbox!NoteInv, Inbox!NoteFollowed, Inbox!Settled, Inbox!CutOff
  <2>2. Inbox!Quiet(n)
    BY <1>1, <2>1 DEF Inbox!Settled, Inbox!CutOff, Inbox!Quiet
  <2> QED
    BY <1>1, <2>1, <2>2 DEF Inbox!Stored, Inbox!StaysPending
<1> QED
  BY <1>1 DEF Inbox!PendingExplained, Inbox!LastFailed
-----------------------------------------------------------------------------
(* Node definitions: one row or one creation has a name, unless two        *)
(* creations of it overlapped or its lookup failed.                        *)
LEMMA NodeStart == Definitions!Init => Definitions!NodeInv
<1> SUFFICES ASSUME Definitions!Init PROVE Definitions!NodeInv
  OBVIOUS
<1>1. s4 = [pc |-> "check", rest |-> SystemNodes, node |-> None, starts |-> 1] /\ s4.pc = "check"
  BY DEF Definitions!Init, Definitions!Started
<1>2. DOMAIN s1 = NodeIds /\ DOMAIN s3 = Calls /\ \A id \in NodeIds : ~Definitions!Stored(id)
  BY DEF Definitions!Init, Definitions!Silent, Definitions!Stored
<1>3. \A r \in Calls : s3[r].pc = "answered"
  BY DEF Definitions!Init, Definitions!Silent
<1>4. \A name : Definitions!OneHas(name)
  BY <1>1, <1>2, <1>3 DEF Definitions!OneHas, Definitions!Named, Definitions!Saves, Definitions!BootSaves
<1> QED
  BY <1>1, <1>2, <1>3, <1>4, NodeAssumption DEF Definitions!NodeInv, Definitions!KnownCall

\* Nothing new has the name.
Shrinks(name) ==
  /\ \A id \in NodeIds : Definitions!Named(id, name)' => Definitions!Named(id, name)
  /\ \A r \in Calls : Definitions!Saves(r, name)' => Definitions!Saves(r, name)
  /\ Definitions!BootSaves(name)' => Definitions!BootSaves(name)

LEMMA OneStays ==
  ASSUME NEW name, Definitions!OneHas(name), Shrinks(name)
  PROVE  Definitions!OneHas(name)'
BY DEF Definitions!OneHas, Shrinks

\* Rows stay, go, or come; a row that comes has a name.
RowsStay ==
  /\ DOMAIN s1' = NodeIds
  /\ \A id \in NodeIds : s1'[id] = s1[id] \/ s1'[id] = Gone
RowComes(id, row) ==
  /\ id \in NodeIds /\ s1[id] = None /\ row.name \in Definitions!Names
  /\ s1' = [s1 EXCEPT ![id] = row]
RowsMove == RowsStay \/ \E id, row : RowComes(id, row)

\* One request moves on, the others stay.
Moved(r) ==
  /\ DOMAIN s3' = Calls /\ \A c \in Calls : c # r => s3'[c] = s3[c]
  /\ Definitions!KnownCall(s3'[r])

LEMMA Answers ==
  ASSUME Definitions!NodeInv, NEW r \in Calls, NEW code, Definitions!Answer(r, code)
  PROVE  Moved(r) /\ s3'[r].pc = "answered"
<1>1. PICK q : q = [pc |-> "answered", code |-> code]
  OBVIOUS
<1>2. q.pc = "answered"
  BY <1>1
<1>3. s3' = [s3 EXCEPT ![r] = q] /\ DOMAIN s3 = Calls
  BY <1>1 DEF Definitions!Answer, Definitions!NodeInv
<1> QED
  BY <1>2, <1>3 DEF Moved, Definitions!KnownCall

LEMMA Goes ==
  ASSUME Definitions!NodeInv, NEW r \in Calls, NEW pc, NEW id, NEW n \in Definitions!Objects,
         Definitions!Goto(r, pc, id, n)
  PROVE  Moved(r) /\ s3'[r].pc = pc /\ s3'[r].node = n
<1>1. PICK q : q = [pc |-> pc, id |-> id, node |-> n]
  OBVIOUS
<1>2. q.pc = pc /\ q.node = n
  BY <1>1
<1>3. s3' = [s3 EXCEPT ![r] = q] /\ DOMAIN s3 = Calls
  BY <1>1 DEF Definitions!Goto, Definitions!NodeInv
<1> QED
  BY <1>2, <1>3 DEF Moved, Definitions!KnownCall

\* What is left to show of a step is who has which name.
LEMMA RequestKeeps ==
  ASSUME Definitions!NodeInv, NEW r \in Calls, Moved(r), RowsMove, s4' = s4,
         \A name \in Definitions!Names : name.copies = 0 /\ name \notin s5' => Definitions!OneHas(name)'
  PROVE  Definitions!NodeInv'
<1>1. DOMAIN s1' = NodeIds
  BY DEF RowsMove, RowsStay, RowComes, Definitions!NodeInv
<1>2. ASSUME NEW id \in NodeIds, Definitions!Stored(id)' PROVE s1'[id].name \in Definitions!Names
  BY <1>2 DEF RowsMove, RowsStay, RowComes, Definitions!NodeInv, Definitions!Stored
<1>3. \A c \in Calls : Definitions!KnownCall(s3'[c])
  BY DEF Moved, Definitions!NodeInv
<1>4. ASSUME s4.pc = "mark" PROVE s1'[s4.node.id] \in {Gone, Definitions!RowOf(s4.node)} \ {None}
  <2>1. PICK id, row : id = s4.node.id /\ row = Definitions!RowOf(s4.node)
    OBVIOUS
  <2>2. id \in NodeIds /\ s1[id] \in {Gone, row} \ {None}
    BY <1>4, <2>1 DEF Definitions!NodeInv
  <2>3. Gone # None
    BY NodeAssumption
  <2>4. s1'[id] = s1[id] \/ s1'[id] = Gone
    BY <2>2, <2>3 DEF RowsMove, RowsStay, RowComes, Definitions!NodeInv
  <2> QED
    BY <2>1, <2>2, <2>3, <2>4
<1>5. Definitions!RowOf(s4.node)' = Definitions!RowOf(s4.node)
  BY DEF Definitions!RowOf
<1> QED
  BY <1>1, <1>2, <1>3, <1>4, <1>5 DEF Definitions!NodeInv, Moved

LEMMA QuietRequest ==
  ASSUME Definitions!NodeInv, NEW r \in Calls, Moved(r), s3'[r].pc # "save", RowsStay, s4' = s4, s5' = s5
  PROVE  Definitions!NodeInv'
<1>1. \A name : Shrinks(name)
  BY DEF Shrinks, Moved, RowsStay, Definitions!Named, Definitions!Stored, Definitions!Saves, Definitions!BootSaves
<1> QED
  BY <1>1, OneStays, RequestKeeps DEF RowsMove, Definitions!NodeInv

LEMMA RowsSame ==
  ASSUME Definitions!NodeInv, s1' = s1
  PROVE  RowsStay
BY DEF RowsStay, Definitions!NodeInv

LEMMA RowGoes ==
  ASSUME Definitions!NodeInv, NEW id, Definitions!Delete(id)
  PROVE  RowsStay
BY DEF Definitions!Delete, Definitions!NodeInv, RowsStay

\* An object with a new id meets no row.
LEMMA UpdateMeetsNone ==
  ASSUME NEW n, n.id = Fresh, Definitions!Update(n)
  PROVE  s1' = s1
BY NodeAssumption DEF Definitions!Update, Definitions!Found

LEMMA RowSaved ==
  ASSUME NEW n, n.name \in Definitions!Names, NEW id \in NodeIds, Definitions!Save(n, id)
  PROVE  RowComes(id, Definitions!RowOf(n)) /\ Definitions!RowOf(n).name = n.name
BY DEF Definitions!Save, Definitions!RowOf, RowComes

\* A new row with another name leaves this one as it is.
LEMMA OthersShrink ==
  ASSUME Definitions!NodeInv, NEW id, NEW row, RowComes(id, row), NEW name, row.name # name,
         \A r \in Calls : Definitions!Saves(r, name)' => Definitions!Saves(r, name),
         Definitions!BootSaves(name)' => Definitions!BootSaves(name)
  PROVE  Shrinks(name)
BY DEF Shrinks, RowComes, Definitions!Named, Definitions!Stored, Definitions!NodeInv

-----------------------------------------------------------------------------
(* Requests.                                                               *)
LEMMA NewNodeIs ==
  ASSUME NEW name, NEW ports
  PROVE  Definitions!NewNode(name, ports) =
           [id |-> Fresh, name |-> Definitions!Name(name, 0), ports |-> ports, system |-> FALSE]
<1>1. PICK named : named = Definitions!Name(name, 0)
  OBVIOUS
<1>2. PICK no : no = FALSE
  OBVIOUS
<1>3. PICK n : n = [id |-> Fresh, name |-> named, ports |-> "none", system |-> no]
  OBVIOUS
<1>4. [n EXCEPT !.ports = ports] = [id |-> Fresh, name |-> named, ports |-> ports, system |-> no]
  BY <1>3
<1> QED
  BY <1>1, <1>2, <1>3, <1>4 DEF Definitions!NewNode, Definitions!AddPorts, Definitions!NewNodeDefinition

LEMMA NewNodeFits ==
  ASSUME NEW name \in Definitions!SystemNames \union NodeNames
  PROVE  /\ Definitions!NewNode(name, "given") \in Definitions!Objects
         /\ Definitions!NewNode(name, "given").name = Definitions!Name(name, 0)
         /\ Definitions!NewNode(name, "given").ports = "given"
         /\ Definitions!Name(name, 0) \in Definitions!Names
         /\ Definitions!Name(name, 0) \in [base : {name}, copies : {0}]
<1>1. PICK named : named = Definitions!Name(name, 0)
  OBVIOUS
<1>2. named \in Definitions!Names /\ named \in [base : {name}, copies : {0}]
  BY <1>1 DEF Definitions!Name, Definitions!Names
<1>3. PICK no \in {FALSE} : no = FALSE
  OBVIOUS
<1>4. PICK n : n = [id |-> Fresh, name |-> named, ports |-> "given", system |-> no]
  OBVIOUS
<1>5. n \in Definitions!Objects /\ n.name = named /\ n.ports = "given"
  BY <1>2, <1>3, <1>4 DEF Definitions!Objects
<1> QED
  BY <1>1, <1>2, <1>3, <1>4, <1>5, NewNodeIs

\* Who looked a name up with success is alone with it, unless it is marked.
LEMMA LooksAlone ==
  ASSUME Definitions!NodeInv, NEW name, Definitions!LooksFree(name)
  PROVE  /\ s5 \subseteq s5'
         /\ name \in s5' \/ /\ \A id \in NodeIds : ~Definitions!Named(id, name)
                            /\ \A r \in Calls : ~Definitions!Saves(r, name)
                            /\ ~Definitions!BootSaves(name)
BY DEF Definitions!LooksFree, Definitions!FindByName, Definitions!Creating, Definitions!Named,
       Definitions!Saves, Definitions!BootSaves

LEMMA CreateBegins ==
  ASSUME Definitions!NodeInv, NEW r \in Calls, NEW n \in Definitions!Objects,
         Definitions!LooksFree(n.name), Definitions!Goto(r, "save", Fresh, n), s1' = s1, s4' = s4
  PROVE  Definitions!NodeInv'
<1>1. Moved(r) /\ s3'[r].pc = "save" /\ s3'[r].node = n
  BY Goes
<1>2. ASSUME NEW name \in Definitions!Names, name.copies = 0, name \notin s5'
      PROVE  Definitions!OneHas(name)'
  <2>1. Definitions!OneHas(name)
    BY <1>2, LooksAlone DEF Definitions!NodeInv
  <2>2. CASE name # n.name
    <3>1. Shrinks(name)
      BY <1>1, <2>2 DEF Shrinks, Moved, Definitions!Named, Definitions!Stored, Definitions!Saves, Definitions!BootSaves
    <3> QED
      BY <2>1, <3>1, OneStays
  <2>3. CASE name = n.name
    <3>1. /\ \A id \in NodeIds : ~Definitions!Named(id, name)
          /\ \A c \in Calls : ~Definitions!Saves(c, name)
          /\ ~Definitions!BootSaves(name)
      BY <1>2, <2>3, LooksAlone
    <3>2. /\ \A id \in NodeIds : ~Definitions!Named(id, name)'
          /\ \A c \in Calls : Definitions!Saves(c, name)' => c = r
          /\ ~Definitions!BootSaves(name)'
      BY <1>1, <3>1 DEF Moved, Definitions!Named, Definitions!Stored, Definitions!Saves, Definitions!BootSaves
    <3> QED
      BY <3>2 DEF Definitions!OneHas
  <2> QED
    BY <2>2, <2>3
<1> QED
  BY <1>1, <1>2, RowsSame, RequestKeeps DEF RowsMove

LEMMA CreateKeeps ==
  ASSUME Definitions!NodeInv, NEW r \in Calls, NEW name \in NodeNames,
         NEW ports \in {"given", "repeated", "unnamed"}, Definitions!CreateNode(r, name, ports), s4' = s4
  PROVE  Definitions!NodeInv'
<1>1. s1' = s1
  BY DEF Definitions!CreateNode
<1>2. PICK n : n = Definitions!NewNode(name, ports)
  OBVIOUS
<1>3. CASE s5' = s5 /\ \E code : Definitions!Answer(r, code)
  BY <1>1, <1>3, Answers, RowsSame, QuietRequest
<1>4. CASE /\ Definitions!Addable(ports) /\ Definitions!Validate(n)
           /\ Definitions!LooksFree(n.name) /\ Definitions!Goto(r, "save", Fresh, n)
  <2>1. n.ports = ports
    BY <1>2, NewNodeIs
  <2>2. ports = "given"
    BY <1>4, <2>1 DEF Definitions!Addable, Definitions!Validate
  <2>3. n \in Definitions!Objects
    BY <1>2, <2>2, NewNodeFits
  <2> QED
    BY <1>1, <1>4, <2>3, CreateBegins
<1> QED
  BY <1>2, <1>3, <1>4 DEF Definitions!CreateNode

LEMMA SaveKeeps ==
  ASSUME Definitions!NodeInv, NEW r \in Calls, Definitions!SaveNode(r), s4' = s4
  PROVE  Definitions!NodeInv'
<1>1. PICK n : n = s3[r].node
  OBVIOUS
<1>2. s3[r].pc = "save" /\ s5' = s5 /\ n \in Definitions!Objects
  BY <1>1 DEF Definitions!SaveNode, Definitions!NodeInv, Definitions!KnownCall
<1>3. n.name \in Definitions!Names
  BY <1>2 DEF Definitions!Objects
<1>4. CASE s1' = s1
  <2>1. \E code : Definitions!Answer(r, code)
    BY DEF Definitions!SaveNode
  <2> QED
    BY <1>2, <1>4, <2>1, Answers, RowsSame, QuietRequest
<1>5. ASSUME NEW id \in NodeIds, Definitions!Save(n, id),
             Definitions!Answer(r, Definitions!CreateStatus("none"))
      PROVE  Definitions!NodeInv'
  <2>1. Moved(r) /\ s3'[r].pc = "answered"
    BY <1>5, Answers
  <2>2. PICK row : row = Definitions!RowOf(n)
    OBVIOUS
  <2>3. RowComes(id, row) /\ row.name = n.name
    BY <1>3, <1>5, <2>2, RowSaved
  <2>4. ASSUME NEW name \in Definitions!Names, name.copies = 0, name \notin s5'
        PROVE  Definitions!OneHas(name)'
    <3>1. Definitions!OneHas(name)
      BY <1>2, <2>4 DEF Definitions!NodeInv
    <3>2. /\ \A c \in Calls : Definitions!Saves(c, name)' => Definitions!Saves(c, name) /\ c # r
          /\ Definitions!BootSaves(name)' => Definitions!BootSaves(name)
      BY <2>1 DEF Moved, Definitions!Saves, Definitions!BootSaves
    <3>3. CASE name # n.name
      BY <2>3, <3>1, <3>2, <3>3, OthersShrink, OneStays
    <3>4. CASE name = n.name
      <4>1. Definitions!Saves(r, name)
        BY <1>1, <1>2, <3>4 DEF Definitions!Saves
      <4>2. /\ \A c \in Calls : ~Definitions!Saves(c, name)'
            /\ ~Definitions!BootSaves(name)'
            /\ \A i \in NodeIds : ~Definitions!Named(i, name)
        BY <3>1, <3>2, <4>1 DEF Definitions!OneHas
      <4>3. \A i \in NodeIds : Definitions!Named(i, name)' => i = id
        BY <2>3, <4>2 DEF RowComes, Definitions!Named, Definitions!Stored, Definitions!NodeInv
      <4> QED
        BY <4>2, <4>3 DEF Definitions!OneHas
    <3> QED
      BY <3>3, <3>4
  <2> QED
    BY <2>1, <2>3, <2>4, RequestKeeps DEF RowsMove
<1> QED
  BY <1>1, <1>4, <1>5 DEF Definitions!SaveNode

LEMMA CloneIs ==
  ASSUME NEW n \in Definitions!Objects
  PROVE  /\ Definitions!Clone(n).name \in Definitions!Names
         /\ Definitions!Clone(n).name.copies # 0
<1>1. PICK base, copies : base = n.name.base /\ copies = n.name.copies
  OBVIOUS
<1>2. n.name \in Definitions!Names /\ n = [id |-> n.id, name |-> n.name, ports |-> n.ports, system |-> n.system]
  BY DEF Definitions!Objects
<1>3. copies \in Nat /\ base \in Definitions!SystemNames \union NodeNames
  BY <1>1, <1>2 DEF Definitions!Names
<1>4. PICK named : named = [base |-> base, copies |-> copies + 1]
  OBVIOUS
<1>5. named \in Definitions!Names /\ named.copies # 0
  BY <1>3, <1>4 DEF Definitions!Names
<1>6. named = Definitions!Name(n.name.base, n.name.copies + 1)
  BY <1>1, <1>4 DEF Definitions!Name
<1>7. PICK no : no = FALSE
  OBVIOUS
<1>8. PICK c : c = [n EXCEPT !.id = Fresh, !.system = no, !.name = named]
  OBVIOUS
<1>9. c.name = named
  BY <1>2, <1>8
<1> QED
  BY <1>5, <1>6, <1>7, <1>8, <1>9 DEF Definitions!Clone

LEMMA CloneKeeps ==
  ASSUME Definitions!NodeInv, NEW r \in Calls, Definitions!CloneNode(r), s4' = s4
  PROVE  Definitions!NodeInv'
<1>1. PICK n : n = s3[r].node
  OBVIOUS
<1>2. s3[r].pc = "clone" /\ s5' = s5 /\ n \in Definitions!Objects
  BY <1>1 DEF Definitions!CloneNode, Definitions!NodeInv, Definitions!KnownCall
<1>3. PICK clone : clone = Definitions!Clone(n)
  OBVIOUS
<1>4. clone.name \in Definitions!Names /\ clone.name.copies # 0
  BY <1>2, <1>3, CloneIs
<1>5. CASE s1' = s1
  <2>1. \E code : Definitions!Answer(r, code)
    BY DEF Definitions!CloneNode
  <2> QED
    BY <1>2, <1>5, <2>1, Answers, RowsSame, QuietRequest
<1>6. ASSUME NEW id \in NodeIds, Definitions!Save(clone, id),
             Definitions!Answer(r, Definitions!CloneStatus("none"))
      PROVE  Definitions!NodeInv'
  <2>1. Moved(r) /\ s3'[r].pc = "answered"
    BY <1>6, Answers
  <2>2. PICK row : row = Definitions!RowOf(clone)
    OBVIOUS
  <2>3. RowComes(id, row) /\ row.name = clone.name
    BY <1>4, <1>6, <2>2, RowSaved
  <2>4. ASSUME NEW name \in Definitions!Names, name.copies = 0, name \notin s5'
        PROVE  Definitions!OneHas(name)'
    <3>1. Definitions!OneHas(name) /\ row.name # name
      BY <1>2, <1>4, <2>3, <2>4 DEF Definitions!NodeInv
    <3>2. /\ \A c \in Calls : Definitions!Saves(c, name)' => Definitions!Saves(c, name)
          /\ Definitions!BootSaves(name)' => Definitions!BootSaves(name)
      BY <2>1 DEF Moved, Definitions!Saves, Definitions!BootSaves
    <3> QED
      BY <2>3, <3>1, <3>2, OthersShrink, OneStays
  <2> QED
    BY <2>1, <2>3, <2>4, RequestKeeps DEF RowsMove
<1> QED
  BY <1>1, <1>3, <1>5, <1>6 DEF Definitions!CloneNode

LEMMA LoadedFits ==
  ASSUME Definitions!NodeInv, NEW id \in NodeIds, Definitions!Stored(id)
  PROVE  Definitions!toDomain(id) \in Definitions!Objects
<1>1. PICK name \in Definitions!Names : name = s1[id].name
  BY DEF Definitions!NodeInv
<1>2. PICK no \in {FALSE} : no = FALSE
  OBVIOUS
<1>3. [id |-> Fresh, name |-> name, ports |-> "none", system |-> no] \in Definitions!Objects
  BY DEF Definitions!Objects
<1> QED
  BY <1>1, <1>2, <1>3 DEF Definitions!toDomain, Definitions!NewNodeDefinition

LEMMA RequestServed ==
  ASSUME Definitions!NodeInv, NEW r \in Calls, Definitions!RegisterRoutes(r), s4' = s4
  PROVE  Definitions!NodeInv'
<1>1. ASSUME NEW id \in NodeIds, Definitions!GetNode(r, id) PROVE Definitions!NodeInv'
  <2>1. s1' = s1 /\ s5' = s5
    BY <1>1 DEF Definitions!GetNode
  <2>2. CASE \E code : Definitions!Answer(r, code)
    BY <2>1, <2>2, Answers, RowsSame, QuietRequest
  <2>3. CASE Definitions!Stored(id) /\ Definitions!Goto(r, "cache", id, Definitions!toDomain(id))
    BY <2>1, <2>3, LoadedFits, Goes, RowsSame, QuietRequest
  <2> QED
    BY <1>1, <2>2, <2>3 DEF Definitions!GetNode
<1>2. ASSUME NEW id \in NodeIds, NEW pc \in {"update", "delete", "clone"}, Definitions!Load(r, id, pc)
      PROVE  Definitions!NodeInv'
  <2>1. s1' = s1 /\ s5' = s5
    BY <1>2 DEF Definitions!Load
  <2>2. CASE \E code : Definitions!Answer(r, code)
    BY <2>1, <2>2, Answers, RowsSame, QuietRequest
  <2>3. CASE Definitions!Stored(id) /\ Definitions!Goto(r, pc, id, Definitions!toDomain(id))
    BY <2>1, <2>3, LoadedFits, Goes, RowsSame, QuietRequest
  <2> QED
    BY <1>2, <2>2, <2>3 DEF Definitions!Load
<1>3. ASSUME Definitions!CacheNode(r) PROVE Definitions!NodeInv'
  BY <1>3, Answers, RowsSame, QuietRequest DEF Definitions!CacheNode
<1>4. ASSUME Definitions!UpdateNode(r) PROVE Definitions!NodeInv'
  <2>1. s3[r].node.id = Fresh /\ s5' = s5 /\ \E code : Definitions!Answer(r, code)
    BY <1>4 DEF Definitions!UpdateNode, Definitions!NodeInv, Definitions!KnownCall, Definitions!Objects
  <2>2. s1' = s1
    BY <1>4, <2>1, UpdateMeetsNone DEF Definitions!UpdateNode
  <2> QED
    BY <2>1, <2>2, Answers, RowsSame, QuietRequest
<1>5. ASSUME Definitions!DeleteNode(r) PROVE Definitions!NodeInv'
  <2>1. s5' = s5 /\ \E code : Definitions!Answer(r, code)
    BY <1>5 DEF Definitions!DeleteNode
  <2>2. RowsStay
    BY <1>5, RowsSame, RowGoes DEF Definitions!DeleteNode
  <2> QED
    BY <2>1, <2>2, Answers, QuietRequest
<1> QED
  BY <1>1, <1>2, <1>3, <1>4, <1>5, CreateKeeps, SaveKeeps, CloneKeeps DEF Definitions!RegisterRoutes

-----------------------------------------------------------------------------
(* The start-up, step by step.                                             *)
BootAs(pc, rest, node, starts) == [pc |-> pc, rest |-> rest, node |-> node, starts |-> starts]

BootKnown ==
  /\ s4 = BootAs(s4.pc, s4.rest, s4.node, s4.starts)
  /\ s4.rest \in Seq(Definitions!SystemNames)
  /\ s4.pc \in {"create", "save", "mark"} => s4.rest # <<>>
  /\ s4.pc = "save" => /\ s4.node \in Definitions!Objects /\ s4.node.ports = "given"
                       /\ s4.node.name \in [base : Definitions!SystemNames, copies : {0}]

LEMMA BootIsKnown == Definitions!NodeInv => BootKnown
BY DEF Definitions!NodeInv, BootKnown, BootAs

\* What is left to show of a step of the start-up.
LEMMA BootKeeps ==
  ASSUME Definitions!NodeInv, s3' = s3, BootKnown', s4'.pc # "mark", DOMAIN s1' = NodeIds,
         \A id \in NodeIds : Definitions!Stored(id)' => s1'[id].name \in Definitions!Names,
         \A name \in Definitions!Names : name.copies = 0 /\ name \notin s5' => Definitions!OneHas(name)'
  PROVE  Definitions!NodeInv'
BY DEF Definitions!NodeInv, BootKnown, BootAs

\* Rows have the names they had.
NamesStay ==
  /\ DOMAIN s1' = NodeIds
  /\ \A id \in NodeIds : Definitions!Stored(id)' => Definitions!Stored(id) /\ s1'[id].name = s1[id].name

LEMMA QuietBoot ==
  ASSUME Definitions!NodeInv, s3' = s3, BootKnown', s4'.pc # "mark", s4'.pc # "save", NamesStay, s5' = s5
  PROVE  Definitions!NodeInv'
<1>1. \A name : Shrinks(name)
  BY DEF Shrinks, NamesStay, Definitions!Named, Definitions!Saves, Definitions!BootSaves
<1>2. \A name \in Definitions!Names : name.copies = 0 /\ name \notin s5' => Definitions!OneHas(name)'
  BY <1>1, OneStays DEF Definitions!NodeInv
<1> QED
  BY <1>2, BootKeeps DEF NamesStay, Definitions!NodeInv

LEMMA NextDefaultGoes ==
  ASSUME Definitions!NodeInv, Definitions!NextDefault, s4.rest # <<>>
  PROVE  BootKnown' /\ s4'.pc = "check"
<1>1. PICK rest : rest = s4.rest
  OBVIOUS
<1>2. s4 = BootAs(s4.pc, rest, s4.node, s4.starts) /\ rest \in Seq(Definitions!SystemNames)
  BY <1>1, BootIsKnown DEF BootKnown
<1>3. s4' = BootAs("check", Tail(rest), s4.node, s4.starts)
  BY <1>1, <1>2 DEF Definitions!NextDefault, BootAs
<1>4. Tail(rest) \in Seq(Definitions!SystemNames)
  BY <1>1, <1>2
<1>5. s4'.pc = "check" /\ s4'.rest = Tail(rest) /\ s4'.node = s4.node /\ s4'.starts = s4.starts
  BY <1>3 DEF BootAs
<1> QED
  BY <1>3, <1>4, <1>5 DEF BootKnown

LEMMA BootLooks ==
  ASSUME Definitions!NodeInv, Definitions!InitializeSystemNodes, s3' = s3
  PROVE  Definitions!NodeInv'
<1>1. s1' = s1 /\ s5' = s5 /\ s4.rest # <<>> /\ NamesStay
  BY DEF Definitions!InitializeSystemNodes, NamesStay, Definitions!Stored, Definitions!NodeInv
<1>2. CASE Definitions!NextDefault
  BY <1>1, <1>2, NextDefaultGoes, QuietBoot
<1>3. CASE s4' = [s4 EXCEPT !.pc = "create"]
  <2>1. PICK rest, node, starts : rest = s4.rest /\ node = s4.node /\ starts = s4.starts
    OBVIOUS
  <2>2. s4 = BootAs(s4.pc, rest, node, starts) /\ rest \in Seq(Definitions!SystemNames)
    BY <2>1, BootIsKnown DEF BootKnown
  <2>3. s4' = BootAs("create", rest, node, starts)
    BY <1>3, <2>2 DEF BootAs
  <2>4. s4'.pc = "create" /\ s4'.rest = rest /\ s4'.node = node /\ s4'.starts = starts
    BY <2>3 DEF BootAs
  <2>5. BootKnown'
    BY <1>1, <2>1, <2>2, <2>3, <2>4 DEF BootKnown
  <2> QED
    BY <1>1, <2>4, <2>5, QuietBoot
<1> QED
  BY <1>2, <1>3 DEF Definitions!InitializeSystemNodes

LEMMA BootCreates ==
  ASSUME Definitions!NodeInv, Definitions!CreateDefault, s3' = s3
  PROVE  Definitions!NodeInv'
<1>1. s4.pc = "create" /\ s1' = s1 /\ s4.rest # <<>>
  BY DEF Definitions!CreateDefault, Definitions!AtBoot, Definitions!NodeInv
<1>2. NamesStay
  BY <1>1 DEF NamesStay, Definitions!Stored, Definitions!NodeInv
<1>3. CASE Definitions!NextDefault /\ s5' = s5
  BY <1>1, <1>2, <1>3, NextDefaultGoes, QuietBoot
<1>4. CASE /\ Definitions!LooksFree(Definitions!DefaultNode.name)
           /\ s4' = [s4 EXCEPT !.pc = "save", !.node = Definitions!DefaultNode]
  <2>1. PICK rest, node, starts : rest = s4.rest /\ node = Definitions!DefaultNode /\ starts = s4.starts
    OBVIOUS
  <2>2. s4 = BootAs(s4.pc, rest, s4.node, starts) /\ rest \in Seq(Definitions!SystemNames)
    BY <2>1, BootIsKnown DEF BootKnown
  <2>3. Head(rest) \in Definitions!SystemNames
    BY <1>1, <2>1, <2>2
  <2>4. node = Definitions!NewNode(Head(rest), "given")
    BY <2>1 DEF Definitions!DefaultNode
  <2>5. /\ node \in Definitions!Objects /\ node.ports = "given"
        /\ node.name \in [base : Definitions!SystemNames, copies : {0}]
    BY <2>3, <2>4, NewNodeFits
  <2>6. s4' = BootAs("save", rest, node, starts)
    BY <1>4, <2>1, <2>2 DEF BootAs
  <2>7. s4'.pc = "save" /\ s4'.rest = rest /\ s4'.node = node /\ s4'.starts = starts
    BY <2>6 DEF BootAs
  <2>8. BootKnown'
    BY <1>1, <2>1, <2>2, <2>5, <2>6, <2>7 DEF BootKnown
  <2>9. ASSUME NEW name \in Definitions!Names, name.copies = 0, name \notin s5'
        PROVE  Definitions!OneHas(name)'
    <3>1. Definitions!OneHas(name)
      BY <1>4, <2>9, LooksAlone DEF Definitions!NodeInv
    <3>2. /\ \A id \in NodeIds : Definitions!Named(id, name)' => Definitions!Named(id, name)
          /\ \A c \in Calls : Definitions!Saves(c, name)' => Definitions!Saves(c, name)
      BY <1>1 DEF Definitions!Named, Definitions!Stored, Definitions!Saves
    <3>3. CASE name # node.name
      <4>1. Shrinks(name)
        BY <2>7, <3>2, <3>3 DEF Shrinks, Definitions!BootSaves
      <4> QED
        BY <3>1, <4>1, OneStays
    <3>4. CASE name = node.name
      <4>1. /\ \A id \in NodeIds : ~Definitions!Named(id, name)
            /\ \A c \in Calls : ~Definitions!Saves(c, name)
        BY <1>4, <2>1, <2>9, <3>4, LooksAlone
      <4> QED
        BY <3>2, <4>1 DEF Definitions!OneHas
    <3> QED
      BY <3>3, <3>4
  <2> QED
    BY <1>2, <2>7, <2>8, <2>9, BootKeeps DEF NamesStay, Definitions!NodeInv
<1> QED
  BY <1>3, <1>4 DEF Definitions!CreateDefault

LEMMA BootSaves ==
  ASSUME Definitions!NodeInv, Definitions!SaveDefault, s3' = s3
  PROVE  Definitions!NodeInv'
<1>1. s4.pc = "save" /\ s4.rest # <<>> /\ s5' = s5
  BY DEF Definitions!SaveDefault, Definitions!AtBoot, Definitions!NodeInv
<1>2. CASE Definitions!NextDefault /\ s1' = s1
  <2>1. NamesStay
    BY <1>2 DEF NamesStay, Definitions!Stored, Definitions!NodeInv
  <2> QED
    BY <1>1, <1>2, <2>1, NextDefaultGoes, QuietBoot
<1>3. ASSUME NEW id \in NodeIds, Definitions!Save(s4.node, id),
             s4' = [s4 EXCEPT !.pc = "mark", !.node.id = id]
      PROVE  Definitions!NodeInv'
  <2>1. PICK rest, node, starts : rest = s4.rest /\ node = s4.node /\ starts = s4.starts
    OBVIOUS
  <2>2. s4 = BootAs("save", rest, node, starts) /\ rest \in Seq(Definitions!SystemNames) /\ rest # <<>>
    BY <1>1, <2>1, BootIsKnown DEF BootKnown
  <2>3. /\ node \in Definitions!Objects /\ node.ports = "given"
        /\ node.name \in [base : Definitions!SystemNames, copies : {0}]
    BY <1>1, <2>1, BootIsKnown DEF BootKnown
  <2>4. PICK named, no : named = node.name /\ no = FALSE
    OBVIOUS
  <2>5. node = [id |-> Fresh, name |-> named, ports |-> "given", system |-> no] /\ named \in Definitions!Names
    BY <2>3, <2>4 DEF Definitions!Objects
  <2>6. PICK saved : saved = [node EXCEPT !.id = id]
    OBVIOUS
  <2>7. saved = [id |-> id, name |-> named, ports |-> "given", system |-> no]
    BY <2>5, <2>6
  <2>8. saved.id = id /\ saved.name = named /\ saved.ports = "given" /\ saved.system = no
    BY <2>7
  <2>9. s4' = BootAs("mark", rest, saved, starts)
    BY <1>3, <2>1, <2>2, <2>6 DEF BootAs
  <2>10. s4'.pc = "mark" /\ s4'.rest = rest /\ s4'.node = saved /\ s4'.starts = starts
    BY <2>9 DEF BootAs
  <2>11. PICK row : row = [name |-> named, ports |-> "given", system |-> no]
    OBVIOUS
  <2>12. Definitions!RowOf(node) = row /\ Definitions!RowOf(saved) = row /\ row.name = named
    BY <2>5, <2>8, <2>11 DEF Definitions!RowOf
  <2>13. row # None
    <3>1. row \in [name : [base : Definitions!SystemNames, copies : {0}], ports : {"given"}, system : {FALSE}]
      BY <2>3, <2>4, <2>11
    <3> QED
      BY <3>1, NodeAssumption
  <2>14. RowComes(id, row)
    BY <1>3, <2>1, <2>5, <2>12, RowSaved
  <2>15. DOMAIN s1' = NodeIds /\ s1'[id] = row
    BY <2>14 DEF RowComes, Definitions!NodeInv
  <2>16. \A i \in NodeIds : Definitions!Stored(i)' => s1'[i].name \in Definitions!Names
    BY <2>14 DEF RowComes, Definitions!NodeInv, Definitions!Stored
  <2>17. ASSUME NEW name \in Definitions!Names, name.copies = 0, name \notin s5'
        PROVE  Definitions!OneHas(name)'
    <3>1. Definitions!OneHas(name)
      BY <1>1, <2>17 DEF Definitions!NodeInv
    <3>2. /\ \A c \in Calls : Definitions!Saves(c, name)' => Definitions!Saves(c, name)
          /\ ~Definitions!BootSaves(name)'
      BY <2>10 DEF Definitions!Saves, Definitions!BootSaves
    <3>3. CASE name # named
      BY <2>12, <2>14, <3>1, <3>2, <3>3, OthersShrink, OneStays
    <3>4. CASE name = named
      <4>1. Definitions!BootSaves(name)
        BY <1>1, <2>1, <2>4, <3>4 DEF Definitions!BootSaves
      <4>2. /\ \A c \in Calls : ~Definitions!Saves(c, name)'
            /\ \A i \in NodeIds : ~Definitions!Named(i, name)
        BY <3>1, <3>2, <4>1 DEF Definitions!OneHas
      <4>3. \A i \in NodeIds : Definitions!Named(i, name)' => i = id
        BY <2>14, <4>2 DEF RowComes, Definitions!Named, Definitions!Stored, Definitions!NodeInv
      <4> QED
        BY <3>2, <4>2, <4>3 DEF Definitions!OneHas
    <3> QED
      BY <3>3, <3>4
  <2>18. Definitions!RowOf(s4.node)' = row
    BY <2>10, <2>12 DEF Definitions!RowOf
  <2>19. s4'.node = [id |-> s4'.node.id, name |-> s4'.node.name, ports |-> s4'.node.ports, system |-> FALSE]
    BY <2>4, <2>7, <2>8, <2>10
  <2> QED
    BY <2>2, <2>5, <2>8, <2>9, <2>10, <2>13, <2>15, <2>16, <2>17, <2>18, <2>19
    DEF Definitions!NodeInv, BootAs
<1> QED
  BY <1>2, <1>3 DEF Definitions!SaveDefault

LEMMA BootMarks ==
  ASSUME Definitions!NodeInv, Definitions!MarkDefault, s3' = s3
  PROVE  Definitions!NodeInv'
<1>1. PICK n : n = s4.node
  OBVIOUS
<1>2. /\ s4.pc = "mark" /\ s4.rest # <<>> /\ s5' = s5
      /\ n = [id |-> n.id, name |-> n.name, ports |-> n.ports, system |-> FALSE]
      /\ n.id \in NodeIds /\ s1[n.id] \in {Gone, Definitions!RowOf(n)}
  BY <1>1 DEF Definitions!MarkDefault, Definitions!AtBoot, Definitions!NodeInv
<1>3. PICK m : m = Definitions!MarkAsSystem(n)
  OBVIOUS
<1>4. PICK yes : yes = TRUE
  OBVIOUS
<1>5. m = [id |-> n.id, name |-> n.name, ports |-> n.ports, system |-> yes]
  BY <1>2, <1>3, <1>4 DEF Definitions!MarkAsSystem
<1>6. m.id = n.id /\ m.name = n.name
  BY <1>5
<1>7. PICK row : row = Definitions!RowOf(m)
  OBVIOUS
<1>8. row.name = n.name /\ Definitions!RowOf(n).name = n.name
  BY <1>6, <1>7 DEF Definitions!RowOf
<1>9. s1' = s1 \/ (Definitions!Stored(n.id) /\ s1' = [s1 EXCEPT ![n.id] = row])
  <2>1. s1' = s1 \/ Definitions!Update(m)
    BY <1>1, <1>3 DEF Definitions!MarkDefault
  <2> QED
    BY <1>6, <1>7, <2>1 DEF Definitions!Update, Definitions!Found
<1>10. Definitions!Stored(n.id) => s1[n.id].name = n.name
  BY <1>2, <1>8 DEF Definitions!Stored
<1>11. NamesStay
  BY <1>8, <1>9, <1>10 DEF NamesStay, Definitions!Stored, Definitions!NodeInv
<1>12. BootKnown' /\ s4'.pc = "check"
  BY <1>2, NextDefaultGoes DEF Definitions!MarkDefault
<1> QED
  BY <1>2, <1>11, <1>12, QuietBoot

\* The process starts again.
LEMMA NodeRestarts ==
  ASSUME Definitions!NodeInv, Definitions!Restart
  PROVE  Definitions!NodeInv'
<1>1. s4' = BootAs("check", SystemNodes, None, s4.starts + 1)
  BY DEF Definitions!Restart, Definitions!Started, BootAs
<1>2. s4'.pc = "check" /\ s4'.rest = SystemNodes /\ s4'.node = None /\ s4'.starts = s4.starts + 1
  BY <1>1 DEF BootAs
<1>3. s1' = s1 /\ s5' = s5 /\ s3' = Definitions!Silent
  BY DEF Definitions!Restart
<1>4. DOMAIN s3' = Calls /\ \A r \in Calls : s3'[r].pc = "answered"
  BY <1>3 DEF Definitions!Silent
<1>5. \A name : Shrinks(name)
  BY <1>2, <1>3, <1>4 DEF Shrinks, Definitions!Named, Definitions!Stored, Definitions!Saves, Definitions!BootSaves
<1>6. \A name \in Definitions!Names : name.copies = 0 /\ name \notin s5' => Definitions!OneHas(name)'
  BY <1>3, <1>5, OneStays DEF Definitions!NodeInv
<1>7. /\ DOMAIN s1' = NodeIds
      /\ \A id \in NodeIds : Definitions!Stored(id)' => s1'[id].name \in Definitions!Names
  BY <1>3 DEF Definitions!NodeInv, Definitions!Stored
<1> QED
  BY <1>1, <1>2, <1>4, <1>6, <1>7, NodeAssumption DEF Definitions!NodeInv, Definitions!KnownCall, BootAs

LEMMA NodeStep == Definitions!NodeInv /\ Definitions!Next => Definitions!NodeInv'
<1> SUFFICES ASSUME Definitions!NodeInv, Definitions!Next PROVE Definitions!NodeInv'
  OBVIOUS
<1>1. CASE (\E id \in NodeIds : Definitions!CacheExpires(id)) /\ s4' = s4
  BY <1>1 DEF Definitions!CacheExpires, Definitions!NodeInv, Definitions!RowOf, Definitions!Stored,
              Definitions!OneHas, Definitions!Named, Definitions!Saves, Definitions!BootSaves
<1>2. CASE Definitions!Booting
  BY <1>2, BootLooks, BootCreates, BootSaves, BootMarks DEF Definitions!Booting
<1> QED
  BY <1>1, <1>2, RequestServed, NodeRestarts DEF Definitions!Next

LEMMA NamesDiffer == Definitions!NodeInv => Definitions!NamesAreUnique
BY DEF Definitions!NodeInv, Definitions!NamesAreUnique, Definitions!OneHas, Definitions!Named,
       Definitions!Created
-----------------------------------------------------------------------------
(* The API server: saves that do not overlap write a whole graph, and a    *)
(* settled execution waits for nothing but its own run.                    *)
LEMMA ApiStart == ApiServer!Init => ApiServer!ApiInv
<1> SUFFICES ASSUME ApiServer!Init PROVE ApiServer!ApiInv
  OBVIOUS
<1>1. s6 = [r \in Calls |-> ApiServer!Quiet] /\ ApiServer!Quiet.pc = "idle"
  BY DEF ApiServer!Init, ApiServer!Quiet
<1>2. s3 = [w \in FlowIds |-> None] /\ s4 = [e \in RunIds |-> None] /\ s7 = {} /\ s8 = {}
  BY DEF ApiServer!Init
<1>3. \A r \in Calls : ~ApiServer!At(r, "save")
  BY <1>1 DEF ApiServer!At
<1>4. \A w \in FlowIds : ApiServer!FlowKnown(w)
  BY <1>2, <1>3 DEF ApiServer!FlowKnown, ApiServer!Saving, ApiServer!Row
<1> QED
  BY <1>1, <1>2, <1>3, <1>4 DEF ApiServer!ApiInv, ApiServer!SaveKnown, ApiServer!RunKnown

\* No request begins, changes or ends a save.
SameSaves ==
  /\ DOMAIN s6' = Calls
  /\ \A r \in Calls : s6'[r] = s6[r] \/ (s6[r].pc # "save" /\ s6'[r].pc # "save")

FlowsStay == s3' = s3 /\ s8' = s8 /\ SameSaves
RunsStay == s4' = s4 /\ s7' = s7

LEMMA SavesStay ==
  ASSUME ApiServer!ApiInv, SameSaves
  PROVE  /\ \A r \in Calls : ApiServer!SaveKnown(r)'
         /\ \A w : ApiServer!Saving(w)' = ApiServer!Saving(w)
         /\ \A w : \A r \in ApiServer!Saving(w) : s6'[r] = s6[r]
BY DEF ApiServer!ApiInv, SameSaves, ApiServer!SaveKnown, ApiServer!Saving, ApiServer!At

LEMMA FlowStays ==
  ASSUME ApiServer!ApiInv, NEW w \in FlowIds, s3'[w] = s3[w], w \in s8' <=> w \in s8,
         ApiServer!Saving(w)' = ApiServer!Saving(w),
         \A r \in ApiServer!Saving(w) : s6'[r] = s6[r]
  PROVE  ApiServer!FlowKnown(w)'
<1>1. ApiServer!FlowKnown(w)
  BY DEF ApiServer!ApiInv
<1> QED
  BY <1>1 DEF ApiServer!FlowKnown, ApiServer!Row

LEMMA RunStays ==
  ASSUME ApiServer!ApiInv, RunsStay
  PROVE  (\A e \in RunIds : ApiServer!RunKnown(e)') /\ ApiServer!SettlesItself
         /\ DOMAIN s4' = RunIds /\ s7' \subseteq RunIds
BY DEF ApiServer!ApiInv, RunsStay, ApiServer!RunKnown, ApiServer!SettlesItself

\* What becomes of one request that saves nothing.
LEMMA OneCall ==
  ASSUME ApiServer!ApiInv, NEW r \in Calls, NEW q, s6[r].pc # "save", q.pc # "save", ApiServer!Goto(r, q)
  PROVE  SameSaves
BY DEF ApiServer!ApiInv, ApiServer!Goto, SameSaves

LEMMA OneCallEnds ==
  ASSUME ApiServer!ApiInv, NEW r \in Calls, s6[r].pc # "save", ApiServer!Done(r)
  PROVE  SameSaves
<1>1. ApiServer!Quiet.pc # "save"
  BY DEF ApiServer!Quiet
<1> QED
  BY <1>1, OneCall DEF ApiServer!Done

LEMMA NoCall ==
  ASSUME ApiServer!ApiInv, s6' = s6
  PROVE  SameSaves
BY DEF ApiServer!ApiInv, SameSaves

LEMMA AccountsStay ==
  ASSUME ApiServer!ApiInv, ApiServer!Accounts
  PROVE  FlowsStay /\ RunsStay
<1>1. RunsStay /\ s3' = s3 /\ s8' = s8
  BY DEF ApiServer!Accounts, RunsStay
<1>2. ASSUME NEW r \in Calls, ApiServer!registerHandler(r) \/ ApiServer!loginHandler(r)
      PROVE  SameSaves
  <2>1. s6[r].pc # "save"
    BY <1>2 DEF ApiServer!registerHandler, ApiServer!loginHandler, ApiServer!At
  <2>2. PICK u \in Emails : \/ ApiServer!Goto(r, [pc |-> "insertUser", user |-> u])
                            \/ ApiServer!Goto(r, [pc |-> "insertSession", user |-> u])
    BY <1>2 DEF ApiServer!registerHandler, ApiServer!loginHandler
  <2>3. [pc |-> "insertUser", user |-> u].pc # "save" /\ [pc |-> "insertSession", user |-> u].pc # "save"
    OBVIOUS
  <2> QED
    BY <2>1, <2>2, <2>3, OneCall
<1>3. ASSUME NEW r \in Calls, ApiServer!insertUser(r)
      PROVE  SameSaves
  <2>1. s6[r].pc # "save"
    BY <1>3 DEF ApiServer!insertUser, ApiServer!At
  <2>2. PICK u : ApiServer!Done(r) \/ ApiServer!Goto(r, [pc |-> "insertSession", user |-> u])
    BY <1>3 DEF ApiServer!insertUser
  <2>3. [pc |-> "insertSession", user |-> u].pc # "save"
    OBVIOUS
  <2> QED
    BY <2>1, <2>2, <2>3, OneCall, OneCallEnds
<1>4. ASSUME NEW r \in Calls, ApiServer!insertSession(r)
      PROVE  SameSaves
  BY <1>4, OneCallEnds DEF ApiServer!insertSession, ApiServer!At
<1>5. ASSUME NEW t \in SessionTokens,
             \/ ApiServer!logoutHandler(t) \/ ApiServer!SessionExpires(t)
             \/ \E u, v \in Emails : ApiServer!deleteUserHandler(v)
      PROVE  SameSaves
  BY <1>5, NoCall DEF ApiServer!logoutHandler, ApiServer!SessionExpires, ApiServer!deleteUserHandler
<1> QED
  BY <1>1, <1>2, <1>3, <1>4, <1>5 DEF ApiServer!Accounts, FlowsStay

\* Executions: no save, and a row of a form that is known.
LEMMA RunsKeep ==
  ASSUME ApiServer!ApiInv, ApiServer!Runs
  PROVE  FlowsStay /\ (\A e \in RunIds : ApiServer!RunKnown(e)') /\ ApiServer!SettlesItself
         /\ DOMAIN s4' = RunIds /\ s7' \subseteq RunIds
<1>1. s3' = s3 /\ s8' = s8 /\ DOMAIN s4 = RunIds /\ s7 \subseteq RunIds /\ \A e \in RunIds : ApiServer!RunKnown(e)
  BY DEF ApiServer!Runs, ApiServer!ApiInv
<1>2. ASSUME NEW r \in Calls, NEW u, NEW w, ApiServer!executeWorkflowHandler(r, u, w)
      PROVE  SameSaves /\ RunsStay
  <2>1. s6[r].pc # "save" /\ ApiServer!Goto(r, [pc |-> "insertRun", user |-> u]) /\ RunsStay
    BY <1>2 DEF ApiServer!executeWorkflowHandler, ApiServer!At, RunsStay
  <2>2. [pc |-> "insertRun", user |-> u].pc # "save"
    OBVIOUS
  <2> QED
    BY <2>1, <2>2, OneCall
<1>3. ASSUME NEW x \in RunIds, NEW u, ApiServer!cancelExecutionHandler(x, u)
      PROVE  SameSaves /\ (\A e \in RunIds : ApiServer!RunKnown(e)') /\ ApiServer!SettlesItself
             /\ DOMAIN s4' = RunIds /\ s7' \subseteq RunIds
  <2>1. s7' = s7 /\ s6' = s6 /\ s4[x] # None /\ s4[x].status \in {"pending", "running"}
    BY <1>3 DEF ApiServer!cancelExecutionHandler
  <2>2. PICK row : row = [s4[x] EXCEPT !.status = "cancelled"]
    OBVIOUS
  <2>3. s4' = [s4 EXCEPT ![x] = row]
    BY <1>3, <2>2 DEF ApiServer!cancelExecutionHandler
  <2>4. s4[x].status = "running" /\ s4[x] = [owner |-> s4[x].owner, status |-> s4[x].status]
    BY <1>1, <2>1 DEF ApiServer!RunKnown
  <2>5. row = [owner |-> s4[x].owner, status |-> "cancelled"]
    BY <2>2, <2>4
  <2>6. \A e \in RunIds : s4'[e] = IF e = x THEN row ELSE s4[e]
    BY <1>1, <2>3
  <2>7. \A e \in RunIds : ApiServer!RunKnown(e)'
    BY <1>1, <2>1, <2>5, <2>6 DEF ApiServer!RunKnown
  <2>8. ApiServer!SettlesItself
    BY <2>4, <2>6 DEF ApiServer!SettlesItself
  <2>9. SameSaves /\ DOMAIN s4' = RunIds
    BY <1>1, <2>1, <2>3, NoCall
  <2> QED
    BY <1>1, <2>1, <2>7, <2>8, <2>9
<1>4. ASSUME NEW r \in Calls, ApiServer!insertExecution(r)
      PROVE  SameSaves /\ (\A e \in RunIds : ApiServer!RunKnown(e)') /\ ApiServer!SettlesItself
             /\ DOMAIN s4' = RunIds /\ s7' \subseteq RunIds
  <2>1. SameSaves
    BY <1>4, OneCallEnds DEF ApiServer!insertExecution, ApiServer!At
  <2>2. CASE RunsStay
    BY <2>1, <2>2, RunStays
  <2>3. ASSUME NEW x \in RunIds, s4[x] = None, s7' = s7 \union {x},
               s4' = [s4 EXCEPT ![x] = [owner |-> s6[r].user, status |-> "running"]]
        PROVE  (\A e \in RunIds : ApiServer!RunKnown(e)') /\ ApiServer!SettlesItself
               /\ DOMAIN s4' = RunIds /\ s7' \subseteq RunIds
    <3>1. PICK row : row = [owner |-> s6[r].user, status |-> "running"]
      OBVIOUS
    <3>2. \A e \in RunIds : s4'[e] = IF e = x THEN row ELSE s4[e]
      BY <1>1, <2>3, <3>1
    <3>3. \A e \in RunIds : ApiServer!RunKnown(e)'
      BY <1>1, <2>3, <3>1, <3>2 DEF ApiServer!RunKnown
    <3> QED
      BY <1>1, <2>3, <3>2, <3>3 DEF ApiServer!SettlesItself
  <2> QED
    BY <1>4, <2>1, <2>2, <2>3 DEF ApiServer!insertExecution, RunsStay
<1>5. ASSUME NEW x \in RunIds, ApiServer!runEnds(x)
      PROVE  SameSaves /\ (\A e \in RunIds : ApiServer!RunKnown(e)') /\ ApiServer!SettlesItself
             /\ DOMAIN s4' = RunIds /\ s7' \subseteq RunIds
  <2>1. x \in s7 /\ s7' = s7 \ {x} /\ s6' = s6
    BY <1>5 DEF ApiServer!runEnds
  <2>0. CASE s4' = s4
    <3>1. SameSaves /\ s7' \subseteq RunIds /\ DOMAIN s4' = RunIds
      BY <1>1, <2>0, <2>1, NoCall
    <3>2. (\A e \in RunIds : ApiServer!RunKnown(e)') /\ ApiServer!SettlesItself
      BY <1>1, <2>0, <2>1 DEF ApiServer!RunKnown, ApiServer!SettlesItself
    <3> QED
      BY <3>1, <3>2
  <2> SUFFICES ASSUME s4' # s4
               PROVE  SameSaves /\ (\A e \in RunIds : ApiServer!RunKnown(e)') /\ ApiServer!SettlesItself
                      /\ DOMAIN s4' = RunIds /\ s7' \subseteq RunIds
    BY <2>0
  <2>2. PICK s \in {"completed", "failed"} : s4' = [s4 EXCEPT ![x].status = s]
    BY <1>5 DEF ApiServer!runEnds
  <2>3. PICK row : row = [s4[x] EXCEPT !.status = s]
    OBVIOUS
  <2>4. s4' = [s4 EXCEPT ![x] = row]
    BY <2>2, <2>3
  <2>5. row = [owner |-> s4[x].owner, status |-> s]
    <3>1. s4[x] = [owner |-> s4[x].owner, status |-> s4[x].status]
      BY <1>1, <2>1 DEF ApiServer!RunKnown
    <3> QED
      BY <2>3, <3>1
  <2>6. \A e \in RunIds : s4'[e] = IF e = x THEN row ELSE s4[e]
    BY <1>1, <2>4
  <2>7. \A e \in RunIds : ApiServer!RunKnown(e)'
    BY <1>1, <2>1, <2>2, <2>5, <2>6 DEF ApiServer!RunKnown
  <2>8. ApiServer!SettlesItself
    BY <2>1, <2>6 DEF ApiServer!SettlesItself
  <2>9. SameSaves /\ DOMAIN s4' = RunIds
    BY <1>1, <2>1, <2>4, NoCall
  <2> QED
    BY <1>1, <2>1, <2>7, <2>8, <2>9
<1> QED
  BY <1>1, <1>2, <1>3, <1>4, <1>5, RunStays DEF ApiServer!Runs, FlowsStay

\* A row goes in that no request names.
LEMMA FlowInserted ==
  ASSUME ApiServer!ApiInv, NEW w \in FlowIds, NEW u, NEW nodes, NEW conns, ApiServer!Insert(w, u, nodes, conns), SameSaves
  PROVE  (\A x \in FlowIds : ApiServer!FlowKnown(x)') /\ DOMAIN s3' = FlowIds
<1>1. PICK row : row = [owner |-> u, status |-> "draft", nodes |-> nodes, conns |-> conns]
  OBVIOUS
<1>2. /\ s3' = [s3 EXCEPT ![w] = row] /\ ApiServer!Saving(w) = {}
      /\ s8' = IF nodes # conns THEN s8 \union {w} ELSE s8 \ {w}
  BY <1>1 DEF ApiServer!Insert
<1>3. DOMAIN s3 = FlowIds
  BY DEF ApiServer!ApiInv
<1>4. ASSUME NEW x \in FlowIds, x # w PROVE ApiServer!FlowKnown(x)'
  BY <1>2, <1>3, <1>4, SavesStay, FlowStays
<1>5. ApiServer!Saving(w)' = {}
  BY <1>2, SavesStay
<1>6. s3'[w] = row
  BY <1>2, <1>3
<1>7. ApiServer!FlowKnown(w)'
  BY <1>1, <1>2, <1>5, <1>6 DEF ApiServer!FlowKnown, ApiServer!Row
<1> QED
  BY <1>2, <1>3, <1>4, <1>7

\* A row changes its status, or goes.
LEMMA FlowRestated ==
  ASSUME ApiServer!ApiInv, NEW w \in FlowIds, NEW row, s3' = [s3 EXCEPT ![w] = row], s3[w] # None,
         row = None \/ (\E st : row = [s3[w] EXCEPT !.status = st]), s8' = s8, SameSaves
  PROVE  (\A x \in FlowIds : ApiServer!FlowKnown(x)') /\ DOMAIN s3' = FlowIds
<1>1. DOMAIN s3 = FlowIds /\ ApiServer!FlowKnown(w)
  BY DEF ApiServer!ApiInv
<1>2. ASSUME NEW x \in FlowIds, x # w PROVE ApiServer!FlowKnown(x)'
  BY <1>1, <1>2, SavesStay, FlowStays
<1>3. s3'[w] = row
  BY <1>1
<1>4. ASSUME row = None PROVE ApiServer!FlowKnown(w)'
  BY <1>1, <1>3, <1>4, SavesStay DEF ApiServer!FlowKnown, ApiServer!Row
<1>5. ASSUME NEW st, row = [s3[w] EXCEPT !.status = st] PROVE ApiServer!FlowKnown(w)'
  <2>1. PICK old : old = s3[w]
    OBVIOUS
  <2>2. old = [owner |-> old.owner, status |-> old.status, nodes |-> old.nodes, conns |-> old.conns]
    BY <1>1, <2>1 DEF ApiServer!FlowKnown, ApiServer!Row
  <2>3. row = [owner |-> old.owner, status |-> st, nodes |-> old.nodes, conns |-> old.conns]
    BY <1>5, <2>1, <2>2
  <2>4. row.owner = old.owner /\ row.nodes = old.nodes /\ row.conns = old.conns /\ row.status = st
    BY <2>3
  <2> QED
    BY <1>1, <1>3, <2>1, <2>3, <2>4, SavesStay DEF ApiServer!FlowKnown, ApiServer!Row
<1> QED
  BY <1>1, <1>2, <1>4, <1>5

\* A save begins.
LEMMA SaveBegins ==
  ASSUME ApiServer!ApiInv, NEW r \in Calls, NEW u, NEW w \in FlowIds, NEW d,
         NEW fields \in ApiServer!SaveFields, ApiServer!updateWorkflowHandler(r, u, w, d, fields)
  PROVE  /\ \A x \in FlowIds : ApiServer!FlowKnown(x)'
         /\ \A c \in Calls : ApiServer!SaveKnown(c)'
         /\ DOMAIN s6' = Calls /\ DOMAIN s3' = FlowIds
<1>1. DOMAIN s6 = Calls /\ DOMAIN s3 = FlowIds /\ ApiServer!FlowKnown(w) /\ s6[r].pc = "idle" /\ s3' = s3
  BY DEF ApiServer!ApiInv, ApiServer!updateWorkflowHandler, ApiServer!At
<1>2. fields \in {<<"nodes", "conns">>, <<"nodes">>, <<"conns">>}
  BY DEF ApiServer!SaveFields
<1>3. PICK q : q = [pc |-> "save", flow |-> w, user |-> u, drawing |-> d, fields |-> fields]
  OBVIOUS
<1>4. s6' = [s6 EXCEPT ![r] = q]
  BY <1>3 DEF ApiServer!updateWorkflowHandler, ApiServer!Goto
<1>5. q.pc = "save" /\ q.flow = w /\ q.user = u /\ q.drawing = d /\ q.fields = fields
  BY <1>3
<1>6. \A c \in Calls : s6'[c] = IF c = r THEN q ELSE s6[c]
  BY <1>1, <1>4
<1>7. \A c \in Calls : ApiServer!SaveKnown(c)'
  <2>1. ApiServer!SaveKnown(r)'
    BY <1>3, <1>5, <1>6 DEF ApiServer!SaveKnown
  <2>2. ASSUME NEW c \in Calls, c # r PROVE ApiServer!SaveKnown(c)'
    BY <1>6, <2>2 DEF ApiServer!ApiInv, ApiServer!SaveKnown, ApiServer!At
  <2> QED
    BY <2>1, <2>2
<1>8. /\ ApiServer!Saving(w)' = ApiServer!Saving(w) \union {r}
      /\ r \notin ApiServer!Saving(w)
      /\ \A x \in FlowIds : x # w => ApiServer!Saving(x)' = ApiServer!Saving(x) /\ r \notin ApiServer!Saving(x)
  BY <1>1, <1>5, <1>6 DEF ApiServer!Saving, ApiServer!At
<1>9. s8' = IF ApiServer!Saving(w) # {} \/ Len(fields) = 1 THEN s8 \union {w} ELSE s8
  BY DEF ApiServer!updateWorkflowHandler
<1>10. ASSUME NEW x \in FlowIds, x # w PROVE ApiServer!FlowKnown(x)'
  <2>1. \A c \in ApiServer!Saving(x) : s6'[c] = s6[c]
    BY <1>6, <1>8, <1>10 DEF ApiServer!Saving
  <2> QED
    BY <1>1, <1>8, <1>9, <1>10, <2>1, FlowStays
<1>11. ApiServer!FlowKnown(w)'
  <2>1. CASE ApiServer!Saving(w) # {} \/ Len(fields) = 1
    BY <1>1, <1>9, <2>1 DEF ApiServer!FlowKnown, ApiServer!Row
  <2>2. CASE ApiServer!Saving(w) = {} /\ Len(fields) # 1
    <3>1. ApiServer!Saving(w)' = {r} /\ s8' = s8 /\ s6'[r] = q
      BY <1>6, <1>8, <1>9, <2>2
    <3>2. fields # <<"conns">> /\ fields # <<"nodes">>
      <4>1. Len(<<"conns">>) = 1 /\ Len(<<"nodes">>) = 1
        OBVIOUS
      <4> QED
        BY <2>2, <4>1
    <3> QED
      BY <1>1, <1>5, <2>2, <3>1, <3>2 DEF ApiServer!FlowKnown, ApiServer!Row
  <2> QED
    BY <2>1, <2>2
<1> QED
  BY <1>1, <1>4, <1>7, <1>10, <1>11

\* A save writes one of its columns.
Column(old, part, d) ==
  [owner |-> old.owner, status |-> old.status,
   nodes |-> IF part = "nodes" THEN d ELSE old.nodes,
   conns |-> IF part = "nodes" THEN old.conns ELSE d]

LEMMA SaveGoesOn ==
  ASSUME ApiServer!ApiInv, NEW r \in Calls, ApiServer!saveField(r)
  PROVE  /\ \A x \in FlowIds : ApiServer!FlowKnown(x)'
         /\ \A c \in Calls : ApiServer!SaveKnown(c)'
         /\ DOMAIN s6' = Calls /\ DOMAIN s3' = FlowIds
<1>1. PICK q : q = s6[r]
  OBVIOUS
<1>2. PICK w, u, d, fields : w = q.flow /\ u = q.user /\ d = q.drawing /\ fields = q.fields
  OBVIOUS
<1>3. ApiServer!At(r, "save") /\ ApiServer!SaveKnown(r)
  BY DEF ApiServer!ApiInv, ApiServer!saveField
<1>4. /\ q = [pc |-> "save", flow |-> w, user |-> u, drawing |-> d, fields |-> fields]
      /\ w \in FlowIds /\ fields \in {<<"nodes", "conns">>, <<"nodes">>, <<"conns">>}
  BY <1>1, <1>2, <1>3 DEF ApiServer!SaveKnown, ApiServer!SaveFields
<1>5. DOMAIN s6 = Calls /\ DOMAIN s3 = FlowIds /\ ApiServer!FlowKnown(w) /\ r \in ApiServer!Saving(w)
  BY <1>1, <1>2, <1>3, <1>4 DEF ApiServer!ApiInv, ApiServer!Saving
<1>6. PICK lost \in BOOLEAN :
         \/ /\ lost = FALSE /\ s8' = s8
            /\ s3' = IF ~ApiServer!Owned(w, u) THEN s3
                     ELSE IF Head(fields) = "nodes" THEN [s3 EXCEPT ![w].nodes = d]
                     ELSE [s3 EXCEPT ![w].conns = d]
         \/ lost = TRUE /\ s8' = s8 \union {w} /\ s3' = s3
  BY <1>1, <1>2 DEF ApiServer!saveField
<1>7. PICK row : row = IF ApiServer!Owned(w, u) /\ ~lost THEN Column(s3[w], Head(fields), d) ELSE s3[w]
  OBVIOUS
<1>8. /\ s3[w] # None => /\ s3[w] = [owner |-> s3[w].owner, status |-> s3[w].status,
                                      nodes |-> s3[w].nodes, conns |-> s3[w].conns]
      /\ ApiServer!Owned(w, u) <=> s3[w] # None /\ s3[w].owner = u
  BY <1>5 DEF ApiServer!FlowKnown, ApiServer!Row, ApiServer!Owned
<1>9. s3'[w] = row /\ DOMAIN s3' = FlowIds /\ \A x \in FlowIds : x # w => s3'[x] = s3[x]
  <2>1. CASE ~ApiServer!Owned(w, u) \/ lost
    BY <1>5, <1>6, <1>7, <2>1
  <2>2. CASE ~lost /\ ApiServer!Owned(w, u) /\ Head(fields) = "nodes"
    <3>1. PICK old : old = s3[w]
      OBVIOUS
    <3>2. old = [owner |-> old.owner, status |-> old.status, nodes |-> old.nodes, conns |-> old.conns]
      BY <1>8, <2>2, <3>1
    <3>3. PICK new : new = [old EXCEPT !.nodes = d]
      OBVIOUS
    <3>4. s3' = [s3 EXCEPT ![w] = new]
      BY <1>6, <2>2, <3>1, <3>3
    <3>5. new = Column(old, Head(fields), d)
      BY <2>2, <3>2, <3>3 DEF Column
    <3> QED
      BY <1>4, <1>5, <1>7, <2>2, <3>1, <3>4, <3>5
  <2>3. CASE ~lost /\ ApiServer!Owned(w, u) /\ Head(fields) # "nodes"
    <3>1. PICK old : old = s3[w]
      OBVIOUS
    <3>2. old = [owner |-> old.owner, status |-> old.status, nodes |-> old.nodes, conns |-> old.conns]
      BY <1>8, <2>3, <3>1
    <3>3. PICK new : new = [old EXCEPT !.conns = d]
      OBVIOUS
    <3>4. s3' = [s3 EXCEPT ![w] = new]
      BY <1>6, <2>3, <3>1, <3>3
    <3>5. new = Column(old, Head(fields), d)
      BY <2>3, <3>2, <3>3 DEF Column
    <3> QED
      BY <1>4, <1>5, <1>7, <2>3, <3>1, <3>4, <3>5
  <2> QED
    BY <2>1, <2>2, <2>3
<1>10. CASE fields = <<"nodes", "conns">>
  <2>1. Head(fields) = "nodes" /\ Tail(fields) = <<"conns">> /\ Len(fields) = 2
    BY <1>10
  <2>2. PICK rest : rest = <<"conns">>
    OBVIOUS
  <2>12. rest # <<"nodes">>
    BY <2>2
  <2>3. PICK p : p = [pc |-> "save", flow |-> w, user |-> u, drawing |-> d, fields |-> rest]
    OBVIOUS
  <2>4. s6' = [s6 EXCEPT ![r] = p]
    <3>1. ApiServer!Goto(r, [q EXCEPT !.fields = Tail(@)])
      BY <1>1, <1>2, <2>1 DEF ApiServer!saveField
    <3>2. p = [q EXCEPT !.fields = Tail(@)]
      BY <1>4, <2>1, <2>2, <2>3
    <3> QED
      BY <3>1, <3>2 DEF ApiServer!Goto
  <2>5. p.pc = "save" /\ p.flow = w /\ p.user = u /\ p.drawing = d /\ p.fields = rest
    BY <2>3
  <2>6. q.pc = "save" /\ q.flow = w /\ q.user = u /\ q.drawing = d
    BY <1>4
  <2>7. \A c \in Calls : s6'[c] = IF c = r THEN p ELSE s6[c]
    BY <1>5, <2>4
  <2>8. \A c \in Calls : ApiServer!SaveKnown(c)'
    <3>1. ApiServer!SaveKnown(r)'
      BY <1>4, <2>2, <2>3, <2>5, <2>7 DEF ApiServer!SaveKnown, ApiServer!SaveFields
    <3>2. ASSUME NEW c \in Calls, c # r PROVE ApiServer!SaveKnown(c)'
      BY <2>7, <3>2 DEF ApiServer!ApiInv, ApiServer!SaveKnown, ApiServer!At
    <3> QED
      BY <3>1, <3>2
  <2>9. \A x : ApiServer!Saving(x)' = ApiServer!Saving(x)
    BY <1>1, <2>5, <2>6, <2>7 DEF ApiServer!Saving, ApiServer!At
  <2>10. ASSUME NEW x \in FlowIds, x # w PROVE ApiServer!FlowKnown(x)'
    <3>1. \A c \in ApiServer!Saving(x) : s6'[c] = s6[c]
      BY <1>1, <2>6, <2>7, <2>10 DEF ApiServer!Saving
    <3> QED
      BY <1>6, <1>9, <2>9, <2>10, <3>1, FlowStays
  <2>11. ApiServer!FlowKnown(w)'
    <3>0. CASE lost
      <4>1. w \in s8' /\ s3'[w] = s3[w]
        BY <1>6, <3>0
      <4> QED
        BY <1>8, <4>1 DEF ApiServer!FlowKnown, ApiServer!Row
    <3>1. CASE ~lost /\ ApiServer!Owned(w, u)
      <4>1. row = Column(s3[w], "nodes", d) /\ s3[w] # None /\ s3[w].owner = u
        BY <1>7, <1>8, <2>1, <3>1
      <4>2. /\ row = [owner |-> row.owner, status |-> row.status, nodes |-> row.nodes, conns |-> row.conns]
            /\ row.owner = u /\ row.nodes = d /\ row.conns = s3[w].conns
        BY <4>1 DEF Column
      <4>3. w \notin s8 => \A c \in ApiServer!Saving(w) : c = r
        BY <1>5 DEF ApiServer!FlowKnown
      <4>4. s6'[r] = p
        BY <2>7
      <4> QED
        BY <1>5, <1>6, <1>9, <2>5, <2>9, <2>12, <4>2, <4>3, <4>4 DEF ApiServer!FlowKnown, ApiServer!Row
    <3>2. CASE ~lost /\ ~ApiServer!Owned(w, u)
      <4>1. row = s3[w] /\ (s3[w] # None => s3[w].owner # u)
        BY <1>7, <1>8, <3>2
      <4>2. w \notin s8 => \A c \in ApiServer!Saving(w) : c = r
        BY <1>5 DEF ApiServer!FlowKnown
      <4>3. w \notin s8 /\ s3[w] # None => s3[w].nodes = s3[w].conns
        BY <1>1, <1>5, <2>6, <4>1 DEF ApiServer!FlowKnown, ApiServer!Row
      <4>4. s6'[r] = p
        BY <2>7
      <4> QED
        BY <1>5, <1>6, <1>9, <2>5, <2>9, <2>12, <3>2, <4>1, <4>2, <4>3, <4>4 DEF ApiServer!FlowKnown, ApiServer!Row
    <3> QED
      BY <3>0, <3>1, <3>2
  <2> QED
    BY <1>5, <1>9, <2>4, <2>8, <2>10, <2>11
<1>11. CASE fields \in {<<"nodes">>, <<"conns">>}
  <2>1. Len(fields) = 1 /\ (fields = <<"conns">> => Head(fields) = "conns")
    BY <1>11
  <2>2. PICK p : p = ApiServer!Quiet
    OBVIOUS
  <2>3. p.pc # "save"
    BY <2>2 DEF ApiServer!Quiet
  <2>4. s6' = [s6 EXCEPT ![r] = p]
    BY <1>1, <1>2, <2>1, <2>2 DEF ApiServer!saveField, ApiServer!Done, ApiServer!Goto
  <2>5. q.pc = "save" /\ q.flow = w /\ q.user = u /\ q.drawing = d /\ q.fields = fields
    BY <1>4
  <2>6. \A c \in Calls : s6'[c] = IF c = r THEN p ELSE s6[c]
    BY <1>5, <2>4
  <2>7. \A c \in Calls : ApiServer!SaveKnown(c)'
    <3>1. ApiServer!SaveKnown(r)'
      BY <2>3, <2>6 DEF ApiServer!SaveKnown, ApiServer!At
    <3>2. ASSUME NEW c \in Calls, c # r PROVE ApiServer!SaveKnown(c)'
      BY <2>6, <3>2 DEF ApiServer!ApiInv, ApiServer!SaveKnown, ApiServer!At
    <3> QED
      BY <3>1, <3>2
  <2>8. \A x \in FlowIds : ApiServer!Saving(x)' = IF x = w THEN ApiServer!Saving(x) \ {r} ELSE ApiServer!Saving(x)
    BY <1>1, <2>3, <2>5, <2>6 DEF ApiServer!Saving, ApiServer!At
  <2>9. ASSUME NEW x \in FlowIds, x # w PROVE ApiServer!FlowKnown(x)'
    <3>1. \A c \in ApiServer!Saving(x) : s6'[c] = s6[c]
      BY <1>1, <2>5, <2>6, <2>9 DEF ApiServer!Saving
    <3> QED
      BY <1>6, <1>9, <2>8, <2>9, <3>1, FlowStays
  <2>10. ApiServer!FlowKnown(w)'
    <3>1. w \notin s8 => ApiServer!Saving(w)' = {}
      BY <1>4, <1>5, <2>8 DEF ApiServer!FlowKnown
    <3>2. row # None => row = [owner |-> row.owner, status |-> row.status, nodes |-> row.nodes, conns |-> row.conns]
      BY <1>7, <1>8 DEF Column
    <3>3. w \notin s8' /\ row # None => row.nodes = row.conns
      <4> SUFFICES ASSUME w \notin s8', row # None PROVE row.nodes = row.conns
        OBVIOUS
      <4>0. ~lost /\ w \notin s8 /\ fields = <<"conns">>
        <5>1. ~lost /\ w \notin s8
          BY <1>6
        <5>2. fields # <<"nodes">>
          BY <1>1, <1>2, <1>5, <5>1 DEF ApiServer!FlowKnown
        <5> QED
          BY <1>11, <5>1, <5>2
      <4>1. CASE ApiServer!Owned(w, u)
        <5>1. row = Column(s3[w], "conns", d) /\ s3[w] # None /\ s3[w].owner = u
          BY <1>7, <1>8, <2>1, <4>0, <4>1
        <5>2. row.nodes = s3[w].nodes /\ row.conns = d
          BY <5>1 DEF Column
        <5>3. w \notin s8 => s3[w].nodes = d
          BY <1>1, <1>5, <2>5, <4>0, <5>1 DEF ApiServer!FlowKnown, ApiServer!Row
        <5> QED
          BY <4>0, <5>2, <5>3
      <4>2. CASE ~ApiServer!Owned(w, u)
        <5>1. row = s3[w] /\ (s3[w] # None => s3[w].owner # u)
          BY <1>7, <1>8, <4>2
        <5> QED
          BY <1>1, <1>5, <2>5, <4>0, <5>1 DEF ApiServer!FlowKnown, ApiServer!Row
      <4> QED
        BY <4>1, <4>2
    <3> QED
      BY <1>6, <1>9, <3>1, <3>2, <3>3 DEF ApiServer!FlowKnown, ApiServer!Row
  <2> QED
    BY <1>5, <1>9, <2>4, <2>7, <2>9, <2>10
<1> QED
  BY <1>4, <1>10, <1>11

LEMMA FlowsKeep ==
  ASSUME ApiServer!ApiInv, ApiServer!Flows
  PROVE  /\ RunsStay
         /\ \A x \in FlowIds : ApiServer!FlowKnown(x)'
         /\ \A c \in Calls : ApiServer!SaveKnown(c)'
         /\ DOMAIN s6' = Calls /\ DOMAIN s3' = FlowIds
<1>1. RunsStay
  BY DEF ApiServer!Flows, RunsStay
<1>2. SameSaves => (\A c \in Calls : ApiServer!SaveKnown(c)') /\ DOMAIN s6' = Calls
  BY SavesStay DEF SameSaves
<1>3. ASSUME NEW u, ApiServer!createWorkflowHandler(u)
      PROVE  SameSaves /\ (\A x \in FlowIds : ApiServer!FlowKnown(x)') /\ DOMAIN s3' = FlowIds
  <2>1. SameSaves
    BY <1>3, NoCall DEF ApiServer!createWorkflowHandler
  <2> QED
    BY <1>3, <2>1, FlowInserted DEF ApiServer!createWorkflowHandler
<1>4. ASSUME NEW w \in FlowIds, NEW u, ApiServer!deleteWorkflowHandler(w, u)
      PROVE  SameSaves /\ (\A x \in FlowIds : ApiServer!FlowKnown(x)') /\ DOMAIN s3' = FlowIds
  <2>1. SameSaves
    BY <1>4, NoCall DEF ApiServer!deleteWorkflowHandler
  <2> QED
    BY <1>4, <2>1, FlowRestated DEF ApiServer!deleteWorkflowHandler, ApiServer!Owned, ApiServer!Row
<1>5. ASSUME NEW w \in FlowIds, NEW u, ApiServer!activateWorkflowHandler(w, u) \/ ApiServer!deactivateWorkflowHandler(w, u)
      PROVE  SameSaves /\ (\A x \in FlowIds : ApiServer!FlowKnown(x)') /\ DOMAIN s3' = FlowIds
  <2>1. SameSaves /\ s8' = s8 /\ s3[w] # None
    BY <1>5, NoCall DEF ApiServer!activateWorkflowHandler, ApiServer!deactivateWorkflowHandler, ApiServer!Owned, ApiServer!Row
  <2>2. PICK st : s3' = [s3 EXCEPT ![w].status = st]
    BY <1>5 DEF ApiServer!activateWorkflowHandler, ApiServer!deactivateWorkflowHandler
  <2>3. PICK row : row = [s3[w] EXCEPT !.status = st]
    OBVIOUS
  <2>4. s3' = [s3 EXCEPT ![w] = row]
    BY <2>2, <2>3
  <2> QED
    BY <2>1, <2>3, <2>4, FlowRestated
<1>6. ASSUME NEW r \in Calls, NEW u, NEW w \in FlowIds, ApiServer!cloneWorkflowHandler(r, u, w)
      PROVE  SameSaves /\ (\A x \in FlowIds : ApiServer!FlowKnown(x)') /\ DOMAIN s3' = FlowIds
  <2>1. s6[r].pc # "save" /\ s3' = s3 /\ s8' = s8
    BY <1>6 DEF ApiServer!cloneWorkflowHandler, ApiServer!At
  <2>2. PICK q : q = [pc |-> "clone", user |-> u, nodes |-> ApiServer!Row(w).nodes, conns |-> ApiServer!Row(w).conns]
    OBVIOUS
  <2>3. q.pc # "save" /\ ApiServer!Goto(r, q)
    BY <1>6, <2>2 DEF ApiServer!cloneWorkflowHandler
  <2>4. SameSaves
    BY <2>1, <2>3, OneCall
  <2>5. ASSUME NEW x \in FlowIds PROVE ApiServer!FlowKnown(x)'
    BY <2>1, <2>4, SavesStay, FlowStays
  <2> QED
    BY <2>1, <2>4, <2>5 DEF ApiServer!ApiInv
<1>7. ASSUME NEW r \in Calls, ApiServer!insertClone(r)
      PROVE  SameSaves /\ (\A x \in FlowIds : ApiServer!FlowKnown(x)') /\ DOMAIN s3' = FlowIds
  <2>1. SameSaves
    BY <1>7, OneCallEnds DEF ApiServer!insertClone, ApiServer!At
  <2> QED
    BY <1>7, <2>1, FlowInserted DEF ApiServer!insertClone
<1>8. ASSUME NEW u, ApiServer!WorkflowRequest(u)
      PROVE  /\ \A x \in FlowIds : ApiServer!FlowKnown(x)'
             /\ \A c \in Calls : ApiServer!SaveKnown(c)'
             /\ DOMAIN s6' = Calls /\ DOMAIN s3' = FlowIds
  BY <1>2, <1>3, <1>4, <1>5, <1>6, <1>8, SaveBegins DEF ApiServer!WorkflowRequest
<1> QED
  BY <1>1, <1>2, <1>7, <1>8, SaveGoesOn DEF ApiServer!Flows

LEMMA ApiStep ==
  ApiServer!ApiInv /\ ApiServer!Next => ApiServer!ApiInv' /\ ApiServer!SettlesItself
<1> SUFFICES ASSUME ApiServer!ApiInv, ApiServer!Next
             PROVE  ApiServer!ApiInv' /\ ApiServer!SettlesItself
  OBVIOUS
<1>1. FlowsStay => /\ \A x \in FlowIds : ApiServer!FlowKnown(x)'
                   /\ \A c \in Calls : ApiServer!SaveKnown(c)'
                   /\ DOMAIN s6' = Calls /\ DOMAIN s3' = FlowIds
  BY SavesStay, FlowStays DEF FlowsStay, ApiServer!ApiInv, SameSaves
<1>2. CASE ApiServer!Accounts
  BY <1>1, <1>2, AccountsStay, RunStays DEF ApiServer!ApiInv
<1>3. CASE ApiServer!Flows
  BY <1>3, FlowsKeep, RunStays DEF ApiServer!ApiInv
<1>4. CASE ApiServer!Runs
  BY <1>1, <1>4, RunsKeep DEF ApiServer!ApiInv
<1>5. CASE ApiServer!Small
  <2>1. FlowsStay /\ RunsStay
    BY <1>5, NoCall DEF ApiServer!Small, FlowsStay, RunsStay
  <2> QED
    BY <1>1, <2>1, RunStays DEF ApiServer!ApiInv
<1> QED
  BY <1>2, <1>3, <1>4, <1>5 DEF ApiServer!Next

LEMMA ApiIsSafe == ApiServer!ApiInv => ApiServer!SavedTogether
BY DEF ApiServer!ApiInv, ApiServer!FlowKnown, ApiServer!SavedTogether
-----------------------------------------------------------------------------
(* Workspaces: nothing reaches the seat of the creator.                    *)
LEMMA WorkStart == Workspaces!Init => Workspaces!WorkInv
<1> SUFFICES ASSUME Workspaces!Init PROVE Workspaces!WorkInv
  OBVIOUS
<1>1. \A r \in Calls : s4[r] = Workspaces!Blank
  BY DEF Workspaces!Init
<1>2. Workspaces!Blank.pc = "idle"
  BY DEF Workspaces!Blank
<1>3. \A r \in Calls : Workspaces!Aimed(r)
  BY <1>1, <1>2 DEF Workspaces!Aimed, Workspaces!At
<1>4. \A s \in Slugs : Workspaces!SeatKept(s)
  BY DEF Workspaces!Init, Workspaces!SeatKept, Workspaces!Empty, Workspaces!MemberIds
<1>5. \A i \in Invitations : Workspaces!Invited(i)
  BY DEF Workspaces!Init, Workspaces!Invited
<1> QED
  BY <1>3, <1>4, <1>5 DEF Workspaces!Init, Workspaces!WorkInv

\* A workspace keeps its creator, and a seat stays taken.
SeatsStay ==
  \A s \in Slugs :
    /\ s1[s].state # "none" => s1'[s].state # "none" /\ s1'[s].owner = s1[s].owner
    /\ Workspaces!Seated(s) => Workspaces!Seated(s)'

\* One request goes on with q.
Moves(r, q) ==
  /\ s4' = [s4 EXCEPT ![r] = q]
  /\ Workspaces!Aimed(r)'

LEMMA OthersAim ==
  ASSUME Workspaces!WorkInv, SeatsStay, NEW r \in Calls, s4'[r] = s4[r]
  PROVE  Workspaces!Aimed(r)'
<1>1. Workspaces!Aimed(r)
  BY DEF Workspaces!WorkInv
<1> QED
  BY <1>1 DEF Workspaces!Aimed, Workspaces!At, SeatsStay, Workspaces!Seated

LEMMA InvitedStays ==
  ASSUME Workspaces!WorkInv, SeatsStay, NEW i \in Invitations, s3'[i] = s3[i]
  PROVE  Workspaces!Invited(i)'
<1>1. Workspaces!Invited(i)
  BY DEF Workspaces!WorkInv
<1> QED
  BY <1>1 DEF Workspaces!Invited, SeatsStay, Workspaces!Seated

\* A request that writes nothing.
LEMMA Reads ==
  ASSUME Workspaces!WorkInv, NEW r \in Calls, NEW q, s1' = s1, s2' = s2, s3' = s3, Workspaces!Begin(r, q),
         s4'[r] = q => Workspaces!Aimed(r)'
  PROVE  Workspaces!WorkInv'
<1>1. SeatsStay
  BY DEF SeatsStay, Workspaces!Seated
<1>2. \A i \in Invitations : Workspaces!Invited(i)'
  BY <1>1, InvitedStays
<1>3. \A s \in Slugs : Workspaces!SeatKept(s)'
  BY DEF Workspaces!WorkInv, Workspaces!SeatKept, Workspaces!Seated, Workspaces!Empty
<1>4. DOMAIN s4' = Calls /\ s4'[r] = q /\ \A c \in Calls : c # r => s4'[c] = s4[c]
  BY DEF Workspaces!WorkInv, Workspaces!Begin
<1>5. \A c \in Calls : Workspaces!Aimed(c)'
  BY <1>1, <1>4, OthersAim
<1> QED
  BY <1>2, <1>3, <1>4, <1>5 DEF Workspaces!WorkInv

\* A request that ends aims at nothing.
LEMMA EndAims ==
  ASSUME Workspaces!WorkInv, NEW r \in Calls, Workspaces!Done(r)
  PROVE  /\ Workspaces!Aimed(r)' /\ DOMAIN s4' = Calls
         /\ \A c \in Calls : c # r => s4'[c] = s4[c]
<1>1. DOMAIN s4' = Calls /\ s4'[r] = Workspaces!Blank /\ \A c \in Calls : c # r => s4'[c] = s4[c]
  BY DEF Workspaces!WorkInv, Workspaces!Done, Workspaces!Begin
<1>2. s4'[r].pc = "idle"
  BY <1>1 DEF Workspaces!Blank
<1> QED
  BY <1>1, <1>2 DEF Workspaces!Aimed, Workspaces!At

\* Who holds a role in a workspace holds it in one that has its creator.
LEMMA RoleMeansSeated ==
  ASSUME Workspaces!WorkInv, NEW s \in Slugs, NEW u \in People, s2[<<s, u>>] # "none"
  PROVE  Workspaces!Seated(s)
BY DEF Workspaces!WorkInv, Workspaces!SeatKept, Workspaces!Empty

LEMMA WorkCreates ==
  ASSUME Workspaces!WorkInv, NEW r \in Calls, NEW s \in Slugs, NEW u \in People, Workspaces!CreateWorkspace(r, s, u)
  PROVE  Workspaces!WorkInv'
<1>1. CASE s1' = s1 /\ s4' = s4
  <2>1. s2' = s2 /\ s3' = s3
    BY DEF Workspaces!CreateWorkspace
  <2>2. SeatsStay
    BY <1>1, <2>1 DEF SeatsStay, Workspaces!Seated
  <2>3. \A c \in Calls : Workspaces!Aimed(c)'
    BY <1>1, <2>2, OthersAim
  <2>4. \A i \in Invitations : Workspaces!Invited(i)'
    BY <2>1, <2>2, InvitedStays
  <2>5. \A x \in Slugs : Workspaces!SeatKept(x)'
    BY <1>1, <2>1 DEF Workspaces!WorkInv, Workspaces!SeatKept, Workspaces!Seated, Workspaces!Empty
  <2> QED
    BY <1>1, <2>1, <2>3, <2>4, <2>5 DEF Workspaces!WorkInv
<1>2. CASE ~(s1' = s1 /\ s4' = s4)
  <2>1. s1[s].state = "none" /\ s2' = s2 /\ s3' = s3
    BY <1>2 DEF Workspaces!CreateWorkspace
  <2>2. PICK row : row = [state |-> "live", owner |-> u]
    OBVIOUS
  <2>3. s1' = [s1 EXCEPT ![s] = row]
    BY <1>2, <2>2 DEF Workspaces!CreateWorkspace, Workspaces!CreateRow
  <2>4. DOMAIN s1' = Slugs /\ s1'[s] = row /\ \A x \in Slugs : x # s => s1'[x] = s1[x]
    BY <2>3 DEF Workspaces!WorkInv
  <2>5. PICK m : m = <<s, u>>
    OBVIOUS
  <2>6. PICK q : q = [pc |-> "addOwner", member |-> m]
    OBVIOUS
  <2>7. s4' = [s4 EXCEPT ![r] = q]
    BY <1>2, <2>5, <2>6 DEF Workspaces!CreateWorkspace, Workspaces!Begin
  <2>8. DOMAIN s4' = Calls /\ s4'[r] = q /\ \A c \in Calls : c # r => s4'[c] = s4[c]
    BY <2>7 DEF Workspaces!WorkInv
  <2>9. row.state = "live" /\ row.owner = u /\ q.pc = "addOwner" /\ q.member = m
    BY <2>2, <2>6
  <2>10. SeatsStay
    BY <2>1, <2>4, <2>9 DEF SeatsStay, Workspaces!Seated
  <2>11. Workspaces!Aimed(r)'
    BY <2>4, <2>5, <2>8, <2>9 DEF Workspaces!Aimed, Workspaces!At
  <2>12. \A c \in Calls : Workspaces!Aimed(c)'
    BY <2>8, <2>10, <2>11, OthersAim
  <2>13. \A i \in Invitations : Workspaces!Invited(i)'
    BY <2>1, <2>10, InvitedStays
  <2>14. Workspaces!Empty(s)
    BY <2>1 DEF Workspaces!WorkInv, Workspaces!SeatKept, Workspaces!Seated
  <2>15. ASSUME NEW x \in Slugs PROVE Workspaces!SeatKept(x)'
    <3>1. CASE x = s
      BY <2>1, <2>2, <2>4, <2>9, <2>14, <3>1 DEF Workspaces!SeatKept, Workspaces!Empty
    <3>2. CASE x # s
      BY <2>1, <2>4, <3>2 DEF Workspaces!WorkInv, Workspaces!SeatKept, Workspaces!Seated, Workspaces!Empty
    <3> QED
      BY <3>1, <3>2
  <2> QED
    BY <2>1, <2>4, <2>8, <2>12, <2>13, <2>15 DEF Workspaces!WorkInv
<1> QED
  BY <1>1, <1>2

LEMMA WorkDeletes ==
  ASSUME Workspaces!WorkInv, NEW s \in Slugs, NEW u \in People, Workspaces!DeleteWorkspace(s, u)
  PROVE  Workspaces!WorkInv'
<1>1. s2' = s2 /\ s3' = s3 /\ s4' = s4 /\ s1[s].state = "live"
  BY DEF Workspaces!DeleteWorkspace, Workspaces!FindByID
<1>2. PICK row : row = [s1[s] EXCEPT !.state = "deleted"]
  OBVIOUS
<1>3. s1' = [s1 EXCEPT ![s] = row]
  BY <1>2 DEF Workspaces!DeleteWorkspace, Workspaces!DeleteRow
<1>4. s1[s] = [state |-> s1[s].state, owner |-> s1[s].owner] /\ s1[s].owner \in People
  BY <1>1 DEF Workspaces!WorkInv, Workspaces!SeatKept
<1>5. row = [state |-> "deleted", owner |-> s1[s].owner]
  BY <1>2, <1>4
<1>6. row.state = "deleted" /\ row.owner = s1[s].owner
  BY <1>5
<1>7. DOMAIN s1' = Slugs /\ s1'[s] = row /\ \A x \in Slugs : x # s => s1'[x] = s1[x]
  BY <1>3 DEF Workspaces!WorkInv
<1>8. SeatsStay
  BY <1>1, <1>6, <1>7 DEF SeatsStay, Workspaces!Seated
<1>9. \A c \in Calls : Workspaces!Aimed(c)'
  BY <1>1, <1>8, OthersAim
<1>10. \A i \in Invitations : Workspaces!Invited(i)'
  BY <1>1, <1>8, InvitedStays
<1>11. ASSUME NEW x \in Slugs PROVE Workspaces!SeatKept(x)'
  <2>1. Workspaces!Empty(x)' <=> Workspaces!Empty(x)
    BY <1>1 DEF Workspaces!Empty
  <2>2. CASE x = s
    BY <1>4, <1>5, <1>6, <1>7, <1>8, <2>1, <2>2 DEF Workspaces!WorkInv, Workspaces!SeatKept, SeatsStay
  <2>3. CASE x # s
    BY <1>7, <1>8, <2>1, <2>3 DEF Workspaces!WorkInv, Workspaces!SeatKept, SeatsStay
  <2> QED
    BY <2>2, <2>3
<1> QED
  BY <1>1, <1>7, <1>9, <1>10, <1>11 DEF Workspaces!WorkInv

\* A member row is written that is not the creator's, or is his with his role.
LEMMA MemberWritten ==
  ASSUME Workspaces!WorkInv, NEW s \in Slugs, NEW u \in People, NEW role,
         s2' = [s2 EXCEPT ![<<s, u>>] = role], s1' = s1,
         \/ s1[s].state # "none" /\ s1[s].owner = u /\ role = "owner"
         \/ Workspaces!Seated(s) /\ s1[s].owner # u
  PROVE  SeatsStay /\ DOMAIN s2' = Workspaces!MemberIds /\ \A x \in Slugs : Workspaces!SeatKept(x)'
<1>1. /\ DOMAIN s2 = Workspaces!MemberIds /\ <<s, u>> \in Workspaces!MemberIds
      /\ \A x \in Slugs : Workspaces!SeatKept(x)
  BY DEF Workspaces!WorkInv, Workspaces!MemberIds
<1>2. /\ DOMAIN s2' = Workspaces!MemberIds /\ s2'[<<s, u>>] = role
      /\ \A m \in Workspaces!MemberIds : m # <<s, u>> => s2'[m] = s2[m]
  BY <1>1
<1>3. \A x \in Slugs, v \in People : x # s \/ v # u => s2'[<<x, v>>] = s2[<<x, v>>]
  BY <1>2 DEF Workspaces!MemberIds
<1>4. ASSUME NEW x \in Slugs, Workspaces!Seated(x) PROVE Workspaces!Seated(x)'
  <2>1. s1[x].owner \in People /\ s1[x].state # "none" /\ s2[<<x, s1[x].owner>>] = "owner"
    BY <1>1, <1>4 DEF Workspaces!SeatKept, Workspaces!Seated
  <2>2. s2'[<<x, s1[x].owner>>] = "owner"
    <3>1. CASE x = s /\ s1[x].owner = u
      BY <1>2, <2>1, <3>1
    <3>2. CASE x # s \/ s1[x].owner # u
      BY <1>3, <2>1, <3>2
    <3> QED
      BY <3>1, <3>2
  <2> QED
    BY <2>1, <2>2 DEF Workspaces!Seated
<1>5. Workspaces!Seated(s)'
  BY <1>2, <1>4 DEF Workspaces!Seated
<1>6. \A x \in Slugs : x # s /\ Workspaces!Empty(x) => Workspaces!Empty(x)'
  BY <1>3 DEF Workspaces!Empty
<1>7. SeatsStay
  BY <1>4 DEF SeatsStay
<1>8. \A x \in Slugs : Workspaces!SeatKept(x)'
  BY <1>1, <1>4, <1>5, <1>6 DEF Workspaces!SeatKept
<1> QED
  BY <1>2, <1>7, <1>8

\* The members of all workspaces stay.
LEMMA MembersStay ==
  ASSUME Workspaces!WorkInv, s1' = s1, s2' = s2
  PROVE  SeatsStay /\ DOMAIN s2' = Workspaces!MemberIds /\ \A x \in Slugs : Workspaces!SeatKept(x)'
BY DEF Workspaces!WorkInv, SeatsStay, Workspaces!Seated, Workspaces!SeatKept, Workspaces!Empty

\* A request writes member rows and ends.
LEMMA WriteEnds ==
  ASSUME Workspaces!WorkInv, NEW r \in Calls, Workspaces!Done(r), s1' = s1, s3' = s3,
         SeatsStay, DOMAIN s2' = Workspaces!MemberIds, \A x \in Slugs : Workspaces!SeatKept(x)'
  PROVE  Workspaces!WorkInv'
<1>1. \A c \in Calls : Workspaces!Aimed(c)'
  BY EndAims, OthersAim
<1>2. \A i \in Invitations : Workspaces!Invited(i)'
  BY InvitedStays
<1> QED
  BY <1>1, <1>2, EndAims DEF Workspaces!WorkInv

LEMMA WorkSeats ==
  ASSUME Workspaces!WorkInv, NEW r \in Calls, Workspaces!AddOwner(r)
  PROVE  Workspaces!WorkInv'
<1>1. Workspaces!At(r, "addOwner") /\ s1' = s1 /\ s3' = s3 /\ Workspaces!Done(r)
  BY DEF Workspaces!AddOwner
<1>2. PICK s \in Slugs : s1[s].state # "none" /\ s4[r].member = <<s, s1[s].owner>>
  BY <1>1 DEF Workspaces!WorkInv, Workspaces!Aimed
<1>3. s1[s].owner \in People
  BY <1>2 DEF Workspaces!WorkInv, Workspaces!SeatKept
<1>4. s2' = [s2 EXCEPT ![<<s, s1[s].owner>>] = "owner"] \/ s2' = s2
  BY <1>2 DEF Workspaces!AddOwner, Workspaces!AddMember
<1>5. SeatsStay /\ DOMAIN s2' = Workspaces!MemberIds /\ \A x \in Slugs : Workspaces!SeatKept(x)'
  BY <1>1, <1>2, <1>3, <1>4, MemberWritten, MembersStay
<1> QED
  BY <1>1, <1>5, WriteEnds

LEMMA WorkInvites ==
  ASSUME Workspaces!WorkInv, NEW r \in Calls, NEW s \in Slugs, NEW u \in People, NEW role,
         Workspaces!InviteMember(r, s, u, role)
  PROVE  Workspaces!WorkInv'
<1>1. s1' = s1 /\ s2' = s2 /\ s3' = s3 /\ s2[<<s, u>>] \in {"owner", "admin"}
  BY DEF Workspaces!InviteMember, Workspaces!CanManageMembers, Workspaces!FindByWorkspaceAndUser
<1>2. Workspaces!Seated(s)'
  BY <1>1, RoleMeansSeated DEF Workspaces!Seated
<1>3. PICK q : q = [pc |-> "invite", slug |-> s, role |-> role]
  OBVIOUS
<1>4. Workspaces!Begin(r, q)
  BY <1>3 DEF Workspaces!InviteMember
<1>5. q.pc = "invite" /\ q.slug = s
  BY <1>3
<1>6. s4'[r] = q => Workspaces!Aimed(r)'
  BY <1>2, <1>5 DEF Workspaces!Aimed, Workspaces!At
<1> QED
  BY <1>1, <1>4, <1>6, Reads

\* An invitation is written; the members and seats stay.
LEMMA InvitationWritten ==
  ASSUME Workspaces!WorkInv, NEW i, NEW inv, s3' = [s3 EXCEPT ![i] = inv],
         i \in Invitations => inv = [slug |-> inv.slug, role |-> inv.role, status |-> inv.status],
         inv.status = "pending" => inv.slug \in Slugs /\ Workspaces!Seated(inv.slug),
         s1' = s1, s2' = s2
  PROVE  (\A x \in Invitations : Workspaces!Invited(x)') /\ DOMAIN s3' = Invitations
<1>1. SeatsStay
  BY MembersStay
<1>2. DOMAIN s3' = Invitations /\ \A x \in Invitations : s3'[x] = IF x = i THEN inv ELSE s3[x]
  BY DEF Workspaces!WorkInv
<1>3. i \in Invitations => Workspaces!Invited(i)'
  BY <1>1, <1>2 DEF Workspaces!Invited, SeatsStay
<1> QED
  BY <1>1, <1>2, <1>3, InvitedStays

LEMMA Restated ==
  ASSUME Workspaces!WorkInv, NEW i, NEW st, Workspaces!UpdateInvitation(i, st), st # "pending",
         s1' = s1, s2' = s2
  PROVE  (\A x \in Invitations : Workspaces!Invited(x)') /\ DOMAIN s3' = Invitations
<1>1. PICK old : old = s3[i]
  OBVIOUS
<1>2. PICK inv : inv = [old EXCEPT !.status = st]
  OBVIOUS
<1>3. s3' = [s3 EXCEPT ![i] = inv]
  BY <1>1, <1>2 DEF Workspaces!UpdateInvitation
<1>4. CASE i \in Invitations
  <2>1. old = [slug |-> old.slug, role |-> old.role, status |-> old.status]
    BY <1>1, <1>4 DEF Workspaces!WorkInv, Workspaces!Invited
  <2>2. inv = [slug |-> old.slug, role |-> old.role, status |-> st]
    BY <1>2, <2>1
  <2>3. inv.slug = old.slug /\ inv.role = old.role /\ inv.status = st
    BY <2>2
  <2> QED
    BY <1>3, <2>2, <2>3, InvitationWritten
<1>5. CASE i \notin Invitations
  <2>1. DOMAIN s3' = Invitations /\ \A x \in Invitations : s3'[x] = s3[x]
    BY <1>3, <1>5 DEF Workspaces!WorkInv
  <2> QED
    BY <2>1, MembersStay, InvitedStays
<1> QED
  BY <1>4, <1>5

LEMMA InvitationEnds ==
  ASSUME Workspaces!WorkInv, s1' = s1, s2' = s2, DOMAIN s3' = Invitations,
         \A x \in Invitations : Workspaces!Invited(x)',
         s4' = s4 \/ \E r \in Calls : Workspaces!Done(r)
  PROVE  Workspaces!WorkInv'
<1>1. SeatsStay /\ DOMAIN s2' = Workspaces!MemberIds /\ \A x \in Slugs : Workspaces!SeatKept(x)'
  BY MembersStay
<1>2. (\A c \in Calls : Workspaces!Aimed(c)') /\ DOMAIN s4' = Calls
  BY <1>1, EndAims, OthersAim DEF Workspaces!WorkInv
<1> QED
  BY <1>1, <1>2 DEF Workspaces!WorkInv

LEMMA WorkInviteInserts ==
  ASSUME Workspaces!WorkInv, NEW r \in Calls, Workspaces!InviteInsert(r)
  PROVE  Workspaces!WorkInv'
<1>1. Workspaces!At(r, "invite") /\ s1' = s1 /\ s2' = s2 /\ Workspaces!Done(r)
  BY DEF Workspaces!InviteInsert
<1>2. PICK s : s = s4[r].slug
  OBVIOUS
<1>3. s \in Slugs /\ Workspaces!Seated(s)
  BY <1>1, <1>2 DEF Workspaces!WorkInv, Workspaces!Aimed
<1>4. PICK i \in Invitations : Workspaces!CreateInvitation(i, s, s4[r].role)
  BY <1>2 DEF Workspaces!InviteInsert
<1>5. PICK inv : inv = [slug |-> s, role |-> s4[r].role, status |-> "pending"]
  OBVIOUS
<1>6. s3' = [s3 EXCEPT ![i] = inv]
  BY <1>4, <1>5 DEF Workspaces!CreateInvitation
<1>7. inv.slug = s /\ inv = [slug |-> inv.slug, role |-> inv.role, status |-> inv.status]
  BY <1>5
<1> QED
  BY <1>1, <1>3, <1>6, <1>7, InvitationWritten, InvitationEnds

LEMMA WorkAccepts ==
  ASSUME Workspaces!WorkInv, NEW r \in Calls, NEW i \in Invitations, NEW u \in People, Workspaces!AcceptInvitation(r, i, u)
  PROVE  Workspaces!WorkInv'
<1>1. s1' = s1 /\ s2' = s2 /\ s3' = s3 /\ s3[i].status = "pending"
  BY DEF Workspaces!AcceptInvitation, Workspaces!IsValid
<1>2. PICK s : s = s3[i].slug
  OBVIOUS
<1>3. s \in Slugs /\ Workspaces!Seated(s)'
  BY <1>1, <1>2 DEF Workspaces!WorkInv, Workspaces!Invited, Workspaces!Seated
<1>4. PICK m : m = <<s, u>>
  OBVIOUS
<1>5. PICK q : q = [pc |-> "join", invitation |-> i, member |-> m, role |-> s3[i].role]
  OBVIOUS
<1>6. Workspaces!Begin(r, q)
  BY <1>2, <1>4, <1>5 DEF Workspaces!AcceptInvitation
<1>7. q.pc = "join" /\ q.member = m /\ q = [pc |-> "join", invitation |-> q.invitation, member |-> q.member, role |-> q.role]
  BY <1>5
<1>8. s4'[r] = q => Workspaces!Aimed(r)'
  BY <1>3, <1>4, <1>7 DEF Workspaces!Aimed, Workspaces!At
<1> QED
  BY <1>1, <1>6, <1>8, Reads

LEMMA WorkJoins ==
  ASSUME Workspaces!WorkInv, NEW r \in Calls, Workspaces!AcceptAdd(r)
  PROVE  Workspaces!WorkInv'
<1>1. PICK q : q = s4[r]
  OBVIOUS
<1>2. Workspaces!At(r, "join") /\ s1' = s1 /\ s3' = s3
  BY DEF Workspaces!AcceptAdd
<1>3. /\ q = [pc |-> "join", invitation |-> q.invitation, member |-> q.member, role |-> q.role]
      /\ \E s \in Slugs, u \in People : q.member = <<s, u>> /\ Workspaces!Seated(s)
  BY <1>1, <1>2 DEF Workspaces!WorkInv, Workspaces!Aimed
<1>4. PICK s \in Slugs, u \in People : q.member = <<s, u>> /\ Workspaces!Seated(s)
  BY <1>3
<1>5. CASE s2[<<s, u>>] # "none"
  BY <1>1, <1>2, <1>4, <1>5, MembersStay, WriteEnds DEF Workspaces!AcceptAdd
<1>6. CASE s2[<<s, u>>] = "none"
  <2>1. s1[s].owner # u
    BY <1>4, <1>6 DEF Workspaces!Seated
  <2>2. s2' = [s2 EXCEPT ![<<s, u>>] = q.role]
    BY <1>1, <1>4, <1>6 DEF Workspaces!AcceptAdd, Workspaces!AddMember
  <2>3. SeatsStay /\ DOMAIN s2' = Workspaces!MemberIds /\ \A x \in Slugs : Workspaces!SeatKept(x)'
    BY <1>2, <1>4, <2>1, <2>2, MemberWritten
  <2>4. PICK p : p = [q EXCEPT !.pc = "accepted"]
    OBVIOUS
  <2>5. p = [pc |-> "accepted", invitation |-> q.invitation, member |-> q.member, role |-> q.role]
    BY <1>3, <2>4
  <2>6. p.pc = "accepted"
    BY <2>5
  <2>7. Workspaces!Begin(r, p)
    BY <1>1, <1>4, <1>6, <2>4 DEF Workspaces!AcceptAdd
  <2>8. DOMAIN s4' = Calls /\ s4'[r] = p /\ \A c \in Calls : c # r => s4'[c] = s4[c]
    BY <2>7 DEF Workspaces!WorkInv, Workspaces!Begin
  <2>9. Workspaces!Aimed(r)'
    BY <2>6, <2>8 DEF Workspaces!Aimed, Workspaces!At
  <2>10. \A c \in Calls : Workspaces!Aimed(c)'
    BY <2>3, <2>8, <2>9, OthersAim
  <2>11. \A i \in Invitations : Workspaces!Invited(i)'
    BY <1>2, <2>3, InvitedStays
  <2> QED
    BY <1>2, <2>3, <2>8, <2>10, <2>11 DEF Workspaces!WorkInv
<1> QED
  BY <1>5, <1>6

LEMMA WorkAccepted ==
  ASSUME Workspaces!WorkInv, NEW r \in Calls, Workspaces!AcceptUpdate(r)
  PROVE  Workspaces!WorkInv'
<1>1. Workspaces!At(r, "accepted") /\ s1' = s1 /\ s2' = s2 /\ Workspaces!Done(r)
  BY DEF Workspaces!AcceptUpdate
<1>2. PICK i : i = s4[r].invitation
  OBVIOUS
<1>3. Workspaces!UpdateInvitation(i, "accepted")
  BY <1>2 DEF Workspaces!AcceptUpdate
<1> QED
  BY <1>1, <1>3, Restated, InvitationEnds

LEMMA WorkDeclines ==
  ASSUME Workspaces!WorkInv, NEW i \in Invitations,
         Workspaces!DeclineInvitation(i) \/ Workspaces!InvitationExpires(i)
  PROVE  Workspaces!WorkInv'
<1>1. PICK st \in {"declined", "expired"} : Workspaces!UpdateInvitation(i, st)
  BY DEF Workspaces!DeclineInvitation, Workspaces!InvitationExpires
<1>2. s1' = s1 /\ s2' = s2 /\ s4' = s4
  BY DEF Workspaces!DeclineInvitation, Workspaces!InvitationExpires
<1> QED
  BY <1>1, <1>2, Restated, InvitationEnds

\* A request that was let in aims at a member who is not the creator.
LEMMA WorkAims ==
  ASSUME Workspaces!WorkInv, NEW r \in Calls, NEW q, NEW s \in Slugs, NEW u \in People, q.member = <<s, u>>,
         q.pc \in {"role", "remove"}, s2[<<s, u>>] \notin {"none", "owner"},
         s1' = s1, s2' = s2, s3' = s3, Workspaces!Begin(r, q)
  PROVE  Workspaces!WorkInv'
<1>1. Workspaces!Seated(s)
  BY RoleMeansSeated
<1>2. u # s1[s].owner /\ Workspaces!Seated(s)'
  BY <1>1 DEF Workspaces!Seated
<1>3. s4'[r] = q => Workspaces!Aimed(r)'
  BY <1>2 DEF Workspaces!Aimed, Workspaces!At
<1> QED
  BY <1>3, Reads

LEMMA WorkManages ==
  ASSUME Workspaces!WorkInv, NEW r \in Calls, NEW s \in Slugs, NEW u \in People,
         \/ \E m \in Workspaces!MemberIds, role \in Workspaces!Roles : Workspaces!UpdateMemberRole(r, s, u, m, role)
         \/ \E m \in Workspaces!MemberIds : Workspaces!RemoveMember(r, s, u, m)
         \/ Workspaces!LeaveWorkspace(r, s, u)
  PROVE  Workspaces!WorkInv'
<1>1. s1' = s1 /\ s2' = s2 /\ s3' = s3
  BY DEF Workspaces!UpdateMemberRole, Workspaces!RemoveMember, Workspaces!LeaveWorkspace
<1>2. ASSUME NEW m \in Workspaces!MemberIds, NEW role, Workspaces!UpdateMemberRole(r, s, u, m, role)
      PROVE  Workspaces!WorkInv'
  <2>1. PICK x \in Slugs, v \in People : m = <<x, v>>
    BY DEF Workspaces!MemberIds
  <2>2. PICK q : q = [pc |-> "role", member |-> m, role |-> role]
    OBVIOUS
  <2>3. q.pc = "role" /\ q.member = m /\ Workspaces!Begin(r, q)
    BY <1>2, <2>2 DEF Workspaces!UpdateMemberRole
  <2>4. s2[m] \notin {"none", "owner"}
    BY <1>2 DEF Workspaces!UpdateMemberRole, Workspaces!MayManage, Workspaces!FindMember
  <2> QED
    BY <1>1, <2>1, <2>3, <2>4, WorkAims
<1>3. ASSUME NEW m \in Workspaces!MemberIds, Workspaces!RemoveMember(r, s, u, m)
      PROVE  Workspaces!WorkInv'
  <2>1. PICK x \in Slugs, v \in People : m = <<x, v>>
    BY DEF Workspaces!MemberIds
  <2>2. PICK q : q = [pc |-> "remove", member |-> m]
    OBVIOUS
  <2>3. q.pc = "remove" /\ q.member = m /\ Workspaces!Begin(r, q)
    BY <1>3, <2>2 DEF Workspaces!RemoveMember
  <2>4. s2[m] \notin {"none", "owner"}
    BY <1>3 DEF Workspaces!RemoveMember, Workspaces!MayManage, Workspaces!FindMember
  <2> QED
    BY <1>1, <2>1, <2>3, <2>4, WorkAims
<1>4. ASSUME Workspaces!LeaveWorkspace(r, s, u)
      PROVE  Workspaces!WorkInv'
  <2>1. PICK m : m = <<s, u>>
    OBVIOUS
  <2>2. PICK q : q = [pc |-> "remove", member |-> m]
    OBVIOUS
  <2>3. q.pc = "remove" /\ q.member = m /\ Workspaces!Begin(r, q)
    BY <1>4, <2>1, <2>2 DEF Workspaces!LeaveWorkspace
  <2>4. s2[m] \notin {"none", "owner"}
    BY <1>4, <2>1 DEF Workspaces!LeaveWorkspace, Workspaces!FindByWorkspaceAndUser
  <2> QED
    BY <1>1, <2>1, <2>3, <2>4, WorkAims
<1> QED
  BY <1>2, <1>3, <1>4

LEMMA WorkWrites ==
  ASSUME Workspaces!WorkInv, NEW r \in Calls, Workspaces!UpdateRoleWrite(r) \/ Workspaces!RemoveWrite(r)
  PROVE  Workspaces!WorkInv'
<1>1. s1' = s1 /\ s3' = s3 /\ Workspaces!Done(r) /\ s4[r].pc \in {"role", "remove"}
  BY DEF Workspaces!UpdateRoleWrite, Workspaces!RemoveWrite, Workspaces!At
<1>2. PICK s \in Slugs, u \in People : s4[r].member = <<s, u>> /\ Workspaces!Seated(s) /\ u # s1[s].owner
  BY <1>1 DEF Workspaces!WorkInv, Workspaces!Aimed
<1>3. PICK role : s2' = [s2 EXCEPT ![<<s, u>>] = role]
  BY <1>2 DEF Workspaces!UpdateRoleWrite, Workspaces!RemoveWrite, Workspaces!UpdateRole, Workspaces!RemoveRow
<1>4. SeatsStay /\ DOMAIN s2' = Workspaces!MemberIds /\ \A x \in Slugs : Workspaces!SeatKept(x)'
  BY <1>1, <1>2, <1>3, MemberWritten
<1> QED
  BY <1>1, <1>4, WriteEnds

LEMMA WorkStep == Workspaces!WorkInv /\ Workspaces!Next => Workspaces!WorkInv'
BY WorkCreates, WorkDeletes, WorkSeats, WorkInvites, WorkInviteInserts, WorkAccepts, WorkJoins,
   WorkAccepted, WorkDeclines, WorkManages, WorkWrites
DEF Workspaces!Next, Workspaces!createWorkspace, Workspaces!inviteMember, Workspaces!acceptInvitation,
    Workspaces!updateMemberRole, Workspaces!removeMember, Workspaces!deleteWorkspace, Workspaces!declineInvitation

LEMMA WorkspaceCardinality == ASSUME NEW S PROVE Workspaces!Cardinality(S) = Cardinality(S)
  BY DEF Workspaces!Cardinality, Cardinality

LEMMA SeatsAreKept == Workspaces!WorkInv => Workspaces!CreatorStaysOwner
<1> SUFFICES ASSUME Workspaces!WorkInv, NEW s \in Slugs, Workspaces!CountByWorkspace(s) > 0
             PROVE  s2[<<s, s1[s].owner>>] = "owner"
  BY DEF Workspaces!CreatorStaysOwner
<1>1. CASE Workspaces!Empty(s)
  <2>1. {u \in People : s2[<<s, u>>] # "none"} = {}
    BY <1>1 DEF Workspaces!Empty
  <2>2. Workspaces!CountByWorkspace(s) = 0
    BY <2>1, FS_EmptySet, WorkspaceCardinality DEF Workspaces!CountByWorkspace
  <2> QED
    BY <2>2
<1> QED
  BY <1>1 DEF Workspaces!WorkInv, Workspaces!SeatKept, Workspaces!Seated
-----------------------------------------------------------------------------
(* Subscriptions: what a row says was true of Stripe once, or claimed.     *)
LEMMA BillStart == Subscriptions!Init => Subscriptions!BillInv
<1> SUFFICES ASSUME Subscriptions!Init PROVE Subscriptions!BillInv
  OBVIOUS
<1>1. Subscriptions!Blank.pc = "idle" /\ \A r \in Calls : s5[r] = Subscriptions!Blank
  BY DEF Subscriptions!Init, Subscriptions!Blank
<1>2. \A r \in Calls : Subscriptions!Carried(r)
  BY <1>1 DEF Subscriptions!Carried
<1>3. \A s \in SubscriptionIds : /\ s2[s] = [state |-> s2[s].state, ending |-> s2[s].ending]
                                /\ s2[s].state = "none"
  BY DEF Subscriptions!Init, Subscriptions!NoStripe
<1> QED
  BY <1>2, <1>3 DEF Subscriptions!Init, Subscriptions!BillInv

\* Stripe opens a subscription or moves one that is live.
StripeStays ==
  \A s \in SubscriptionIds :
    /\ s2[s].state # "none" => s2'[s].state # "none"
    /\ s2[s].state = "canceled" => s2'[s].state = "canceled"
    /\ s \in s4 => s \in s4'

LEMMA TrueStays ==
  ASSUME StripeStays, NEW s, NEW row, Subscriptions!WasTrue(s, row)
  PROVE  Subscriptions!WasTrue(s, row)'
BY DEF StripeStays, Subscriptions!WasTrue

LEMMA CarriedStays ==
  ASSUME Subscriptions!BillInv, StripeStays, NEW r \in Calls, s5'[r] = s5[r]
  PROVE  Subscriptions!Carried(r)'
<1>1. Subscriptions!Carried(r)
  BY DEF Subscriptions!BillInv
<1> QED
  BY <1>1, TrueStays DEF Subscriptions!Carried, Subscriptions!WasTrue, StripeStays

StripeKnown ==
  /\ DOMAIN s2' = SubscriptionIds
  /\ \A s \in SubscriptionIds :
       /\ s2'[s] = [state |-> s2'[s].state, ending |-> s2'[s].ending]
       /\ s2'[s].state \in {"none", "active", "past_due", "canceled"}

LEMMA StripeSame ==
  ASSUME Subscriptions!BillInv, s2' = s2, s4' = s4
  PROVE  StripeStays /\ StripeKnown
BY DEF Subscriptions!BillInv, StripeStays, StripeKnown

LEMMA StripeReports ==
  ASSUME Subscriptions!BillInv, NEW s \in SubscriptionIds, NEW row, Subscriptions!StripeSet(s, row), s4' = s4,
         s2[s].state # "canceled", row.state \in {"active", "past_due", "canceled"},
         row = [state |-> row.state, ending |-> row.ending]
  PROVE  StripeStays /\ StripeKnown /\ s2'[s] = row
<1>1. DOMAIN s2' = SubscriptionIds /\ s2'[s] = row /\ \A x \in SubscriptionIds : x # s => s2'[x] = s2[x]
  BY DEF Subscriptions!BillInv, Subscriptions!StripeSet
<1> QED
  BY <1>1 DEF Subscriptions!BillInv, StripeStays, StripeKnown

\* The rows stay, or one of them is written that was true.
RowsKnown ==
  /\ DOMAIN s3' = SubscriptionIds
  /\ \A s \in SubscriptionIds : s3'[s] # None => Subscriptions!WasTrue(s, s3'[s])

LEMMA BillRowsSame ==
  ASSUME Subscriptions!BillInv, s3' = s3
  PROVE  RowsKnown
BY DEF Subscriptions!BillInv, RowsKnown

LEMMA RowWritten ==
  ASSUME Subscriptions!BillInv, NEW s, NEW row, Subscriptions!WasTrue(s, row), s3' = [s3 EXCEPT ![s] = row]
  PROVE  RowsKnown
BY DEF Subscriptions!BillInv, RowsKnown

\* What the step of one request has to show.
LEMMA BillTogether ==
  ASSUME Subscriptions!BillInv, StripeStays, StripeKnown, RowsKnown,
         NEW r \in Calls, NEW q, Subscriptions!Begin(r, q), s5'[r] = q => Subscriptions!Carried(r)'
  PROVE  Subscriptions!BillInv'
<1>1. DOMAIN s5' = Calls /\ s5'[r] = q /\ \A c \in Calls : c # r => s5'[c] = s5[c]
  BY DEF Subscriptions!BillInv, Subscriptions!Begin
<1>2. \A c \in Calls : Subscriptions!Carried(c)'
  BY <1>1, CarriedStays
<1>3. \A s \in SubscriptionIds : s3'[s] # None => Subscriptions!WasTrue(s, s3[s])' 
  BY TrueStays DEF RowsKnown, Subscriptions!WasTrue, StripeStays
<1> QED
  BY <1>1, <1>2, <1>3 DEF Subscriptions!BillInv, RowsKnown, StripeKnown

LEMMA BillEnds ==
  ASSUME Subscriptions!BillInv, StripeStays, StripeKnown, RowsKnown, NEW r \in Calls, Subscriptions!Done(r)
  PROVE  Subscriptions!BillInv'
<1>1. PICK q : q = Subscriptions!Blank
  OBVIOUS
<1>2. q.pc = "idle" /\ Subscriptions!Begin(r, q)
  BY <1>1 DEF Subscriptions!Done, Subscriptions!Blank
<1>3. s5'[r] = q => Subscriptions!Carried(r)'
  BY <1>2 DEF Subscriptions!Carried
<1> QED
  BY <1>2, <1>3, BillTogether

LEMMA BillGoesOn ==
  ASSUME Subscriptions!BillInv, StripeStays, StripeKnown, RowsKnown, NEW r \in Calls, NEW q, Subscriptions!Begin(r, q),
         Subscriptions!WasTrue(q.sub, q.row)',
         q.pc \in {"create", "cancel", "update"} \/ q = [pc |-> q.pc, sub |-> q.sub, row |-> q.row]
  PROVE  Subscriptions!BillInv'
<1>1. s5'[r] = q => Subscriptions!Carried(r)'
  BY DEF Subscriptions!Carried, Subscriptions!WasTrue
<1> QED
  BY <1>1, BillTogether

LEMMA StripeAlone ==
  ASSUME Subscriptions!BillInv, StripeStays, StripeKnown, s3' = s3, s5' = s5
  PROVE  Subscriptions!BillInv'
<1>1. \A c \in Calls : Subscriptions!Carried(c)'
  BY CarriedStays
<1>2. \A s \in SubscriptionIds : s3[s] # None => Subscriptions!WasTrue(s, s3[s])'
  BY TrueStays DEF Subscriptions!BillInv, Subscriptions!WasTrue, StripeStays
<1> QED
  BY <1>1, <1>2 DEF Subscriptions!BillInv, StripeKnown

LEMMA StripeMoved ==
  ASSUME Subscriptions!BillInv, Subscriptions!StripeMoves
  PROVE  Subscriptions!BillInv'
<1>1. PICK s \in SubscriptionIds, st \in {"active", "past_due", "canceled"} :
         Subscriptions!Live(s) /\ Subscriptions!StripeSet(s, [s2[s] EXCEPT !.state = st])
  BY DEF Subscriptions!StripeMoves
<1>2. s2[s].state \in {"active", "past_due"} /\ s2[s] = [state |-> s2[s].state, ending |-> s2[s].ending]
  BY <1>1 DEF Subscriptions!Live, Subscriptions!BillInv
<1>3. PICK row : row = [s2[s] EXCEPT !.state = st]
  OBVIOUS
<1>4. row = [state |-> st, ending |-> s2[s].ending]
  BY <1>2, <1>3
<1>5. row.state = st /\ row.ending = s2[s].ending
  BY <1>4
<1>6. s3' = s3 /\ s4' = s4 /\ s5' = s5
  BY DEF Subscriptions!StripeMoves
<1>7. StripeStays /\ StripeKnown
  BY <1>1, <1>2, <1>3, <1>4, <1>5, <1>6, StripeReports
<1> QED
  BY <1>6, <1>7, StripeAlone

LEMMA BillCreates ==
  ASSUME Subscriptions!BillInv, NEW r \in Calls, NEW plan, Subscriptions!CreateSubscription(r, plan)
  PROVE  Subscriptions!BillInv'
<1>1. PICK s \in SubscriptionIds :
         /\ s2[s].state = "none"
         /\ Subscriptions!StripeSet(s, [state |-> "active", ending |-> FALSE])
         /\ Subscriptions!Begin(r, [pc |-> "create", sub |-> s, row |-> Subscriptions!NewSubscription(plan, "active")])
  BY DEF Subscriptions!CreateSubscription
<1>13. s4' = s4
  BY DEF Subscriptions!CreateSubscription
<1>2. PICK no : no = FALSE
  OBVIOUS
<1>3. PICK opened : opened = [state |-> "active", ending |-> no]
  OBVIOUS
<1>4. opened.state = "active" /\ opened = [state |-> opened.state, ending |-> opened.ending]
  BY <1>3
<1>5. StripeStays /\ StripeKnown /\ s2'[s] = opened
  BY <1>1, <1>2, <1>3, <1>4, <1>13, StripeReports
<1>6. PICK row : row = [status |-> "active", ending |-> no, plan |-> plan]
  OBVIOUS
<1>7. row = Subscriptions!NewSubscription(plan, "active")
  BY <1>2, <1>6 DEF Subscriptions!NewSubscription
<1>8. row.status = "active" /\ row = [status |-> row.status, ending |-> row.ending, plan |-> row.plan]
  BY <1>6
<1>9. PICK q : q = [pc |-> "create", sub |-> s, row |-> row]
  OBVIOUS
<1>10. q.pc = "create" /\ q.sub = s /\ q.row = row /\ Subscriptions!Begin(r, q)
  BY <1>1, <1>7, <1>9
<1>11. Subscriptions!WasTrue(q.sub, q.row)'
  BY <1>4, <1>5, <1>8, <1>10 DEF Subscriptions!WasTrue
<1>12. RowsKnown
  BY BillRowsSame DEF Subscriptions!CreateSubscription
<1> QED
  BY <1>5, <1>10, <1>11, <1>12, BillGoesOn

LEMMA BillRows ==
  ASSUME Subscriptions!BillInv, NEW r \in Calls,
         Subscriptions!CreateSubscriptionRow(r) \/ Subscriptions!WriteBack(r)
  PROVE  Subscriptions!BillInv'
<1>1. s2' = s2 /\ s4' = s4 /\ Subscriptions!Done(r) /\ s5[r].pc \in {"create", "update"}
  BY DEF Subscriptions!CreateSubscriptionRow, Subscriptions!WriteBack, Subscriptions!At
<1>2. Subscriptions!WasTrue(s5[r].sub, s5[r].row)
  BY <1>1 DEF Subscriptions!BillInv, Subscriptions!Carried
<1>3. s3' = s3 \/ s3' = [s3 EXCEPT ![s5[r].sub] = s5[r].row]
  BY DEF Subscriptions!CreateSubscriptionRow, Subscriptions!WriteBack, Subscriptions!CreateRow, Subscriptions!UpdateRow
<1>4. RowsKnown
  BY <1>2, <1>3, BillRowsSame, RowWritten
<1> QED
  BY <1>1, <1>4, StripeSame, BillEnds

\* Stripe stays, and one more subscription may be claimed to be deleted.
LEMMA StripeClaimed ==
  ASSUME Subscriptions!BillInv, s2' = s2, s4 \subseteq s4'
  PROVE  StripeStays /\ StripeKnown
BY DEF Subscriptions!BillInv, StripeStays, StripeKnown

\* A request takes a row as it is, with another plan, or as canceled, which
\* Stripe knows or somebody claims.
LEMMA BillLoads ==
  ASSUME Subscriptions!BillInv, NEW r \in Calls, NEW s \in SubscriptionIds, s3[s] # None,
         s2' = s2, s3' = s3, s4 \subseteq s4', NEW q, Subscriptions!Begin(r, q), q.sub = s,
         q.pc \in {"create", "cancel", "update"} \/ q = [pc |-> q.pc, sub |-> q.sub, row |-> q.row],
         \/ q.row = s3[s]
         \/ \E plan : q.row = [s3[s] EXCEPT !.plan = plan]
         \/ (s2[s].state = "canceled" \/ s \in s4') /\ q.row = [s3[s] EXCEPT !.status = "canceled"]
  PROVE  Subscriptions!BillInv'
<1>1. PICK row : row = s3[s]
  OBVIOUS
<1>7. StripeStays /\ StripeKnown /\ RowsKnown
  BY StripeClaimed, BillRowsSame
<1>2. Subscriptions!WasTrue(s, row)'
  BY <1>1, <1>7, TrueStays DEF Subscriptions!BillInv
<1>3. row = [status |-> row.status, ending |-> row.ending, plan |-> row.plan]
  BY <1>2 DEF Subscriptions!WasTrue
<1>4. ASSUME NEW plan, q.row = [row EXCEPT !.plan = plan] PROVE Subscriptions!WasTrue(s, q.row)'
  <2>1. PICK new : new = [row EXCEPT !.plan = plan]
    OBVIOUS
  <2>2. new = [status |-> row.status, ending |-> row.ending, plan |-> plan]
    BY <1>3, <2>1
  <2>3. new.status = row.status /\ new = [status |-> new.status, ending |-> new.ending, plan |-> new.plan]
    BY <2>2
  <2> QED
    BY <1>2, <1>4, <2>1, <2>3 DEF Subscriptions!WasTrue
<1>5. ASSUME s2[s].state = "canceled" \/ s \in s4', q.row = [row EXCEPT !.status = "canceled"] PROVE Subscriptions!WasTrue(s, q.row)'
  <2>1. PICK new : new = [row EXCEPT !.status = "canceled"]
    OBVIOUS
  <2>2. new = [status |-> "canceled", ending |-> row.ending, plan |-> row.plan]
    BY <1>3, <2>1
  <2>3. new = [status |-> new.status, ending |-> new.ending, plan |-> new.plan]
    BY <2>2
  <2> QED
    BY <1>2, <1>5, <2>1, <2>3 DEF Subscriptions!WasTrue
<1>6. Subscriptions!WasTrue(s, q.row)'
  BY <1>1, <1>2, <1>4, <1>5
<1> QED
  BY <1>6, <1>7, BillGoesOn

LEMMA BillTakes ==
  ASSUME Subscriptions!BillInv, NEW r \in Calls,
         \/ \E immediate \in BOOLEAN : Subscriptions!CancelSubscription(r, immediate)
         \/ \E plan \in Plans : Subscriptions!ChangePlan(r, plan)
         \/ \E s \in SubscriptionIds : Subscriptions!HandleWebhook(r, s)
  PROVE  Subscriptions!BillInv'
<1>1. s2' = s2 /\ s3' = s3 /\ s4 \subseteq s4'
  BY DEF Subscriptions!CancelSubscription, Subscriptions!ChangePlan, Subscriptions!HandleWebhook,
         Subscriptions!handleSubscriptionUpdate, Subscriptions!handleSubscriptionDeleted
<1>2. ASSUME NEW immediate, Subscriptions!CancelSubscription(r, immediate) PROVE Subscriptions!BillInv'
  <2>1. PICK s \in SubscriptionIds :
           /\ s3[s] # None
           /\ Subscriptions!Begin(r, [pc |-> "cancel", sub |-> s, row |-> s3[s], immediate |-> immediate])
    BY <1>2 DEF Subscriptions!CancelSubscription, Subscriptions!FindByWorkspaceID
  <2>2. PICK q : q = [pc |-> "cancel", sub |-> s, row |-> s3[s], immediate |-> immediate]
    OBVIOUS
  <2>3. q.pc = "cancel" /\ q.sub = s /\ q.row = s3[s]
    BY <2>2
  <2> QED
    BY <1>1, <2>1, <2>2, <2>3, BillLoads
<1>3. ASSUME NEW plan, Subscriptions!ChangePlan(r, plan) PROVE Subscriptions!BillInv'
  <2>1. PICK s \in SubscriptionIds :
           /\ s3[s] # None
           /\ Subscriptions!Begin(r, [pc |-> "change", sub |-> s, row |-> [s3[s] EXCEPT !.plan = plan]])
    BY <1>3 DEF Subscriptions!ChangePlan, Subscriptions!FindByWorkspaceID
  <2>2. PICK row : row = [s3[s] EXCEPT !.plan = plan]
    OBVIOUS
  <2>3. PICK q : q = [pc |-> "change", sub |-> s, row |-> row]
    OBVIOUS
  <2>4. q.pc = "change" /\ q.sub = s /\ q.row = row /\ q = [pc |-> q.pc, sub |-> q.sub, row |-> q.row]
    BY <2>3
  <2>5. Subscriptions!Begin(r, q)
    BY <2>1, <2>2, <2>3
  <2> QED
    BY <1>1, <2>1, <2>2, <2>4, <2>5, BillLoads
<1>4. ASSUME NEW s \in SubscriptionIds, Subscriptions!handleSubscriptionUpdate(r, s) PROVE Subscriptions!BillInv'
  <2>1. PICK q : q = [pc |-> "ask", sub |-> s, row |-> s3[s]]
    OBVIOUS
  <2>2. q.pc = "ask" /\ q.sub = s /\ q.row = s3[s] /\ q = [pc |-> q.pc, sub |-> q.sub, row |-> q.row]
    BY <2>1
  <2>3. Subscriptions!Begin(r, q) /\ s3[s] # None
    BY <1>4, <2>1 DEF Subscriptions!handleSubscriptionUpdate, Subscriptions!FindByStripeID
  <2> QED
    BY <1>1, <2>2, <2>3, BillLoads
<1>5. ASSUME NEW s \in SubscriptionIds, Subscriptions!handleSubscriptionDeleted(r, s) PROVE Subscriptions!BillInv'
  <2>1. PICK row : row = [s3[s] EXCEPT !.status = "canceled"]
    OBVIOUS
  <2>2. PICK q : q = [pc |-> "update", sub |-> s, row |-> row]
    OBVIOUS
  <2>3. q.pc = "update" /\ q.sub = s /\ q.row = row
    BY <2>2
  <2>4. Subscriptions!Begin(r, q) /\ s3[s] # None
         /\ (Subscriptions!Live(s) => s \in s4')
    BY <1>5, <2>1, <2>2 DEF Subscriptions!handleSubscriptionDeleted, Subscriptions!FindByStripeID
  <2>5. s2[s].state = "canceled" \/ s \in s4'
    BY <2>4 DEF Subscriptions!BillInv, Subscriptions!WasTrue, Subscriptions!Live
  <2> QED
    BY <1>1, <2>1, <2>3, <2>4, <2>5, BillLoads
<1> QED
  BY <1>2, <1>3, <1>4, <1>5 DEF Subscriptions!HandleWebhook

LEMMA BillCancels ==
  ASSUME Subscriptions!BillInv, NEW r \in Calls, Subscriptions!CancelInStripe(r)
  PROVE  Subscriptions!BillInv'
<1>1. PICK q : q = s5[r]
  OBVIOUS
<1>2. PICK s, row : s = q.sub /\ row = q.row
  OBVIOUS
<1>3. q.pc = "cancel" /\ s3' = s3 /\ s4' = s4
  BY <1>1 DEF Subscriptions!CancelInStripe, Subscriptions!At
<1>4. Subscriptions!WasTrue(s, row)
  BY <1>1, <1>2, <1>3 DEF Subscriptions!BillInv, Subscriptions!Carried
<1>5. /\ row = [status |-> row.status, ending |-> row.ending, plan |-> row.plan] /\ s \in SubscriptionIds
      /\ s2[s] = [state |-> s2[s].state, ending |-> s2[s].ending]
  BY <1>4 DEF Subscriptions!WasTrue, Subscriptions!BillInv
<1>6. RowsKnown
  BY <1>3, BillRowsSame
<1>7. CASE Subscriptions!Done(r) /\ s2' = s2
  BY <1>3, <1>6, <1>7, StripeSame, BillEnds
<1>8. ASSUME Subscriptions!Live(s),
             IF q.immediate
             THEN Subscriptions!StripeSet(s, [s2[s] EXCEPT !.state = "canceled"])
             ELSE Subscriptions!StripeSet(s, [s2[s] EXCEPT !.ending = TRUE]),
             Subscriptions!Begin(r, [pc |-> "update", sub |-> s, row |-> Subscriptions!CanceledRow(row, q.immediate)])
      PROVE  Subscriptions!BillInv'
  <2>1. s2[s].state \in {"active", "past_due"}
    BY <1>8 DEF Subscriptions!Live
  <2>2. row.status = "canceled" => s \in s4'
    BY <1>3, <1>4, <2>1 DEF Subscriptions!WasTrue
  <2>3. PICK yes : yes = TRUE
    OBVIOUS
  <2>4. PICK c : c = [row EXCEPT !.ending = yes]
    OBVIOUS
  <2>5. c = [status |-> row.status, ending |-> yes, plan |-> row.plan] /\ c = Subscriptions!Cancel(row)
    BY <1>5, <2>3, <2>4 DEF Subscriptions!Cancel
  <2>6. PICK new : new = Subscriptions!CanceledRow(row, q.immediate)
    OBVIOUS
  <2>7. PICK nq : nq = [pc |-> "update", sub |-> s, row |-> new]
    OBVIOUS
  <2>8. nq.pc = "update" /\ nq.sub = s /\ nq.row = new /\ Subscriptions!Begin(r, nq)
    BY <1>8, <2>6, <2>7
  <2>9. CASE q.immediate
    <3>1. PICK st : st = [s2[s] EXCEPT !.state = "canceled"]
      OBVIOUS
    <3>2. st = [state |-> "canceled", ending |-> s2[s].ending]
      BY <1>5, <3>1
    <3>3. st.state = "canceled" /\ st = [state |-> st.state, ending |-> st.ending]
      BY <3>2
    <3>4. StripeStays /\ StripeKnown /\ s2'[s] = st
      BY <1>3, <1>5, <1>8, <2>1, <2>9, <3>1, <3>3, StripeReports
    <3>5. new = [c EXCEPT !.status = "canceled"]
      BY <2>5, <2>6, <2>9 DEF Subscriptions!CanceledRow
    <3>6. new = [status |-> "canceled", ending |-> yes, plan |-> row.plan]
      BY <2>5, <3>5
    <3>7. new = [status |-> new.status, ending |-> new.ending, plan |-> new.plan]
      BY <3>6
    <3>8. Subscriptions!WasTrue(nq.sub, nq.row)'
      BY <1>5, <2>8, <3>3, <3>4, <3>7 DEF Subscriptions!WasTrue
    <3> QED
      BY <1>6, <2>8, <3>4, <3>8, BillGoesOn
  <2>10. CASE ~q.immediate
    <3>1. PICK st : st = [s2[s] EXCEPT !.ending = yes]
      OBVIOUS
    <3>2. st = [state |-> s2[s].state, ending |-> yes]
      BY <1>5, <3>1
    <3>3. st.state = s2[s].state /\ st = [state |-> st.state, ending |-> st.ending]
      BY <3>2
    <3>4. StripeStays /\ StripeKnown /\ s2'[s] = st
      BY <1>3, <1>5, <1>8, <2>1, <2>3, <2>10, <3>1, <3>3, StripeReports
    <3>5. new = c
      BY <2>5, <2>6, <2>10 DEF Subscriptions!CanceledRow
    <3>6. new.status = row.status /\ new = [status |-> new.status, ending |-> new.ending, plan |-> new.plan]
      BY <2>5, <3>5
    <3>7. Subscriptions!WasTrue(nq.sub, nq.row)'
      BY <1>5, <2>1, <2>2, <2>8, <3>3, <3>4, <3>6 DEF Subscriptions!WasTrue
    <3> QED
      BY <1>6, <2>8, <3>4, <3>7, BillGoesOn
  <2> QED
    BY <2>9, <2>10
<1> QED
  BY <1>1, <1>2, <1>7, <1>8 DEF Subscriptions!CancelInStripe

LEMMA BillChanges ==
  ASSUME Subscriptions!BillInv, NEW r \in Calls, Subscriptions!ChangeInStripe(r)
  PROVE  Subscriptions!BillInv'
<1>1. PICK q : q = s5[r]
  OBVIOUS
<1>2. PICK s, row : s = q.sub /\ row = q.row
  OBVIOUS
<1>3. q.pc = "change" /\ s3' = s3 /\ s4' = s4
  BY <1>1 DEF Subscriptions!ChangeInStripe, Subscriptions!At
<1>4. Subscriptions!WasTrue(s, row) /\ q = [pc |-> q.pc, sub |-> s, row |-> row]
  BY <1>1, <1>2, <1>3 DEF Subscriptions!BillInv, Subscriptions!Carried
<1>5. s \in SubscriptionIds /\ s2[s] = [state |-> s2[s].state, ending |-> s2[s].ending]
  BY <1>4 DEF Subscriptions!WasTrue, Subscriptions!BillInv
<1>6. RowsKnown
  BY <1>3, BillRowsSame
<1>7. CASE Subscriptions!Done(r) /\ s2' = s2
  BY <1>3, <1>6, <1>7, StripeSame, BillEnds
<1>8. ASSUME Subscriptions!Live(s), Subscriptions!StripeSet(s, s2[s]),
             Subscriptions!Begin(r, [q EXCEPT !.pc = "update"])
      PROVE  Subscriptions!BillInv'
  <2>1. s2[s].state \in {"active", "past_due"}
    BY <1>8 DEF Subscriptions!Live
  <2>2. StripeStays /\ StripeKnown
    BY <1>3, <1>5, <1>8, <2>1, StripeReports
  <2>3. PICK nq : nq = [q EXCEPT !.pc = "update"]
    OBVIOUS
  <2>4. nq = [pc |-> "update", sub |-> s, row |-> row]
    BY <1>4, <2>3
  <2>5. nq.pc = "update" /\ nq.sub = s /\ nq.row = row /\ Subscriptions!Begin(r, nq)
    BY <1>8, <2>3, <2>4
  <2>6. Subscriptions!WasTrue(nq.sub, nq.row)'
    BY <1>4, <2>2, <2>5, TrueStays DEF Subscriptions!WasTrue, StripeStays
  <2> QED
    BY <1>6, <2>2, <2>5, <2>6, BillGoesOn
<1> QED
  BY <1>1, <1>2, <1>7, <1>8 DEF Subscriptions!ChangeInStripe

LEMMA BillAsks ==
  ASSUME Subscriptions!BillInv, NEW r \in Calls, Subscriptions!GetSubscription(r)
  PROVE  Subscriptions!BillInv'
<1>1. PICK q : q = s5[r]
  OBVIOUS
<1>2. PICK s, row : s = q.sub /\ row = q.row
  OBVIOUS
<1>3. q.pc = "ask" /\ s2' = s2 /\ s3' = s3 /\ s4' = s4
  BY <1>1 DEF Subscriptions!GetSubscription, Subscriptions!At
<1>4. Subscriptions!WasTrue(s, row) /\ q = [pc |-> q.pc, sub |-> s, row |-> row]
  BY <1>1, <1>2, <1>3 DEF Subscriptions!BillInv, Subscriptions!Carried
<1>5. row = [status |-> row.status, ending |-> row.ending, plan |-> row.plan]
  BY <1>4 DEF Subscriptions!WasTrue
<1>6. PICK st, ending : st = s2[s].state /\ ending = s2[s].ending
  OBVIOUS
<1>7. PICK new : new = [status |-> st, ending |-> ending, plan |-> row.plan]
  OBVIOUS
<1>8. PICK nq : nq = [pc |-> "update", sub |-> s, row |-> new]
  OBVIOUS
<1>9. nq = [q EXCEPT !.pc = "update", !.row = [@ EXCEPT !.status = st, !.ending = ending]]
  <2>1. new = [row EXCEPT !.status = st, !.ending = ending]
    <3>1. PICK mid : mid = [row EXCEPT !.status = st]
      OBVIOUS
    <3>2. mid = [status |-> st, ending |-> row.ending, plan |-> row.plan]
      BY <1>5, <3>1
    <3>3. new = [mid EXCEPT !.ending = ending]
      BY <1>7, <3>2
    <3> QED
      BY <3>1, <3>3
  <2>2. nq = [q EXCEPT !.pc = "update", !.row = new]
    <3>1. PICK mid : mid = [q EXCEPT !.pc = "update"]
      OBVIOUS
    <3>2. mid = [pc |-> "update", sub |-> s, row |-> row]
      BY <1>4, <3>1
    <3>3. nq = [mid EXCEPT !.row = new]
      BY <1>8, <3>2
    <3> QED
      BY <3>1, <3>3
  <2>3. q.row = row
    BY <1>2
  <2> QED
    BY <2>1, <2>2, <2>3
<1>13. CASE Subscriptions!Done(r)
  BY <1>3, <1>13, StripeSame, BillRowsSame, BillEnds
<1>10. Subscriptions!Begin(r, nq) \/ Subscriptions!Done(r)
  BY <1>1, <1>2, <1>6, <1>9 DEF Subscriptions!GetSubscription
<1>11. /\ nq.pc = "update" /\ nq.sub = s /\ nq.row = new
       /\ new.status = st /\ new = [status |-> new.status, ending |-> new.ending, plan |-> new.plan]
  BY <1>7, <1>8
<1>12. Subscriptions!WasTrue(nq.sub, nq.row)'
  BY <1>3, <1>4, <1>6, <1>11 DEF Subscriptions!WasTrue
<1> QED
  BY <1>3, <1>10, <1>11, <1>12, <1>13, StripeSame, BillRowsSame, BillGoesOn

LEMMA BillStep == Subscriptions!BillInv /\ Subscriptions!Next => Subscriptions!BillInv'
<1> SUFFICES ASSUME Subscriptions!BillInv, Subscriptions!Next PROVE Subscriptions!BillInv'
  OBVIOUS
<1>1. CASE Subscriptions!createCustomer
  <2>1. s2' = s2 /\ s3' = s3 /\ s4' = s4 /\ s5' = s5
    BY <1>1 DEF Subscriptions!createCustomer, Subscriptions!CreateCustomer
  <2> QED
    BY <2>1, StripeSame, StripeAlone
<1> QED
  BY <1>1, StripeMoved, BillCreates, BillRows, BillTakes, BillCancels, BillChanges, BillAsks
  DEF Subscriptions!Next, Subscriptions!createSubscription, Subscriptions!cancelSubscription,
      Subscriptions!changePlan, Subscriptions!handleWebhook

LEMMA RowsWereTrue == Subscriptions!BillInv => Subscriptions!CutOffExplained
BY DEF Subscriptions!BillInv, Subscriptions!WasTrue, Subscriptions!CutOffExplained
-----------------------------------------------------------------------------
(* Users and organizations: the members of an organization are in its list *)
(* or in the hands of the one request that rewrites it.                    *)
LEMMA UserStart == Accounts!Init => Accounts!UserInv
<1> SUFFICES ASSUME Accounts!Init PROVE Accounts!UserInv
  OBVIOUS
<1>1. \A r \in Calls : s5[r].pc = "none"
  BY DEF Accounts!Init, Accounts!Finished
<1>2. \A r \in Calls : Accounts!KnownCall(r)
  BY <1>1 DEF Accounts!KnownCall, Accounts!At
<1> QED
  BY <1>2 DEF Accounts!Init, Accounts!UserInv, Accounts!Finished

\* Who works on an organization is rewriting its list.
LEMMA Works ==
  ASSUME NEW r, Accounts!KnownCall(r), NEW o
  PROVE  Accounts!WorksOn(r, o) <=> s5[r].pc \in {"delete", "insert"} /\ s5[r].org = o
<1>1. CASE s5[r].pc \in {"delete", "insert"}
  BY <1>1 DEF Accounts!KnownCall, Accounts!WorksOn
<1>2. CASE s5[r].pc \in {"register", "write"}
  <2>1. s5[r] = [pc |-> s5[r].pc, user |-> s5[r].user, row |-> s5[r].row]
    BY <1>2 DEF Accounts!KnownCall
  <2>2. DOMAIN s5[r] = {"pc", "user", "row"}
    BY <2>1
  <2> QED
    BY <1>2, <2>2 DEF Accounts!WorksOn
<1>3. CASE s5[r].pc = "none"
  BY <1>3 DEF Accounts!WorksOn
<1> QED
  BY <1>1, <1>2, <1>3 DEF Accounts!KnownCall

LEMMA WorksNext ==
  ASSUME NEW r, Accounts!KnownCall(r)', NEW o
  PROVE  Accounts!WorksOn(r, o)' <=> s5'[r].pc \in {"delete", "insert"} /\ s5'[r].org = o
<1>1. CASE s5'[r].pc \in {"delete", "insert"}
  BY <1>1 DEF Accounts!KnownCall, Accounts!WorksOn
<1>2. CASE s5'[r].pc \in {"register", "write"}
  <2>1. s5'[r] = [pc |-> s5'[r].pc, user |-> s5'[r].user, row |-> s5'[r].row]
    BY <1>2 DEF Accounts!KnownCall
  <2>2. DOMAIN s5'[r] = {"pc", "user", "row"}
    BY <2>1
  <2> QED
    BY <1>2, <2>2 DEF Accounts!WorksOn
<1>3. CASE s5'[r].pc = "none"
  BY <1>3 DEF Accounts!WorksOn
<1> QED
  BY <1>1, <1>2, <1>3 DEF Accounts!KnownCall

\* An organization keeps its creator.
CreatorsStay == \A o \in OrgIds : s2[o] # None => s2'[o] = s2[o]
\* One request goes on, the others stay.
UserMove(r, q) ==
  /\ DOMAIN s5' = Calls /\ s5'[r] = q
  /\ \A c \in Calls : c # r => s5'[c] = s5[c] /\ Accounts!KnownCall(c)'
  /\ Accounts!KnownCall(r)'

LEMMA UserGoes ==
  ASSUME Accounts!UserInv, CreatorsStay, NEW r \in Calls, NEW q, Accounts!Goto(r, q),
         s5'[r] = q => Accounts!KnownCall(r)'
  PROVE  UserMove(r, q)
<1>1. DOMAIN s5' = Calls /\ s5'[r] = q /\ \A c \in Calls : c # r => s5'[c] = s5[c]
  BY DEF Accounts!UserInv, Accounts!Goto
<1>2. ASSUME NEW c \in Calls, c # r PROVE Accounts!KnownCall(c)'
  <2>1. Accounts!KnownCall(c) /\ s5'[c] = s5[c]
    BY <1>1, <1>2 DEF Accounts!UserInv
  <2> QED
    BY <2>1 DEF Accounts!KnownCall, Accounts!KnownRow, Accounts!At, CreatorsStay
<1> QED
  BY <1>1, <1>2 DEF UserMove

LEMMA UserEnds ==
  ASSUME Accounts!UserInv, CreatorsStay, NEW r \in Calls, Accounts!Finish(r)
  PROVE  \E q : q.pc = "none" /\ UserMove(r, q)
<1>1. PICK q : q = Accounts!Finished
  OBVIOUS
<1>2. q.pc = "none" /\ Accounts!Goto(r, q)
  BY <1>1 DEF Accounts!Finish, Accounts!Finished
<1>3. s5'[r] = q => Accounts!KnownCall(r)'
  BY <1>2 DEF Accounts!KnownCall, Accounts!At
<1> QED
  BY <1>2, <1>3, UserGoes

\* The list of an organization is as good as it was when nobody claims more,
\* nobody leaves it and the same requests work on it.
ListStays(o) ==
  /\ s2'[o] = s2[o]
  /\ \A u \in AccountIds : <<o, u>> \in s3' <=> <<o, u>> \in s3
  /\ \A c \in Calls : Accounts!WorksOn(c, o)' <=> Accounts!WorksOn(c, o)
  /\ \A c \in Calls : Accounts!WorksOn(c, o) => s5'[c] = s5[c]
  /\ \A u \in AccountIds : Accounts!Claims(u, o)' => Accounts!Claims(u, o)

LEMMA ListedStays ==
  ASSUME NEW o \in OrgIds, Accounts!Listed(o), ListStays(o), \A c \in Calls : Accounts!KnownCall(c)
  PROVE  Accounts!Listed(o)'
<1>1. \A u \in AccountIds : Accounts!Held(u, o)' <=> Accounts!Held(u, o)
  <2> SUFFICES ASSUME NEW u \in AccountIds PROVE Accounts!Held(u, o)' <=> Accounts!Held(u, o)
    OBVIOUS
  <2>1. u \in Accounts!loadMembers(o)' <=> u \in Accounts!loadMembers(o)
    BY DEF ListStays, Accounts!loadMembers
  <2>2. \A c \in Calls : (Accounts!WorksOn(c, o)' /\ u \in s5'[c].rest)
                          <=> (Accounts!WorksOn(c, o) /\ u \in s5[c].rest)
    BY DEF ListStays
  <2> QED
    BY <2>1, <2>2 DEF Accounts!Held
<1>2. \A c, d \in Calls : Accounts!WorksOn(c, o)' /\ Accounts!WorksOn(d, o)' => c = d
  BY DEF ListStays, Accounts!Listed
<1>3. \A u \in AccountIds : Accounts!Claims(u, o)' => Accounts!Held(u, o)'
  BY <1>1 DEF ListStays, Accounts!Listed
<1>4. ASSUME NEW c \in Calls, Accounts!WorksOn(c, o)'
      PROVE  /\ Accounts!Held(s5[c].user, o)'
             /\ Accounts!At(c, "delete")' => /\ s5'[c].user \in s5'[c].rest
                                   /\ \A u \in AccountIds : Accounts!Claims(u, o)' => u \in s5'[c].rest
  <2>1. Accounts!WorksOn(c, o) /\ s5'[c] = s5[c] /\ Accounts!KnownCall(c)
    BY <1>4 DEF ListStays
  <2>2. s5[c].user \in AccountIds
    BY <2>1, Works DEF Accounts!KnownCall
  <2>3. Accounts!Held(s5[c].user, o) /\ (Accounts!At(c, "delete") => /\ s5[c].user \in s5[c].rest
                                   /\ \A u \in AccountIds : Accounts!Claims(u, o) => u \in s5[c].rest)
    BY <2>1 DEF Accounts!Listed
  <2>4. Accounts!Held(s5[c].user, o)'
    BY <1>1, <2>1, <2>2, <2>3
  <2> QED
    BY <2>1, <2>3, <2>4 DEF ListStays, Accounts!At
<1> QED
  BY <1>2, <1>3, <1>4 DEF Accounts!Listed

\* What remains of the invariant when one request has moved.
LEMMA UserTogether ==
  ASSUME Accounts!UserInv, NEW r \in Calls, NEW q, UserMove(r, q), CreatorsStay, DOMAIN s1' = AccountIds,
         \A u \in AccountIds : s1'[u] # None => Accounts!KnownRow(s1[u])',
         DOMAIN s2' = OrgIds,
         \A o \in OrgIds : s2'[o] # None => s2'[o] \in AccountIds,
         \A o \in OrgIds : s2'[o] # None /\ o \notin s6' => Accounts!Listed(o)'
  PROVE  Accounts!UserInv'
<1>1. \A c \in Calls : Accounts!KnownCall(c)'
  BY DEF UserMove
<1> QED
  BY <1>1 DEF UserMove, Accounts!UserInv

LEMMA RowsStayKnown ==
  ASSUME Accounts!UserInv, CreatorsStay, NEW u, NEW row, Accounts!KnownRow(row)
  PROVE  Accounts!KnownRow(row)'
BY DEF Accounts!KnownRow, CreatorsStay

\* A request that works on no organization, before or after.
ClaimsShrink(r) ==
  \A u \in AccountIds, o \in OrgIds :
    /\ s1'[u] # None /\ s1'[u].org = o => Accounts!Claims(u, o)
    /\ Accounts!At(r, "write")' /\ s5'[r].user = u /\ s5'[r].row.org = o => Accounts!Claims(u, o)

LEMMA UserAside ==
  ASSUME Accounts!UserInv, NEW r \in Calls, NEW q, UserMove(r, q), s2' = s2, s3' = s3, s6' = s6,
         s5[r].pc \in {"none", "register", "write"}, q.pc \in {"none", "register", "write"},
         DOMAIN s1' = AccountIds,
         \A u \in AccountIds : s1'[u] # None => Accounts!KnownRow(s1[u])',
         ClaimsShrink(r)
  PROVE  Accounts!UserInv'
<1>1. CreatorsStay
  BY DEF CreatorsStay
<1>2. \A c \in Calls : Accounts!KnownCall(c) /\ Accounts!KnownCall(c)'
  BY DEF Accounts!UserInv, UserMove
<1>3. ASSUME NEW o \in OrgIds PROVE ListStays(o)
  <2>1. ~Accounts!WorksOn(r, o) /\ ~Accounts!WorksOn(r, o)'
    BY <1>2, Works, WorksNext DEF UserMove
  <2>2. \A c \in Calls : c # r => (Accounts!WorksOn(c, o)' <=> Accounts!WorksOn(c, o)) /\ s5'[c] = s5[c]
    BY <1>2, Works, WorksNext DEF UserMove
  <2>3. ASSUME NEW u \in AccountIds, Accounts!Claims(u, o)' PROVE Accounts!Claims(u, o)
    <3>1. CASE u = s2'[o]
      BY <3>1 DEF Accounts!Claims
    <3>2. CASE s1'[u] # None /\ s1'[u].org = o
      BY <3>2 DEF ClaimsShrink
    <3>3. ASSUME NEW c \in Calls, Accounts!At(c, "write")' /\ s5'[c].user = u /\ s5'[c].row.org = o
          PROVE  Accounts!Claims(u, o)
      <4>1. CASE c = r
        BY <3>3, <4>1 DEF ClaimsShrink
      <4>2. CASE c # r
        BY <2>2, <3>3, <4>2 DEF Accounts!Claims, Accounts!At
      <4> QED
        BY <4>1, <4>2
    <3> QED
      BY <2>3, <3>1, <3>2, <3>3 DEF Accounts!Claims
  <2> QED
    BY <2>1, <2>2, <2>3 DEF ListStays
<1>4. \A o \in OrgIds : s2'[o] # None /\ o \notin s6' => Accounts!Listed(o)'
  BY <1>2, <1>3, ListedStays DEF Accounts!UserInv
<1> QED
  BY <1>1, <1>4, UserTogether DEF Accounts!UserInv

\* The rows of the users stay known when none or one of them is written.
LEMMA UserRowsSame ==
  ASSUME Accounts!UserInv, CreatorsStay, s1' = s1
  PROVE  DOMAIN s1' = AccountIds /\ \A u \in AccountIds : s1'[u] # None => Accounts!KnownRow(s1[u])'
BY DEF Accounts!UserInv, Accounts!KnownRow, CreatorsStay

LEMMA UserRowWritten ==
  ASSUME Accounts!UserInv, s2' = s2, NEW u \in AccountIds, NEW row, Accounts!KnownRow(row),
         s1' = [s1 EXCEPT ![u] = row]
  PROVE  /\ DOMAIN s1' = AccountIds
         /\ \A v \in AccountIds : s1'[v] # None => Accounts!KnownRow(s1[v])'
         /\ s1'[u] = row /\ \A v \in AccountIds : v # u => s1'[v] = s1[v]
<1>1. DOMAIN s1' = AccountIds /\ s1'[u] = row /\ \A v \in AccountIds : v # u => s1'[v] = s1[v]
  BY DEF Accounts!UserInv
<1>2. ASSUME NEW v \in AccountIds, s1'[v] # None PROVE Accounts!KnownRow(s1[v])'
  <2>1. CASE v = u
    BY <1>1, <2>1 DEF Accounts!KnownRow
  <2>2. CASE v # u
    <3>1. s1'[v] = s1[v] /\ Accounts!KnownRow(s1[v])
      BY <1>1, <1>2, <2>2 DEF Accounts!UserInv
    <3> QED
      BY <3>1 DEF Accounts!KnownRow
  <2> QED
    BY <2>1, <2>2
<1> QED
  BY <1>1, <1>2

\* Only the hash and the role of a row change on the way.
SameOrg(row, old) ==
  /\ row = [status |-> row.status, hash |-> row.hash, org |-> row.org, roles |-> row.roles]
  /\ row.org = old.org

LEMMA OrgStaysKnown ==
  ASSUME NEW row, NEW old, Accounts!KnownRow(old), SameOrg(row, old)
  PROVE  Accounts!KnownRow(row)
BY DEF Accounts!KnownRow, SameOrg

LEMMA HashSet ==
  ASSUME NEW row, row = [status |-> row.status, hash |-> row.hash, org |-> row.org, roles |-> row.roles],
         NEW h
  PROVE  SameOrg([row EXCEPT !.hash = h], row)
<1>1. PICK new : new = [row EXCEPT !.hash = h]
  OBVIOUS
<1>2. new = [status |-> row.status, hash |-> h, org |-> row.org, roles |-> row.roles]
  BY <1>1
<1>3. new.status = row.status /\ new.hash = h /\ new.org = row.org /\ new.roles = row.roles
  BY <1>2
<1> QED
  BY <1>1, <1>2, <1>3 DEF SameOrg

LEMMA StatusSet ==
  ASSUME NEW row, row = [status |-> row.status, hash |-> row.hash, org |-> row.org, roles |-> row.roles],
         NEW x
  PROVE  SameOrg([row EXCEPT !.status = x], row)
<1>1. PICK new : new = [row EXCEPT !.status = x]
  OBVIOUS
<1>2. new = [status |-> x, hash |-> row.hash, org |-> row.org, roles |-> row.roles]
  BY <1>1
<1>3. new.status = x /\ new.hash = row.hash /\ new.org = row.org /\ new.roles = row.roles
  BY <1>2
<1> QED
  BY <1>1, <1>2, <1>3 DEF SameOrg

\* A row is loaded, to be written back changed.
LEMMA UserLoads ==
  ASSUME Accounts!UserInv, NEW r \in Calls, Accounts!At(r, "none"), NEW u \in AccountIds, s1[u] # None,
         NEW row, SameOrg(row, s1[u]), Accounts!Goto(r, [pc |-> "write", user |-> u, row |-> row]),
         s1' = s1, s2' = s2, s3' = s3, s6' = s6
  PROVE  Accounts!UserInv'
<1>1. PICK q : q = [pc |-> "write", user |-> u, row |-> row]
  OBVIOUS
<1>2. q.pc = "write" /\ q.user = u /\ q.row = row
  BY <1>1
<1>3. CreatorsStay
  BY DEF CreatorsStay
<1>4. Accounts!KnownRow(s1[u])
  BY DEF Accounts!UserInv
<1>5. Accounts!KnownRow(row)'
  BY <1>3, <1>4, OrgStaysKnown, RowsStayKnown
<1>6. s5'[r] = q => Accounts!KnownCall(r)'
  BY <1>1, <1>2, <1>5 DEF Accounts!KnownCall, Accounts!At, Accounts!KnownRow
<1>7. UserMove(r, q)
  BY <1>1, <1>3, <1>6, UserGoes
<1>8. ClaimsShrink(r)
  BY <1>2, <1>7 DEF ClaimsShrink, Accounts!Claims, UserMove, SameOrg
<1> QED
  BY <1>2, <1>3, <1>7, <1>8, UserRowsSame, UserAside DEF Accounts!At

\* A request that ends without having worked on an organization.
LEMMA UserLeaves ==
  ASSUME Accounts!UserInv, NEW r \in Calls, s5[r].pc \in {"none", "register", "write"}, Accounts!Finish(r),
         s1' = s1, s2' = s2, s3' = s3, s6' = s6
  PROVE  Accounts!UserInv'
<1>1. CreatorsStay
  BY DEF CreatorsStay
<1>2. PICK q : q.pc = "none" /\ UserMove(r, q)
  BY <1>1, UserEnds
<1>3. ClaimsShrink(r)
  BY <1>2 DEF ClaimsShrink, Accounts!Claims, UserMove, Accounts!At
<1> QED
  BY <1>1, <1>2, <1>3, UserRowsSame, UserAside

LEMMA UserRegisters ==
  ASSUME Accounts!UserInv, NEW r \in Calls, NEW u \in AccountIds, NEW x, Accounts!Register(r, u, x),
         s2' = s2, s3' = s3, s6' = s6
  PROVE  Accounts!UserInv'
<1>1. PICK row : row = Accounts!NewUser(x)
  OBVIOUS
<1>2. row = [status |-> "active", hash |-> x, org |-> None, roles |-> {"user"}]
  BY <1>1 DEF Accounts!NewUser
<1>3. row.status = "active" /\ row.hash = x /\ row.org = None /\ row.roles = {"user"}
  BY <1>2
<1>4. PICK q : q = [pc |-> "register", user |-> u, row |-> row]
  OBVIOUS
<1>5. q.pc = "register" /\ q.user = u /\ q.row = row
  BY <1>4
<1>6. CreatorsStay
  BY DEF CreatorsStay
<1>7. s5'[r] = q => Accounts!KnownCall(r)'
  BY <1>2, <1>3, <1>4, <1>5, UserAssumption DEF Accounts!KnownCall, Accounts!At, Accounts!KnownRow
<1>8. UserMove(r, q)
  BY <1>1, <1>4, <1>6, <1>7, UserGoes DEF Accounts!Register
<1>9. s1' = s1 /\ s5[r].pc = "none"
  BY DEF Accounts!Register, Accounts!At
<1>10. ClaimsShrink(r)
  BY <1>5, <1>8, <1>9 DEF ClaimsShrink, Accounts!Claims, UserMove, Accounts!At
<1> QED
  BY <1>5, <1>6, <1>8, <1>9, <1>10, UserRowsSame, UserAside

LEMMA UserSaved ==
  ASSUME Accounts!UserInv, NEW r \in Calls, Accounts!SaveUser(r), s2' = s2, s3' = s3, s6' = s6
  PROVE  Accounts!UserInv'
<1>1. s5[r].pc = "register" /\ Accounts!Finish(r)
  BY DEF Accounts!SaveUser, Accounts!At
<1>2. CASE s1' = s1
  BY <1>1, <1>2, UserLeaves
<1>3. CASE s1' # s1
  <2>1. Accounts!KnownCall(r)
    BY DEF Accounts!UserInv
  <2>2. PICK u \in AccountIds : u = s5[r].user
    BY <1>1, <2>1 DEF Accounts!KnownCall
  <2>3. Accounts!KnownRow(s5[r].row) /\ s5[r].row.org = None
    BY <1>1, <2>1 DEF Accounts!KnownCall, Accounts!At
  <2>4. PICK row : row = [s5[r].row EXCEPT !.hash = Accounts!Placeholder]
    OBVIOUS
  <2>5. SameOrg(row, s5[r].row)
    BY <2>3, <2>4, HashSet DEF Accounts!KnownRow
  <2>6. s1' = [s1 EXCEPT ![u] = row]
    BY <1>3, <2>2, <2>4 DEF Accounts!SaveUser, Accounts!UserSave
  <2>7. Accounts!KnownRow(row) /\ row.org = None
    BY <2>3, <2>5, OrgStaysKnown DEF SameOrg
  <2>8. CreatorsStay
    BY DEF CreatorsStay
  <2>9. PICK q : q.pc = "none" /\ UserMove(r, q)
    BY <1>1, <2>8, UserEnds
  <2>10. ClaimsShrink(r)
    BY <2>6, <2>7, <2>9, UserRowWritten, UserAssumption DEF ClaimsShrink, Accounts!Claims, UserMove, Accounts!At
  <2> QED
    BY <1>1, <2>6, <2>7, <2>9, <2>10, UserRowWritten, UserAside
<1> QED
  BY <1>2, <1>3

LEMMA UserWritten ==
  ASSUME Accounts!UserInv, NEW r \in Calls, Accounts!WriteUser(r), s2' = s2, s3' = s3, s6' = s6
  PROVE  Accounts!UserInv'
<1>1. s5[r].pc = "write" /\ Accounts!Finish(r)
  BY DEF Accounts!WriteUser, Accounts!At
<1>2. Accounts!KnownCall(r)
  BY DEF Accounts!UserInv
<1>3. PICK u \in AccountIds : u = s5[r].user
  BY <1>1, <1>2 DEF Accounts!KnownCall
<1>4. Accounts!KnownRow(s5[r].row)
  BY <1>1, <1>2 DEF Accounts!KnownCall
<1>5. PICK row : row = [s5[r].row EXCEPT !.hash = s1[u].hash]
  OBVIOUS
<1>6. SameOrg(row, s5[r].row)
  BY <1>4, <1>5, HashSet DEF Accounts!KnownRow
<1>7. s1' = [s1 EXCEPT ![u] = row]
  BY <1>3, <1>5 DEF Accounts!WriteUser, Accounts!UserUpdate
<1>8. Accounts!KnownRow(row)
  BY <1>4, <1>6, OrgStaysKnown
<1>9. CreatorsStay
  BY DEF CreatorsStay
<1>10. PICK q : q.pc = "none" /\ UserMove(r, q)
  BY <1>1, <1>9, UserEnds
<1>11. ASSUME NEW v \in AccountIds, NEW o \in OrgIds, s1'[v] # None, s1'[v].org = o
       PROVE  Accounts!Claims(v, o)
  <2>1. CASE v = u
    <3>1. s5[r].row.org = o
      BY <1>6, <1>7, <1>8, <1>11, <2>1, UserRowWritten DEF SameOrg
    <3> QED
      BY <1>1, <1>3, <2>1, <3>1 DEF Accounts!Claims, Accounts!At
  <2>2. CASE v # u
    BY <1>7, <1>8, <1>11, <2>2, UserRowWritten DEF Accounts!Claims
  <2> QED
    BY <2>1, <2>2
<1>12. ClaimsShrink(r)
  BY <1>10, <1>11 DEF ClaimsShrink, UserMove, Accounts!At
<1> QED
  BY <1>1, <1>7, <1>8, <1>10, <1>12, UserRowWritten, UserAside

LEMMA RowItself ==
  ASSUME Accounts!UserInv, NEW u \in AccountIds, s1[u] # None
  PROVE  SameOrg(s1[u], s1[u])
BY DEF Accounts!UserInv, Accounts!KnownRow, SameOrg

LEMMA UserChanges ==
  ASSUME Accounts!UserInv, NEW r \in Calls, NEW u \in AccountIds, NEW allowed, NEW row,
         Accounts!Change(r, u, allowed, row), SameOrg(row, s1[u]), s2' = s2, s3' = s3, s6' = s6
  PROVE  Accounts!UserInv'
<1>1. s5[r].pc = "none" /\ s1[u] # None /\ s1' = s1
  BY DEF Accounts!Change, Accounts!At, Accounts!FindByID
<1>2. CASE allowed
  BY <1>1, <1>2, UserLoads DEF Accounts!Change, Accounts!At
<1>3. CASE ~allowed
  BY <1>1, <1>3, UserLeaves DEF Accounts!Change
<1> QED
  BY <1>2, <1>3

LEMMA UserLogsIn ==
  ASSUME Accounts!UserInv, NEW r \in Calls, NEW u \in AccountIds, NEW x, Accounts!Login(r, u, x),
         s2' = s2, s3' = s3, s6' = s6
  PROVE  Accounts!UserInv'
<1>1. Accounts!At(r, "none") /\ s1[u] # None /\ s1' = s1
  BY DEF Accounts!Login, Accounts!FindByID
<1>2. Accounts!Goto(r, [pc |-> "write", user |-> u, row |-> s1[u]])
  BY DEF Accounts!Login, Accounts!FindByID, Accounts!recordFailedAttempt
<1> QED
  BY <1>1, <1>2, RowItself, UserLoads

LEMMA UserAsks ==
  ASSUME Accounts!UserInv, NEW r \in Calls, Accounts!UserRequest(r)
  PROVE  Accounts!UserInv'
<1>0. s2' = s2 /\ s3' = s3 /\ s6' = s6
  BY DEF Accounts!UserRequest
<1>1. CASE Accounts!RegisterHandler(r)
  BY <1>0, <1>1, UserRegisters DEF Accounts!RegisterHandler
<1>2. CASE Accounts!LoginHandler(r)
  BY <1>0, <1>2, UserLogsIn DEF Accounts!LoginHandler
<1>3. CASE Accounts!UpdateProfileHandler(r)
  <2>1. PICK u \in AccountIds : Accounts!Change(r, u, TRUE, s1[u])
    BY <1>3 DEF Accounts!UpdateProfileHandler, Accounts!UpdateProfile, Accounts!FindByID
  <2>2. s1[u] # None
    BY <2>1 DEF Accounts!Change, Accounts!FindByID
  <2> QED
    BY <1>0, <2>1, <2>2, RowItself, UserChanges
<1>4. CASE Accounts!BlockUserHandler(r)
  <2>1. PICK u \in AccountIds : Accounts!BlockUser(r, u)
    BY <1>4 DEF Accounts!BlockUserHandler
  <2>2. Accounts!Change(r, u, s1[u].status # "blocked", [s1[u] EXCEPT !.status = "blocked"])
    BY <2>1 DEF Accounts!BlockUser, Accounts!FindByID, Accounts!Block
  <2>3. SameOrg([s1[u] EXCEPT !.status = "blocked"], s1[u])
    BY <2>2, StatusSet DEF Accounts!UserInv, Accounts!KnownRow, Accounts!Change, Accounts!FindByID
  <2> QED
    BY <1>0, <2>2, <2>3, UserChanges
<1>5. CASE Accounts!UnblockUserHandler(r)
  <2>1. PICK u \in AccountIds : Accounts!UnblockUser(r, u)
    BY <1>5 DEF Accounts!UnblockUserHandler
  <2>2. Accounts!Change(r, u, s1[u].status = "blocked", [s1[u] EXCEPT !.status = "active"])
    BY <2>1 DEF Accounts!UnblockUser, Accounts!FindByID, Accounts!Unblock
  <2>3. SameOrg([s1[u] EXCEPT !.status = "active"], s1[u])
    BY <2>2, StatusSet DEF Accounts!UserInv, Accounts!KnownRow, Accounts!Change, Accounts!FindByID
  <2> QED
    BY <1>0, <2>2, <2>3, UserChanges
<1>6. CASE Accounts!ChangePasswordHandler(r)
  <2>1. PICK u \in AccountIds, x, y \in Secrets : Accounts!ChangeUserPassword(r, u, x, y)
    BY <1>6 DEF Accounts!ChangePasswordHandler
  <2>2. Accounts!Change(r, u, Accounts!VerifyPassword(s1[u], x), [s1[u] EXCEPT !.hash = y])
    BY <2>1 DEF Accounts!ChangeUserPassword, Accounts!FindByID, Accounts!ChangePassword
  <2>3. SameOrg([s1[u] EXCEPT !.hash = y], s1[u])
    BY <2>2, HashSet DEF Accounts!UserInv, Accounts!KnownRow, Accounts!Change, Accounts!FindByID
  <2> QED
    BY <1>0, <2>2, <2>3, UserChanges
<1> QED
  BY <1>1, <1>2, <1>3, <1>4, <1>5, <1>6 DEF Accounts!UserRequest

LEMMA OrgCreated ==
  ASSUME Accounts!UserInv, NEW r \in Calls, NEW u \in AccountIds, NEW o \in OrgIds,
         Accounts!CreateOrganization(r, u, o)
  PROVE  Accounts!UserInv'
<1>1. s1' = s1 /\ s3' = s3 /\ s6' = s6 /\ s5[r].pc = "none" /\ s2[o] = None
  BY DEF Accounts!CreateOrganization, Accounts!At
<1>2. DOMAIN s2' = OrgIds /\ s2'[o] = u /\ \A x \in OrgIds : x # o => s2'[x] = s2[x]
  BY DEF Accounts!CreateOrganization, Accounts!OrgSave, Accounts!NewOrganization, Accounts!UserInv
<1>3. CreatorsStay
  BY <1>1, <1>2 DEF CreatorsStay
<1>4. PICK q : q = [pc |-> "insert", org |-> o, user |-> u, role |-> "owner", rest |-> {u}]
  OBVIOUS
<1>5. q.pc = "insert" /\ q.org = o /\ q.user = u /\ q.role = "owner" /\ q.rest = {u}
  BY <1>4
<1>6. Accounts!Goto(r, q)
  BY <1>4 DEF Accounts!CreateOrganization, Accounts!NewOrganization
<1>7. u # None
  BY UserAssumption
<1>8. s5'[r] = q => Accounts!KnownCall(r)'
  BY <1>2, <1>4, <1>5, <1>7 DEF Accounts!KnownCall, Accounts!At
<1>9. UserMove(r, q)
  BY <1>3, <1>6, <1>8, UserGoes
<1>10. \A c \in Calls : Accounts!KnownCall(c) /\ Accounts!KnownCall(c)'
  BY <1>9 DEF Accounts!UserInv, UserMove
<1>11. ASSUME NEW x \in OrgIds, x # o PROVE ListStays(x)
  <2>1. ~Accounts!WorksOn(r, x) /\ ~Accounts!WorksOn(r, x)' /\ ~Accounts!At(r, "write")'
    BY <1>1, <1>5, <1>9, <1>10, <1>11, Works, WorksNext DEF UserMove, Accounts!At
  <2>2. \A c \in Calls : c # r => (Accounts!WorksOn(c, x)' <=> Accounts!WorksOn(c, x)) /\ s5'[c] = s5[c]
    BY <1>9, <1>10, Works, WorksNext DEF UserMove
  <2>3. \A v \in AccountIds : Accounts!Claims(v, x)' => Accounts!Claims(v, x)
    BY <1>1, <1>2, <1>11, <2>1, <2>2 DEF Accounts!Claims, Accounts!At
  <2> QED
    BY <1>1, <1>2, <1>11, <2>1, <2>2, <2>3 DEF ListStays
<1>12. \A c \in Calls : Accounts!WorksOn(c, o)' => c = r
  <2> SUFFICES ASSUME NEW c \in Calls, Accounts!WorksOn(c, o)', c # r PROVE FALSE
    OBVIOUS
  <2>1. s5[c].pc \in {"delete", "insert"} /\ s5[c].org = o
    BY <1>9, <1>10, WorksNext DEF UserMove
  <2> QED
    BY <1>1, <1>10, <2>1 DEF Accounts!KnownCall
<1>13. Accounts!WorksOn(r, o)'
  BY <1>5, <1>9, <1>10, WorksNext DEF UserMove
<1>14. Accounts!Held(u, o)'
  BY <1>5, <1>9, <1>13 DEF UserMove, Accounts!Held
<1>15. ASSUME NEW v \in AccountIds, Accounts!Claims(v, o)' PROVE v = u
  <2>1. CASE v = s2'[o]
    BY <1>2, <2>1
  <2>2. CASE s1'[v] # None /\ s1'[v].org = o
    BY <1>1, <2>2 DEF Accounts!UserInv, Accounts!KnownRow
  <2>3. ASSUME NEW c \in Calls, Accounts!At(c, "write")' /\ s5'[c].user = v /\ s5'[c].row.org = o
        PROVE  FALSE
    <3>1. c # r
      BY <1>5, <1>9, <2>3 DEF UserMove, Accounts!At
    <3>2. s5[c].pc = "write" /\ s5[c].row.org = o
      BY <1>9, <2>3, <3>1 DEF UserMove, Accounts!At
    <3> QED
      BY <1>1, <1>10, <3>2 DEF Accounts!KnownCall, Accounts!KnownRow
  <2> QED
    BY <1>15, <2>1, <2>2, <2>3 DEF Accounts!Claims
<1>16. Accounts!Listed(o)'
  <2>1. \A v \in AccountIds : Accounts!Claims(v, o)' => Accounts!Held(v, o)'
    BY <1>14, <1>15
  <2>2. s5'[r].user = u /\ ~Accounts!At(r, "delete")'
    BY <1>5, <1>9 DEF UserMove, Accounts!At
  <2>3. Accounts!Held(s5[r].user, o)'
    BY <1>14, <2>2
  <2> QED
    BY <1>12, <2>1, <2>2, <2>3 DEF Accounts!Listed
<1>17. ASSUME NEW x \in OrgIds, s2'[x] # None, x \notin s6' PROVE Accounts!Listed(x)'
  <2>1. CASE x = o
    BY <1>16, <2>1
  <2>2. CASE x # o
    <3>1. Accounts!Listed(x)
      BY <1>1, <1>2, <1>17, <2>2 DEF Accounts!UserInv
    <3> QED
      BY <1>10, <1>11, <2>2, <3>1, ListedStays
  <2> QED
    BY <2>1, <2>2
<1>18. \A x \in OrgIds : s2'[x] # None => s2'[x] \in AccountIds
  BY <1>2 DEF Accounts!UserInv
<1> QED
  BY <1>1, <1>2, <1>3, <1>9, <1>17, <1>18, UserRowsSame, UserTogether

\* The list of another organization than the one a request works on.
LEMMA OtherList ==
  ASSUME Accounts!UserInv, NEW r \in Calls, NEW q, UserMove(r, q), s1' = s1, s2' = s2, NEW x \in OrgIds,
         ~Accounts!WorksOn(r, x), ~Accounts!WorksOn(r, x)', q.pc = "write" => q.row.org # x,
         \A v \in AccountIds : <<x, v>> \in s3' <=> <<x, v>> \in s3
  PROVE  ListStays(x)
<1>1. \A c \in Calls : Accounts!KnownCall(c) /\ Accounts!KnownCall(c)'
  BY DEF Accounts!UserInv, UserMove
<1>2. \A c \in Calls : c # r => (Accounts!WorksOn(c, x)' <=> Accounts!WorksOn(c, x)) /\ s5'[c] = s5[c]
  BY <1>1, Works, WorksNext DEF UserMove
<1>3. \A v \in AccountIds : Accounts!Claims(v, x)' => Accounts!Claims(v, x)
  BY <1>2 DEF UserMove, Accounts!Claims, Accounts!At
<1> QED
  BY <1>2, <1>3 DEF ListStays

LEMMA OrgSame ==
  ASSUME Accounts!UserInv, NEW r \in Calls, NEW q, UserMove(r, q), s1' = s1, s2' = s2, s6 \subseteq s6',
         NEW o \in OrgIds,
         \A x \in OrgIds : x # o => ListStays(x),
         s2[o] # None /\ o \notin s6' /\ Accounts!Listed(o) => Accounts!Listed(o)'
  PROVE  Accounts!UserInv'
<1>1. CreatorsStay
  BY DEF CreatorsStay
<1>2. \A c \in Calls : Accounts!KnownCall(c)
  BY DEF Accounts!UserInv
<1>3. ASSUME NEW x \in OrgIds, s2'[x] # None, x \notin s6' PROVE Accounts!Listed(x)'
  <2>1. Accounts!Listed(x)
    BY <1>3 DEF Accounts!UserInv
  <2>2. CASE x = o
    BY <1>3, <2>1, <2>2
  <2>3. CASE x # o
    BY <1>2, <2>1, <2>3, ListedStays
  <2> QED
    BY <2>2, <2>3
<1>4. DOMAIN s2' = OrgIds /\ \A x \in OrgIds : s2'[x] # None => s2'[x] \in AccountIds
  BY DEF Accounts!UserInv
<1> QED
  BY <1>1, <1>3, <1>4, UserRowsSame, UserTogether

LEMMA MemberAsked ==
  ASSUME Accounts!UserInv, NEW r \in Calls, NEW u \in AccountIds, NEW o \in OrgIds,
         Accounts!AddOrganizationMember(r, u, o)
  PROVE  Accounts!UserInv'
<1>1. s1' = s1 /\ s2' = s2 /\ s3' = s3 /\ s6 \subseteq s6' /\ s5[r].pc = "none" /\ s2[o] # None
  BY DEF Accounts!AddOrganizationMember, Accounts!At
<1>2. CreatorsStay
  BY <1>1 DEF CreatorsStay
<1>3. \A c \in Calls : Accounts!KnownCall(c)
  BY DEF Accounts!UserInv
<1>4. \A x : ~Accounts!WorksOn(r, x)
  BY <1>1 DEF Accounts!WorksOn
<1>5. CASE u \in Accounts!loadMembers(o)
  <2>1. Accounts!Finish(r)
    BY <1>5 DEF Accounts!AddOrganizationMember
  <2>2. PICK q : q.pc = "none" /\ UserMove(r, q)
    BY <1>2, <2>1, UserEnds
  <2>3. \A x : ~Accounts!WorksOn(r, x)'
    BY <2>2 DEF Accounts!WorksOn, UserMove
  <2>4. \A x \in OrgIds : ListStays(x)
    BY <1>1, <1>4, <2>2, <2>3, OtherList
  <2>5. Accounts!Listed(o) => Accounts!Listed(o)'
    BY <1>3, <2>4, ListedStays
  <2> QED
    BY <1>1, <2>2, <2>4, <2>5, OrgSame
<1>6. CASE u \notin Accounts!loadMembers(o)
  <2>1. PICK rest : rest = Accounts!loadMembers(o) \union {u}
    OBVIOUS
  <2>2. PICK q : q = [pc |-> "delete", org |-> o, user |-> u, role |-> "member", rest |-> rest]
    OBVIOUS
  <2>3. q.pc = "delete" /\ q.org = o /\ q.user = u /\ q.role = "member" /\ q.rest = rest
    BY <2>2
  <2>4. Accounts!Goto(r, q)
    BY <1>6, <2>1, <2>2 DEF Accounts!AddOrganizationMember, Accounts!AddMember
  <2>5. s5'[r] = q => Accounts!KnownCall(r)'
    BY <1>1, <2>2, <2>3 DEF Accounts!KnownCall, Accounts!At
  <2>6. UserMove(r, q)
    BY <1>2, <2>4, <2>5, UserGoes
  <2>7. \A x : Accounts!WorksOn(r, x)' <=> x = o
    BY <2>3, <2>6, WorksNext DEF UserMove
  <2>8. \A x \in OrgIds : x # o => ListStays(x)
    BY <1>1, <1>4, <2>3, <2>6, <2>7, OtherList
  <2>9. ASSUME o \notin s6', Accounts!Listed(o) PROVE Accounts!Listed(o)'
    <3>1. \A c \in Calls : ~Accounts!WorksOn(c, o)
      BY <2>9 DEF Accounts!AddOrganizationMember
    <3>2. \A c \in Calls : c # r => ~Accounts!WorksOn(c, o)'
      BY <1>3, <2>6, <3>1, Works, WorksNext DEF UserMove
    <3>3. \A v \in AccountIds : Accounts!Claims(v, o)' => Accounts!Claims(v, o)
      BY <1>1, <2>3, <2>6 DEF UserMove, Accounts!Claims, Accounts!At
    <3>4. \A v \in AccountIds : Accounts!Claims(v, o)' => v \in rest
      BY <2>1, <2>9, <3>1, <3>3 DEF Accounts!Listed, Accounts!Held
    <3>5. \A v \in rest : Accounts!Held(v, o)'
      BY <2>3, <2>6, <2>7 DEF Accounts!Held, UserMove
    <3>6. s5'[r].user = u /\ s5'[r].rest = rest /\ u \in rest
      BY <2>1, <2>3, <2>6 DEF UserMove
    <3>7. Accounts!Held(s5[r].user, o)'
      BY <3>5, <3>6
    <3> QED
      BY <3>2, <3>4, <3>5, <3>6, <3>7 DEF Accounts!Listed
  <2> QED
    BY <1>1, <2>6, <2>8, <2>9, OrgSame
<1> QED
  BY <1>5, <1>6

LEMMA MembersDeleted ==
  ASSUME Accounts!UserInv, NEW r \in Calls, Accounts!DeleteMembers(r)
  PROVE  Accounts!UserInv'
<1>1. s1' = s1 /\ s2' = s2 /\ s6' = s6 /\ s5[r].pc = "delete"
  BY DEF Accounts!DeleteMembers, Accounts!At
<1>2. CreatorsStay
  BY <1>1 DEF CreatorsStay
<1>3. \A c \in Calls : Accounts!KnownCall(c)
  BY DEF Accounts!UserInv
<1>4. PICK o \in OrgIds : o = s5[r].org
  BY <1>1, <1>3 DEF Accounts!KnownCall
<1>5. PICK q : q = [s5[r] EXCEPT !.pc = "insert"]
  OBVIOUS
<1>6. s5[r] = [pc |-> s5[r].pc, org |-> o, user |-> s5[r].user, role |-> s5[r].role, rest |-> s5[r].rest]
  BY <1>1, <1>3, <1>4 DEF Accounts!KnownCall
<1>7. q = [pc |-> "insert", org |-> o, user |-> s5[r].user, role |-> s5[r].role, rest |-> s5[r].rest]
  BY <1>5, <1>6
<1>8. q.pc = "insert" /\ q.org = o /\ q.user = s5[r].user /\ q.role = s5[r].role /\ q.rest = s5[r].rest
  BY <1>7
<1>9. s5'[r] = q => Accounts!KnownCall(r)'
  BY <1>1, <1>3, <1>4, <1>7, <1>8 DEF Accounts!KnownCall, Accounts!At
<1>10. UserMove(r, q)
  BY <1>2, <1>5, <1>9, UserGoes DEF Accounts!DeleteMembers
<1>11. \A x : (Accounts!WorksOn(r, x) <=> x = o) /\ (Accounts!WorksOn(r, x)' <=> x = o)
  BY <1>1, <1>3, <1>4, <1>8, <1>10, Works, WorksNext DEF UserMove
<1>12. \A x \in OrgIds, v \in AccountIds : x # o => (<<x, v>> \in s3' <=> <<x, v>> \in s3)
  <2>1. s3' = {m \in s3 : m[1] # o}
    BY <1>4 DEF Accounts!DeleteMembers, Accounts!deleteMembers
  <2> QED
    BY <2>1
<1>13. \A x \in OrgIds : x # o => ListStays(x)
  BY <1>1, <1>8, <1>10, <1>11, <1>12, OtherList
<1>14. ASSUME Accounts!Listed(o) PROVE Accounts!Listed(o)'
  <2>1. \A c \in Calls : c # r => ~Accounts!WorksOn(c, o)'
    BY <1>3, <1>10, <1>11, <1>14, Works, WorksNext DEF UserMove, Accounts!Listed
  <2>2. \A v \in AccountIds : Accounts!Claims(v, o)' => Accounts!Claims(v, o)
    BY <1>1, <1>8, <1>10 DEF UserMove, Accounts!Claims, Accounts!At
  <2>3. \A v \in s5[r].rest : Accounts!Held(v, o)'
    BY <1>8, <1>10, <1>11 DEF Accounts!Held, UserMove
  <2>4. s5[r].user \in s5[r].rest /\ \A v \in AccountIds : Accounts!Claims(v, o) => v \in s5[r].rest
    BY <1>1, <1>11, <1>14 DEF Accounts!Listed, Accounts!At
  <2>5. s5'[r].user = s5[r].user /\ ~Accounts!At(r, "delete")'
    BY <1>8, <1>10 DEF UserMove, Accounts!At
  <2>6. Accounts!Held(s5[r].user, o)'
    BY <2>3, <2>4, <2>5
  <2> QED
    BY <2>1, <2>2, <2>3, <2>4, <2>5, <2>6 DEF Accounts!Listed
<1> QED
  BY <1>1, <1>10, <1>13, <1>14, OrgSame

LEMMA MemberInserted ==
  ASSUME Accounts!UserInv, NEW r \in Calls, Accounts!InsertMember(r)
  PROVE  Accounts!UserInv'
<1>1. s1' = s1 /\ s2' = s2 /\ s5[r].pc = "insert" /\ s6 \subseteq s6'
  BY DEF Accounts!InsertMember, Accounts!At
<1>2. CreatorsStay
  BY <1>1 DEF CreatorsStay
<1>3. \A c \in Calls : Accounts!KnownCall(c)
  BY DEF Accounts!UserInv
<1>4. PICK o \in OrgIds : o = s5[r].org
  BY <1>1, <1>3 DEF Accounts!KnownCall
<1>5. \A x : Accounts!WorksOn(r, x) <=> x = o
  BY <1>1, <1>3, <1>4, Works
<1>6. ASSUME NEW m \in s5[r].rest, Accounts!saveMember(s5[r].org, m),
             Accounts!Goto(r, [s5[r] EXCEPT !.rest = @ \ {m}]), s6' = s6
      PROVE  Accounts!UserInv'
  <2>1. PICK rest : rest = s5[r].rest \ {m}
    OBVIOUS
  <2>2. PICK q : q = [s5[r] EXCEPT !.rest = rest]
    OBVIOUS
  <2>3. s5[r] = [pc |-> s5[r].pc, org |-> o, user |-> s5[r].user, role |-> s5[r].role, rest |-> s5[r].rest]
    BY <1>1, <1>3, <1>4 DEF Accounts!KnownCall
  <2>4. q = [pc |-> "insert", org |-> o, user |-> s5[r].user, role |-> s5[r].role, rest |-> rest]
    BY <1>1, <2>2, <2>3
  <2>5. q.pc = "insert" /\ q.org = o /\ q.user = s5[r].user /\ q.role = s5[r].role /\ q.rest = rest
    BY <2>4
  <2>6. s5'[r] = q => Accounts!KnownCall(r)'
    BY <1>1, <1>3, <1>4, <2>4, <2>5 DEF Accounts!KnownCall, Accounts!At
  <2>7. Accounts!Goto(r, q)
    BY <1>6, <2>1, <2>2
  <2>8. UserMove(r, q)
    BY <1>2, <2>6, <2>7, UserGoes
  <2>9. \A x : Accounts!WorksOn(r, x)' <=> x = o
    BY <2>5, <2>8, WorksNext DEF UserMove
  <2>10. s3' = s3 \union {<<o, m>>}
    BY <1>4, <1>6 DEF Accounts!saveMember
  <2>11. \A x \in OrgIds : x # o => ListStays(x)
    BY <1>1, <1>5, <2>5, <2>8, <2>9, <2>10, OtherList
  <2>12. ASSUME Accounts!Listed(o) PROVE Accounts!Listed(o)'
    <3>1. \A c \in Calls : c # r => ~Accounts!WorksOn(c, o)
      BY <1>5, <2>12 DEF Accounts!Listed
    <3>2. \A c \in Calls : c # r => ~Accounts!WorksOn(c, o)'
      BY <1>3, <2>8, <3>1, Works, WorksNext DEF UserMove
    <3>3. \A v \in AccountIds : Accounts!Claims(v, o)' => Accounts!Claims(v, o)
      BY <1>1, <2>5, <2>8 DEF UserMove, Accounts!Claims, Accounts!At
    <3>4. ASSUME NEW v \in AccountIds, Accounts!Held(v, o) PROVE Accounts!Held(v, o)'
      <4>1. v \in Accounts!loadMembers(o) => v \in Accounts!loadMembers(o)'
        BY <2>10 DEF Accounts!loadMembers
      <4>2. v = m => v \in Accounts!loadMembers(o)'
        BY <2>10 DEF Accounts!loadMembers
      <4>3. v \in s5[r].rest /\ v # m => v \in s5'[r].rest
        BY <2>1, <2>5, <2>8 DEF UserMove
      <4> QED
        BY <2>9, <3>1, <3>4, <4>1, <4>2, <4>3 DEF Accounts!Held
    <3>5. s5[r].user \in AccountIds /\ Accounts!Held(s5[r].user, o)
      BY <1>1, <1>3, <1>5, <2>12 DEF Accounts!KnownCall, Accounts!Listed
    <3>6. s5'[r].user = s5[r].user /\ ~Accounts!At(r, "delete")'
      BY <2>5, <2>8 DEF UserMove, Accounts!At
    <3>7. Accounts!Held(s5[r].user, o)'
      BY <3>4, <3>5, <3>6
    <3> QED
      BY <2>12, <3>2, <3>3, <3>4, <3>6, <3>7 DEF Accounts!Listed
  <2> QED
    BY <1>1, <2>8, <2>11, <2>12, OrgSame
<1>7. ASSUME Accounts!Finish(r), s6' = s6 \union {s5[r].org}, s3' = s3 PROVE Accounts!UserInv'
  <2>1. PICK q : q.pc = "none" /\ UserMove(r, q)
    BY <1>2, <1>7, UserEnds
  <2>2. \A x : ~Accounts!WorksOn(r, x)'
    BY <2>1 DEF Accounts!WorksOn, UserMove
  <2>3. \A x \in OrgIds : x # o => ListStays(x)
    BY <1>1, <1>5, <1>7, <2>1, <2>2, OtherList
  <2> QED
    BY <1>1, <1>4, <1>7, <2>1, <2>3, OrgSame
<1> QED
  BY <1>6, <1>7 DEF Accounts!InsertMember

LEMMA MemberLoaded ==
  ASSUME Accounts!UserInv, NEW r \in Calls, Accounts!LoadMember(r)
  PROVE  Accounts!UserInv'
<1>1. s1' = s1 /\ s2' = s2 /\ s3' = s3 /\ s6' = s6 /\ s5[r].pc = "insert" /\ s5[r].rest = {}
  BY DEF Accounts!LoadMember, Accounts!At
<1>2. CreatorsStay
  BY <1>1 DEF CreatorsStay
<1>3. \A c \in Calls : Accounts!KnownCall(c)
  BY DEF Accounts!UserInv
<1>4. PICK o \in OrgIds, u \in AccountIds : o = s5[r].org /\ u = s5[r].user
  BY <1>1, <1>3 DEF Accounts!KnownCall
<1>5. \A x : Accounts!WorksOn(r, x) <=> x = o
  BY <1>1, <1>3, <1>4, Works
\* Nobody works on it any more, and only the new member claims more.
<1>6. ASSUME NEW q, UserMove(r, q), q.pc \in {"none", "write"},
             q.pc = "write" => q.user = u /\ q.row.org = o
      PROVE  Accounts!UserInv'
  <2>1. \A x : ~Accounts!WorksOn(r, x)'
    BY <1>6, WorksNext DEF UserMove
  <2>2. \A x \in OrgIds : x # o => ListStays(x)
    BY <1>1, <1>5, <1>6, <2>1, OtherList
  <2>3. ASSUME Accounts!Listed(o) PROVE Accounts!Listed(o)'
    <3>1. \A c \in Calls : c # r => ~Accounts!WorksOn(c, o)
      BY <1>5, <2>3 DEF Accounts!Listed
    <3>2. \A c \in Calls : ~Accounts!WorksOn(c, o)'
      BY <1>3, <1>6, <2>1, <3>1, Works, WorksNext DEF UserMove
    <3>3. \A v : Accounts!Held(v, o) => v \in Accounts!loadMembers(o)
      BY <1>1, <3>1 DEF Accounts!Held
    <3>4. \A v : v \in Accounts!loadMembers(o) => Accounts!Held(v, o)'
      BY <1>1 DEF Accounts!Held, Accounts!loadMembers
    <3>5. Accounts!Held(u, o)
      BY <1>4, <1>5, <2>3 DEF Accounts!Listed
    <3>6. \A v \in AccountIds : Accounts!Claims(v, o)' => Accounts!Claims(v, o) \/ v = u
      BY <1>1, <1>6 DEF UserMove, Accounts!Claims, Accounts!At
    <3>7. \A v \in AccountIds : Accounts!Claims(v, o)' => Accounts!Held(v, o)'
      BY <2>3, <3>3, <3>4, <3>5, <3>6 DEF Accounts!Listed
    <3> QED
      BY <3>2, <3>7 DEF Accounts!Listed
  <2> QED
    BY <1>1, <1>6, <2>2, <2>3, OrgSame
<1>7. CASE s1[u] = None
  <2>1. PICK q : q.pc = "none" /\ UserMove(r, q)
    BY <1>2, <1>4, <1>7, UserEnds DEF Accounts!LoadMember, Accounts!FindByID
  <2> QED
    BY <1>6, <2>1
<1>8. CASE s1[u] # None
  <2>1. s1[u] = [status |-> s1[u].status, hash |-> s1[u].hash, org |-> s1[u].org, roles |-> s1[u].roles]
    BY <1>8 DEF Accounts!UserInv, Accounts!KnownRow
  <2>2. PICK mid : mid = [s1[u] EXCEPT !.org = o]
    OBVIOUS
  <2>3. mid = [status |-> s1[u].status, hash |-> s1[u].hash, org |-> o, roles |-> s1[u].roles]
    BY <2>1, <2>2
  <2>4. PICK roles : roles = mid.roles \union {s5[r].role}
    OBVIOUS
  <2>5. PICK row : row = [mid EXCEPT !.roles = roles]
    OBVIOUS
  <2>6. row = [status |-> s1[u].status, hash |-> s1[u].hash, org |-> o, roles |-> roles]
    BY <2>3, <2>5
  <2>7. row.status = s1[u].status /\ row.hash = s1[u].hash /\ row.org = o /\ row.roles = roles
    BY <2>6
  <2>8. row = Accounts!AssignRole(Accounts!SetOrganization(Accounts!FindByID(u), o), s5[r].role)
    BY <2>2, <2>4, <2>5 DEF Accounts!AssignRole, Accounts!SetOrganization, Accounts!FindByID
  <2>9. PICK q : q = [pc |-> "write", user |-> u, row |-> row]
    OBVIOUS
  <2>10. q.pc = "write" /\ q.user = u /\ q.row = row
    BY <2>9
  <2>11. Accounts!Goto(r, q)
    BY <1>4, <1>8, <2>8, <2>9 DEF Accounts!LoadMember, Accounts!FindByID
  <2>12. s2'[o] # None
    BY <1>1, <1>3, <1>4 DEF Accounts!KnownCall
  <2>13. s5'[r] = q => Accounts!KnownCall(r)'
    BY <2>6, <2>7, <2>9, <2>10, <2>12 DEF Accounts!KnownCall, Accounts!KnownRow, Accounts!At
  <2>14. UserMove(r, q)
    BY <1>2, <2>11, <2>13, UserGoes
  <2> QED
    BY <1>6, <2>7, <2>10, <2>14
<1> QED
  BY <1>7, <1>8

LEMMA UserStepHolds == Accounts!UserInv /\ Accounts!Next => Accounts!UserInv'
<1> SUFFICES ASSUME Accounts!UserInv, Accounts!Next PROVE Accounts!UserInv'
  OBVIOUS
<1>1. PICK r \in Calls : Accounts!UserRequest(r) \/ Accounts!UserStep(r) \/ Accounts!OrgStep(r)
  BY DEF Accounts!Next
<1>2. CASE Accounts!UserRequest(r)
  BY <1>2, UserAsks
<1>3. CASE Accounts!UserStep(r)
  BY <1>3, UserSaved, UserWritten DEF Accounts!UserStep
<1>4. CASE Accounts!OrgStep(r)
  BY <1>4, OrgCreated, MemberAsked, MembersDeleted, MemberInserted, MemberLoaded
     DEF Accounts!OrgStep, Accounts!CreateOrganizationHandler, Accounts!AddOrganizationMemberHandler
<1> QED
  BY <1>1, <1>2, <1>3, <1>4

LEMMA ListsAreKept == Accounts!UserInv => Accounts!MembersAreKept
<1> SUFFICES ASSUME Accounts!UserInv, NEW o \in OrgIds, s2[o] # None, o \notin s6,
                    ~\E r \in Calls : Accounts!WorksOn(r, o)
             PROVE  Accounts!BelongsTo(o) \subseteq Accounts!loadMembers(o)
  BY DEF Accounts!MembersAreKept
<1>1. Accounts!Listed(o) /\ s2[o] \in AccountIds
  BY DEF Accounts!UserInv
<1>2. \A v \in Accounts!BelongsTo(o) : v \in AccountIds /\ Accounts!Claims(v, o)
  BY <1>1 DEF Accounts!BelongsTo, Accounts!Claims
<1> QED
  BY <1>1, <1>2 DEF Accounts!Listed, Accounts!Held
-----------------------------------------------------------------------------
(* Accounts: no row, stored or loaded, says more than was done.            *)
\* What a request carries on to its next statement.
Carries(q, pc, u, row, p, t) ==
  /\ q = [pc |-> pc, user |-> u, row |-> row, password |-> p, token |-> t]
  /\ q.pc = pc /\ q.user = u /\ q.row = row /\ q.password = p /\ q.token = t

LEMMA CarriesThat ==
  ASSUME NEW q, NEW pc, NEW u, NEW row, NEW p, NEW t,
         q = [pc |-> pc, user |-> u, row |-> row, password |-> p, token |-> t]
  PROVE  Carries(q, pc, u, row, p, t)
BY DEF Carries

LEMMA BlankCarries == Carries(AuthService!Blank, "idle", None, None, "", "")
<1>1. AuthService!Blank = [pc |-> "idle", user |-> None, row |-> None, password |-> "", token |-> ""]
  BY DEF AuthService!Blank
<1> QED
  BY <1>1, CarriesThat

LEMMA AuthStart == AuthService!Init => AuthService!AuthInv
<1> SUFFICES ASSUME AuthService!Init PROVE AuthService!AuthInv
  OBVIOUS
<1>1. \A r \in Calls : s7[r] = AuthService!Blank
  BY DEF AuthService!Init
<1>2. \A r \in Calls : Carries(s7[r], "idle", None, None, "", "")
  BY <1>1, BlankCarries
<1>3. \A r \in Calls : AuthService!KnownRequest(r)
  BY <1>2 DEF AuthService!KnownRequest, Carries
<1>4. \A t \in RefreshTokens : s2[t] = [user |-> None, state |-> "none"]
  BY DEF AuthService!Init
<1>5. \A t \in RefreshTokens : AuthService!KnownToken(t)
  BY <1>4 DEF AuthService!KnownToken, AuthService!IsValid
<1> QED
  BY <1>3, <1>5 DEF AuthService!Init, AuthService!AuthInv, AuthService!ResetIsValid, AuthService!VerifyIsValid

\* An account stays, and its failures are not forgotten.
AccountsRemain ==
  \A u \in UserIds : (s1[u] # None => s1'[u] # None) /\ s8[u] <= s8'[u]
AccountsKnown ==
  /\ DOMAIN s1' = UserIds /\ DOMAIN s9' = UserIds /\ s8' \in [UserIds -> Nat]
  /\ \A u \in UserIds : s1'[u] # None => AuthService!Explained(u, s1[u])'
OthersHold(r) ==
  \A c \in Calls : c # r /\ s7[c].pc \in {"failed", "passed"} => s7[c].row.password \in s9'[s7[c].user]
TablesKnown ==
  /\ DOMAIN s2' = RefreshTokens /\ \A t \in RefreshTokens : AuthService!KnownToken(t)'
  /\ DOMAIN s3' = UserIds /\ DOMAIN s4' = UserIds
  /\ \A u \in UserIds : s3'[u] = "valid" \/ s4'[u] = "valid" => s1'[u] # None
  /\ \A u \in s6' : AuthService!Exists(u)'

LEMMA AccountsSame ==
  ASSUME AuthService!AuthInv, s1' = s1, s8' = s8, s9' = s9
  PROVE  AccountsRemain /\ AccountsKnown /\ \A r \in Calls : OthersHold(r)
<1>1. AccountsRemain
  BY DEF AuthService!AuthInv, AccountsRemain
<1>2. AccountsKnown
  BY DEF AuthService!AuthInv, AccountsKnown, AuthService!Explained
<1>3. \A r \in Calls : OthersHold(r)
  BY DEF AuthService!AuthInv, OthersHold, AuthService!KnownRequest, AuthService!Explained
<1> QED
  BY <1>1, <1>2, <1>3

LEMMA AccessSame ==
  ASSUME AuthService!AuthInv, AccountsRemain, s6' = s6
  PROVE  \A u \in s6' : AuthService!Exists(u)'
BY DEF AuthService!AuthInv, AuthService!Exists, AccountsRemain

LEMMA RefreshSame ==
  ASSUME AuthService!AuthInv, s2' = s2
  PROVE  DOMAIN s2' = RefreshTokens /\ \A t \in RefreshTokens : AuthService!KnownToken(t)'
BY DEF AuthService!AuthInv, AuthService!KnownToken, AuthService!IsValid

LEMMA TablesSame ==
  ASSUME AuthService!AuthInv, AccountsRemain, s2' = s2, s3' = s3, s4' = s4, s6' = s6
  PROVE  TablesKnown
BY AccessSame, RefreshSame
   DEF TablesKnown, AuthService!AuthInv, AccountsRemain, AuthService!ResetIsValid, AuthService!VerifyIsValid

LEMMA RequestStays ==
  ASSUME AuthService!AuthInv, AccountsRemain, AccountsKnown, NEW r \in Calls, s7'[r] = s7[r],
         s7[r].pc \in {"failed", "passed"} => s7[r].row.password \in s9'[s7[r].user]
  PROVE  AuthService!KnownRequest(r)'
<1>1. AuthService!KnownRequest(r)
  BY DEF AuthService!AuthInv
<1>2. s7[r].pc \notin {"idle", "create"} => AuthService!Exists(s7[r].user)'
  BY <1>1 DEF AuthService!KnownRequest, AuthService!Exists, AccountsRemain
<1>3. ASSUME s7[r].pc \in {"failed", "passed"}
      PROVE  /\ AuthService!Explained(s7[r].user, s7[r].row)' /\ ~s7[r].row.locked
             /\ s7[r].pc = "failed" => s7[r].row.failed < s8'[s7[r].user]
  <2>1. AuthService!Explained(s7[r].user, s7[r].row) /\ ~s7[r].row.locked /\ s7[r].user \in UserIds
    BY <1>1, <1>3 DEF AuthService!KnownRequest, AuthService!Exists
  <2>2. s7[r].row.failed \in Nat /\ s8[s7[r].user] \in Nat /\ s8'[s7[r].user] \in Nat
        /\ s8[s7[r].user] <= s8'[s7[r].user]
    BY <2>1 DEF AuthService!AuthInv, AuthService!Explained, AuthService!Rows, AccountsRemain, AccountsKnown
  <2>3. s7[r].row.failed <= s8'[s7[r].user]
    BY <2>1, <2>2 DEF AuthService!Explained
  <2>4. s7[r].pc = "failed" => s7[r].row.failed < s8'[s7[r].user]
    BY <1>1, <2>2 DEF AuthService!KnownRequest
  <2> QED
    BY <1>3, <2>1, <2>3, <2>4 DEF AuthService!Explained
<1> QED
  BY <1>1, <1>2, <1>3 DEF AuthService!KnownRequest

LEMMA AuthTogether ==
  ASSUME AuthService!AuthInv, AccountsRemain, AccountsKnown, TablesKnown, NEW r \in Calls, OthersHold(r),
         NEW q, AuthService!Begin(r, q), s7'[r] = q => AuthService!KnownRequest(r)'
  PROVE  AuthService!AuthInv'
<1>1. DOMAIN s7' = Calls /\ s7'[r] = q /\ \A c \in Calls : c # r => s7'[c] = s7[c]
  BY DEF AuthService!AuthInv, AuthService!Begin
<1>2. \A c \in Calls : AuthService!KnownRequest(c)'
  BY <1>1, RequestStays DEF OthersHold
<1> QED
  BY <1>1, <1>2 DEF AuthService!AuthInv, AccountsKnown, TablesKnown, AuthService!ResetIsValid, AuthService!VerifyIsValid

LEMMA AuthAlone ==
  ASSUME AuthService!AuthInv, AccountsRemain, AccountsKnown, TablesKnown, s7' = s7, s9' = s9
  PROVE  AuthService!AuthInv'
<1>1. \A c \in Calls : s7[c].pc \in {"failed", "passed"} => s7[c].row.password \in s9'[s7[c].user]
  BY DEF AuthService!AuthInv, AuthService!KnownRequest, AuthService!Explained
<1>2. \A c \in Calls : AuthService!KnownRequest(c)'
  BY <1>1, RequestStays
<1> QED
  BY <1>2 DEF AuthService!AuthInv, AccountsKnown, TablesKnown, AuthService!ResetIsValid, AuthService!VerifyIsValid

LEMMA AuthEnds ==
  ASSUME AuthService!AuthInv, AccountsRemain, AccountsKnown, TablesKnown, NEW r \in Calls, OthersHold(r),
         AuthService!Done(r)
  PROVE  AuthService!AuthInv'
<1>1. PICK q : q = AuthService!Blank
  OBVIOUS
<1>2. Carries(q, "idle", None, None, "", "")
  BY <1>1, BlankCarries
<1>3. AuthService!Begin(r, q)
  BY <1>1 DEF AuthService!Done, AuthService!Begin
<1>4. s7'[r] = q => AuthService!KnownRequest(r)'
  BY <1>2 DEF AuthService!KnownRequest, Carries
<1> QED
  BY <1>3, <1>4, AuthTogether

LEMMA AuthGoes ==
  ASSUME AuthService!AuthInv, NEW r \in Calls, NEW pc, AuthService!Goto(r, pc)
  PROVE  \E q : AuthService!Begin(r, q)
                /\ Carries(q, pc, s7[r].user, s7[r].row, s7[r].password, s7[r].token)
<1>1. PICK q : q = [s7[r] EXCEPT !.pc = pc]
  OBVIOUS
<1>2. s7[r] = [pc |-> s7[r].pc, user |-> s7[r].user, row |-> s7[r].row,
               password |-> s7[r].password, token |-> s7[r].token]
  BY DEF AuthService!AuthInv, AuthService!KnownRequest
<1>3. q = [pc |-> pc, user |-> s7[r].user, row |-> s7[r].row, password |-> s7[r].password, token |-> s7[r].token]
  BY <1>1, <1>2
<1>4. AuthService!Begin(r, q)
  BY <1>1 DEF AuthService!Goto, AuthService!Begin
<1> QED
  BY <1>3, <1>4, CarriesThat

\* A request that goes on with the same account, and carries no row.
LEMMA AuthGoesOn ==
  ASSUME AuthService!AuthInv, AccountsRemain, AccountsKnown, TablesKnown, NEW r \in Calls, OthersHold(r),
         NEW pc \in {"issue", "revoke", "spend", "verified", "rotate"}, AuthService!Goto(r, pc),
         NEW u, u = s7[r].user, AuthService!Exists(u)'
  PROVE  AuthService!AuthInv'
<1>1. PICK q : AuthService!Begin(r, q) /\ Carries(q, pc, s7[r].user, s7[r].row, s7[r].password, s7[r].token)
  BY AuthGoes
<1>2. s7'[r] = q => AuthService!KnownRequest(r)'
  BY <1>1 DEF AuthService!KnownRequest, Carries, AuthService!Exists
<1> QED
  BY <1>1, <1>2, AuthTogether

LEMMA BlankWith ==
  ASSUME NEW pc, NEW u, NEW p
  PROVE  Carries([AuthService!Blank EXCEPT !.pc = pc, !.user = u, !.password = p], pc, u, None, p, "")
<1>1. AuthService!Blank = [pc |-> "idle", user |-> None, row |-> None, password |-> "", token |-> ""]
  BY DEF AuthService!Blank
<1>2. PICK a : a = [AuthService!Blank EXCEPT !.pc = pc]
  OBVIOUS
<1>3. a = [pc |-> pc, user |-> None, row |-> None, password |-> "", token |-> ""]
  BY <1>1, <1>2
<1>4. PICK b : b = [a EXCEPT !.user = u]
  OBVIOUS
<1>5. b = [pc |-> pc, user |-> u, row |-> None, password |-> "", token |-> ""]
  BY <1>3, <1>4
<1>6. PICK q : q = [b EXCEPT !.password = p]
  OBVIOUS
<1>7. q = [pc |-> pc, user |-> u, row |-> None, password |-> p, token |-> ""]
  BY <1>5, <1>6
<1>8. q = [AuthService!Blank EXCEPT !.pc = pc, !.user = u, !.password = p]
  BY <1>2, <1>4, <1>6
<1> QED
  BY <1>7, <1>8, CarriesThat

\* The row of one account is written.
LEMMA AccountWritten ==
  ASSUME AuthService!AuthInv, NEW u \in UserIds, NEW row, s1' = [s1 EXCEPT ![u] = row], s8' = s8,
         AuthService!Explained(u, row)', DOMAIN s9' = UserIds,
         \A v \in UserIds : v # u => s9'[v] = s9[v]
  PROVE  AccountsRemain /\ AccountsKnown /\ s1'[u] = row /\ s1'[u] # None
<1>1. DOMAIN s1' = UserIds /\ s1'[u] = row /\ \A v \in UserIds : v # u => s1'[v] = s1[v]
  BY DEF AuthService!AuthInv
<1>2. s1'[u] # None
  BY <1>1, AccountAssumption DEF AuthService!Explained
<1>3. AccountsRemain
  BY <1>1, <1>2 DEF AccountsRemain, AuthService!AuthInv
<1>4. ASSUME NEW v \in UserIds, s1'[v] # None PROVE AuthService!Explained(v, s1[v])'
  <2>1. CASE v = u
    BY <1>1, <2>1 DEF AuthService!Explained
  <2>2. CASE v # u
    <3>1. s1'[v] = s1[v] /\ s9'[v] = s9[v] /\ AuthService!Explained(v, s1[v])
      BY <1>1, <1>4, <2>2 DEF AuthService!AuthInv
    <3> QED
      BY <3>1 DEF AuthService!Explained
  <2> QED
    BY <2>1, <2>2
<1> QED
  BY <1>1, <1>2, <1>3, <1>4 DEF AccountsKnown, AuthService!AuthInv

\* Fields of a row.
LEMMA RowSet ==
  ASSUME NEW row \in AuthService!Rows
  PROVE  /\ \A p \in Passwords : LET new == [row EXCEPT !.password = p] IN
              new \in AuthService!Rows /\ new.password = p /\ new.failed = row.failed /\ new.locked = row.locked
         /\ \A n \in Nat : LET new == [row EXCEPT !.failed = n] IN
              new \in AuthService!Rows /\ new.password = row.password /\ new.failed = n /\ new.locked = row.locked
         /\ \A b \in BOOLEAN : LET new == [row EXCEPT !.locked = b] IN
              new \in AuthService!Rows /\ new.password = row.password /\ new.failed = row.failed /\ new.locked = b
         /\ \A b \in BOOLEAN : LET new == [row EXCEPT !.verified = b] IN
              new \in AuthService!Rows /\ new.password = row.password /\ new.failed = row.failed /\ new.locked = row.locked
BY DEF AuthService!Rows

LEMMA AuthRegisters ==
  ASSUME AuthService!AuthInv, NEW r \in Calls, NEW u \in UserIds, NEW p \in Passwords, AuthService!Register(r, u, p)
  PROVE  AuthService!AuthInv'
<1>1. s1' = s1 /\ s2' = s2 /\ s3' = s3 /\ s4' = s4 /\ s6' = s6 /\ s8' = s8 /\ s9' = s9
  BY DEF AuthService!Register, AuthService!tokenVars, AuthService!historyVars
<1>2. AccountsRemain /\ AccountsKnown /\ TablesKnown /\ OthersHold(r)
  BY <1>1, AccountsSame, TablesSame
<1>3. CASE AuthService!Done(r)
  BY <1>2, <1>3, AuthEnds
<1>4. CASE ~AuthService!Done(r)
  <2>1. PICK q : q = [AuthService!Blank EXCEPT !.pc = "create", !.user = u, !.password = p]
    OBVIOUS
  <2>2. AuthService!Begin(r, q)
    BY <1>4, <2>1 DEF AuthService!Register
  <2>3. Carries(q, "create", u, None, p, "")
    BY <2>1, BlankWith
  <2>4. s7'[r] = q => AuthService!KnownRequest(r)'
    BY <2>3 DEF AuthService!KnownRequest, Carries
  <2> QED
    BY <1>2, <2>2, <2>4, AuthTogether
<1> QED
  BY <1>3, <1>4

LEMMA AuthCreates ==
  ASSUME AuthService!AuthInv, NEW r \in Calls, AuthService!RegisterCreate(r)
  PROVE  AuthService!AuthInv'
<1>1. s2' = s2 /\ s3' = s3 /\ s4' = s4 /\ s6' = s6 /\ s8' = s8 /\ s7[r].pc = "create"
  BY DEF AuthService!RegisterCreate, AuthService!tokenVars, AuthService!At
<1>2. PICK u \in UserIds, p \in Passwords : u = s7[r].user /\ p = s7[r].password
  BY <1>1 DEF AuthService!AuthInv, AuthService!KnownRequest
<1>3. CASE s1[u] # None
  <2>1. s1' = s1 /\ s9' = s9 /\ AuthService!Done(r)
    BY <1>2, <1>3 DEF AuthService!RegisterCreate
  <2> QED
    BY <1>1, <2>1, AccountsSame, TablesSame, AuthEnds
<1>4. CASE s1[u] = None
  <2>1. PICK row : row = AuthService!NewUser(p)
    OBVIOUS
  <2>2. s1' = [s1 EXCEPT ![u] = row] /\ s9' = [s9 EXCEPT ![u] = {p}] /\ AuthService!Goto(r, "issue")
    BY <1>2, <1>4, <2>1 DEF AuthService!RegisterCreate, AuthService!Create
  <2>3. DOMAIN s9' = UserIds /\ s9'[u] = {p} /\ \A v \in UserIds : v # u => s9'[v] = s9[v]
    BY <2>2 DEF AuthService!AuthInv
  <2>4. row \in AuthService!Rows /\ row.password = p /\ row.failed = 0 /\ row.locked = FALSE
    BY <2>1 DEF AuthService!NewUser, AuthService!Rows
  <2>5. s8'[u] \in Nat
    BY <1>1 DEF AuthService!AuthInv
  <2>6. AuthService!Explained(u, row)'
    BY <2>3, <2>4, <2>5 DEF AuthService!Explained
  <2>7. AccountsRemain /\ AccountsKnown /\ s1'[u] # None
    BY <1>1, <2>2, <2>3, <2>6, AccountWritten
  <2>8. \A c \in Calls : s7[c].pc \in {"failed", "passed"} => s7[c].user \in UserIds /\ s7[c].user # u
                                  /\ s7[c].row.password \in s9[s7[c].user]
    BY <1>4 DEF AuthService!AuthInv, AuthService!KnownRequest, AuthService!Exists, AuthService!Explained
  <2>9. OthersHold(r)
    BY <2>3, <2>8 DEF OthersHold
  <2>10. AuthService!Exists(u)'
    BY <2>7 DEF AuthService!Exists
  <2> QED
    BY <1>1, <1>2, <2>2, <2>7, <2>9, <2>10, TablesSame, AuthGoesOn
<1> QED
  BY <1>3, <1>4

\* What the check of a login says of the row.
LEMMA CheckSays ==
  ASSUME NEW row, NEW p, row # None => row \in AuthService!Rows
  PROVE  /\ AuthService!LoginCheck(row, p) \in {"refused", "locked", "wrong", "ok"}
         /\ AuthService!LoginCheck(row, p) \in {"wrong", "ok"} => row \in AuthService!Rows /\ row.locked = FALSE
<1>1. CASE row = None
  <2>1. AuthService!LoginCheck(row, p) = "refused"
    BY <1>1 DEF AuthService!LoginCheck
  <2> QED
    BY <2>1
<1>2. CASE row # None /\ row.locked
  <2>1. AuthService!LoginCheck(row, p) = "locked"
    BY <1>2 DEF AuthService!LoginCheck
  <2> QED
    BY <2>1
<1>3. CASE row # None /\ ~row.locked
  <2>1. row \in AuthService!Rows /\ row.locked = FALSE
    BY <1>3 DEF AuthService!Rows
  <2>2. AuthService!LoginCheck(row, p) \in {"refused", "wrong", "ok"}
    BY <1>3 DEF AuthService!LoginCheck
  <2> QED
    BY <2>1, <2>2
<1> QED
  BY <1>1, <1>2, <1>3

LEMMA BlankLoaded ==
  ASSUME NEW pc, NEW u, NEW row
  PROVE  Carries([AuthService!Blank EXCEPT !.pc = pc, !.user = u, !.row = row], pc, u, row, "", "")
<1>1. AuthService!Blank = [pc |-> "idle", user |-> None, row |-> None, password |-> "", token |-> ""]
  BY DEF AuthService!Blank
<1>2. PICK a : a = [AuthService!Blank EXCEPT !.pc = pc]
  OBVIOUS
<1>3. a = [pc |-> pc, user |-> None, row |-> None, password |-> "", token |-> ""]
  BY <1>1, <1>2
<1>4. PICK b : b = [a EXCEPT !.user = u]
  OBVIOUS
<1>5. b = [pc |-> pc, user |-> u, row |-> None, password |-> "", token |-> ""]
  BY <1>3, <1>4
<1>6. PICK q : q = [b EXCEPT !.row = row]
  OBVIOUS
<1>7. q = [pc |-> pc, user |-> u, row |-> row, password |-> "", token |-> ""]
  BY <1>5, <1>6
<1>8. q = [AuthService!Blank EXCEPT !.pc = pc, !.user = u, !.row = row]
  BY <1>2, <1>4, <1>6
<1> QED
  BY <1>7, <1>8, CarriesThat

LEMMA AuthLogsIn ==
  ASSUME AuthService!AuthInv, NEW r \in Calls, NEW u \in UserIds, NEW p \in Passwords, AuthService!Login(r, u, p)
  PROVE  AuthService!AuthInv'
<1>1. s1' = s1 /\ s2' = s2 /\ s3' = s3 /\ s4' = s4 /\ s6' = s6 /\ s9' = s9
  BY DEF AuthService!Login, AuthService!tokenVars
<1>2. PICK check : check = AuthService!LoginCheck(s1[u], p)
  OBVIOUS
<1>3. s1[u] # None => AuthService!Explained(u, s1[u])
  BY DEF AuthService!AuthInv
<1>4. check \in {"refused", "locked", "wrong", "ok"} /\
      (check \in {"wrong", "ok"} => AuthService!Explained(u, s1[u]) /\ s1[u].locked = FALSE /\ s1[u] # None)
  BY <1>2, <1>3, CheckSays, AccountAssumption DEF AuthService!Explained
<1>5. PICK n : n = IF check = "wrong" THEN s8[u] + 1 ELSE s8[u]
  OBVIOUS
<1>6. s8' = [s8 EXCEPT ![u] = n]
  BY <1>2, <1>5 DEF AuthService!Login, AuthService!FindByEmail
<1>7. s8[u] \in Nat /\ n \in Nat /\ s8[u] <= n /\ (check = "wrong" => s8[u] < n)
  BY <1>5 DEF AuthService!AuthInv
<1>8. s8' \in [UserIds -> Nat] /\ s8'[u] = n /\ \A v \in UserIds : s8[v] <= s8'[v]
  BY <1>6, <1>7 DEF AuthService!AuthInv
<1>9. AccountsRemain
  BY <1>1, <1>8 DEF AccountsRemain
<1>10. AccountsKnown
  <2>1. ASSUME NEW v \in UserIds, s1[v] # None PROVE AuthService!Explained(v, s1[v])'
    <3>1. AuthService!Explained(v, s1[v])
      BY <2>1 DEF AuthService!AuthInv
    <3>2. s1[v].failed \in Nat /\ s8[v] \in Nat /\ s8'[v] \in Nat /\ s8[v] <= s8'[v]
      BY <1>8, <3>1 DEF AuthService!Explained, AuthService!Rows, AuthService!AuthInv
    <3> QED
      BY <1>1, <3>1, <3>2 DEF AuthService!Explained
  <2> QED
    BY <1>1, <1>8, <2>1 DEF AccountsKnown, AuthService!AuthInv
<1>11. TablesKnown
  BY <1>1, <1>9, TablesSame
<1>12. OthersHold(r)
  BY <1>1 DEF AuthService!AuthInv, OthersHold, AuthService!KnownRequest, AuthService!Explained
<1>13. CASE check \in {"locked", "refused"}
  BY <1>2, <1>9, <1>10, <1>11, <1>12, <1>13, AuthEnds DEF AuthService!Login, AuthService!FindByEmail
<1>14. ASSUME NEW pc \in {"failed", "passed"}, check \in {"wrong", "ok"}, pc = "failed" => check = "wrong",
              AuthService!Begin(r, [AuthService!Blank EXCEPT !.pc = pc, !.user = u, !.row = s1[u]])
       PROVE  AuthService!AuthInv'
  <2>1. PICK q : q = [AuthService!Blank EXCEPT !.pc = pc, !.user = u, !.row = s1[u]]
    OBVIOUS
  <2>2. Carries(q, pc, u, s1[u], "", "")
    BY <2>1, BlankLoaded
  <2>3. AuthService!Exists(u)' /\ AuthService!Explained(u, s1[u])'
    BY <1>1, <1>4, <1>10, <1>14 DEF AuthService!Exists, AccountsKnown
  <2>4. s1[u].failed \in Nat /\ s1[u].failed <= s8[u]
    BY <1>4, <1>14 DEF AuthService!Explained, AuthService!Rows
  <2>5. pc = "failed" => s1[u].failed < s8'[u]
    BY <1>7, <1>8, <1>14, <2>4
  <2>6. AuthService!Explained(u, q.row)'
    BY <1>1, <2>2, <2>3 DEF Carries, AuthService!Explained
  <2>7. s7'[r] = q => AuthService!KnownRequest(r)'
    BY <1>4, <1>14, <2>2, <2>3, <2>5, <2>6 DEF AuthService!KnownRequest, Carries, AuthService!Explained
  <2>8. AuthService!Begin(r, q)
    BY <1>14, <2>1
  <2> QED
    BY <1>9, <1>10, <1>11, <1>12, <2>7, <2>8, AuthTogether
<1>15. CASE check = "wrong"
  <2>1. AuthService!Begin(r, [AuthService!Blank EXCEPT !.pc = "failed", !.user = u, !.row = s1[u]])
    BY <1>2, <1>15 DEF AuthService!Login, AuthService!FindByEmail
  <2> QED
    BY <1>14, <1>15, <2>1
<1>16. CASE check = "ok"
  <2>1. AuthService!Begin(r, [AuthService!Blank EXCEPT !.pc = "passed", !.user = u, !.row = s1[u]])
    BY <1>2, <1>16 DEF AuthService!Login, AuthService!FindByEmail
  <2> QED
    BY <1>14, <1>16, <2>1
<1> QED
  BY <1>4, <1>13, <1>15, <1>16

\* Where a request of a login stands.
LEMMA LoginAt ==
  ASSUME AuthService!AuthInv, NEW r \in Calls, s7[r].pc \in {"failed", "passed"}
  PROVE  /\ s7[r].user \in UserIds /\ AuthService!Exists(s7[r].user)
         /\ AuthService!Explained(s7[r].user, s7[r].row) /\ s7[r].row \in AuthService!Rows
         /\ s7[r].row.locked = FALSE /\ s7[r].row.failed \in Nat
         /\ s7[r].pc = "failed" => s7[r].row.failed < s8[s7[r].user]
BY DEF AuthService!AuthInv, AuthService!KnownRequest, AuthService!Exists, AuthService!Explained, AuthService!Rows

LEMMA RowsHold ==
  ASSUME AuthService!AuthInv, s9' = s9, NEW r \in Calls
  PROVE  OthersHold(r)
BY DEF AuthService!AuthInv, OthersHold, AuthService!KnownRequest, AuthService!Explained

LEMMA AuthFails ==
  ASSUME AuthService!AuthInv, NEW r \in Calls, AuthService!handleFailedLogin(r)
  PROVE  AuthService!AuthInv'
<1>1. /\ s2' = s2 /\ s3' = s3 /\ s4' = s4 /\ s6' = s6 /\ s8' = s8 /\ s9' = s9
      /\ s7[r].pc = "failed" /\ AuthService!Done(r)
  BY DEF AuthService!handleFailedLogin, AuthService!tokenVars, AuthService!historyVars, AuthService!At
<1>2. PICK u \in UserIds, old \in AuthService!Rows : u = s7[r].user /\ old = s7[r].row
  BY <1>1, LoginAt
<1>3. old.failed \in Nat /\ old.locked = FALSE /\ AuthService!Explained(u, old) /\ old.failed < s8[u] /\ s8[u] \in Nat
  BY <1>1, <1>2, LoginAt DEF AuthService!AuthInv
<1>4. PICK b \in BOOLEAN : b <=> old.failed + 1 >= MaxLoginAttempts
  OBVIOUS
<1>5. PICK mid : mid = [old EXCEPT !.failed = old.failed + 1]
  OBVIOUS
<1>6. mid \in AuthService!Rows /\ mid.password = old.password /\ mid.failed = old.failed + 1 /\ mid.locked = FALSE
  BY <1>3, <1>5, RowSet
<1>7. PICK row : row = [mid EXCEPT !.locked = b]
  OBVIOUS
<1>8. row \in AuthService!Rows /\ row.password = old.password /\ row.failed = old.failed + 1 /\ row.locked = b
  BY <1>6, <1>7, RowSet
<1>9. row = AuthService!FailedRow(old)
  BY <1>3, <1>4, <1>5, <1>7 DEF AuthService!FailedRow
<1>10. s1' = [s1 EXCEPT ![u] = row]
  BY <1>2, <1>9 DEF AuthService!handleFailedLogin, AuthService!Update
<1>11. AuthService!Explained(u, row)'
  BY <1>1, <1>3, <1>4, <1>8, AccountAssumption DEF AuthService!Explained
<1>12. DOMAIN s9' = UserIds
  BY <1>1 DEF AuthService!AuthInv
<1>13. AccountsRemain /\ AccountsKnown
  BY <1>1, <1>10, <1>11, <1>12, AccountWritten
<1> QED
  BY <1>1, <1>13, RowsHold, TablesSame, AuthEnds

LEMMA AuthPasses ==
  ASSUME AuthService!AuthInv, NEW r \in Calls, AuthService!LoginUpdate(r)
  PROVE  AuthService!AuthInv'
<1>1. /\ s2' = s2 /\ s3' = s3 /\ s4' = s4 /\ s6' = s6 /\ s8' = s8 /\ s9' = s9
      /\ s7[r].pc = "passed" /\ AuthService!Goto(r, "issue")
  BY DEF AuthService!LoginUpdate, AuthService!tokenVars, AuthService!historyVars, AuthService!At
<1>2. PICK u \in UserIds, old \in AuthService!Rows : u = s7[r].user /\ old = s7[r].row
  BY <1>1, LoginAt
<1>3. AuthService!Explained(u, old) /\ s8[u] \in Nat
  BY <1>1, <1>2, LoginAt DEF AuthService!AuthInv
<1>4. PICK mid : mid = [old EXCEPT !.failed = 0]
  OBVIOUS
<1>5. mid \in AuthService!Rows /\ mid.password = old.password /\ mid.failed = 0
  BY <1>4, RowSet
<1>6. PICK no \in BOOLEAN : no = FALSE
  OBVIOUS
<1>7. PICK row : row = [mid EXCEPT !.locked = no]
  OBVIOUS
<1>8. row \in AuthService!Rows /\ row.password = old.password /\ row.failed = 0 /\ row.locked = no
  BY <1>5, <1>7, RowSet
<1>9. s1' = [s1 EXCEPT ![u] = row]
  <2>1. row = [old EXCEPT !.failed = 0, !.locked = FALSE]
    BY <1>4, <1>6, <1>7
  <2> QED
    BY <1>2, <2>1 DEF AuthService!LoginUpdate, AuthService!Update
<1>10. AuthService!Explained(u, row)'
  BY <1>1, <1>3, <1>6, <1>8 DEF AuthService!Explained
<1>11. DOMAIN s9' = UserIds
  BY <1>1 DEF AuthService!AuthInv
<1>12. AccountsRemain /\ AccountsKnown /\ s1'[u] # None
  BY <1>1, <1>9, <1>10, <1>11, AccountWritten
<1>13. AuthService!Exists(u)'
  BY <1>12 DEF AuthService!Exists
<1> QED
  BY <1>1, <1>2, <1>12, <1>13, RowsHold, TablesSame, AuthGoesOn

\* A refresh token is written or ended.
LEMMA TokenWritten ==
  ASSUME AuthService!AuthInv, NEW t, NEW token, token = [user |-> token.user, state |-> token.state],
         token.state = "valid" => token.user \in UserIds, s2' = [s2 EXCEPT ![t] = token]
  PROVE  DOMAIN s2' = RefreshTokens /\ \A x \in RefreshTokens : AuthService!KnownToken(x)'
<1>1. DOMAIN s2' = RefreshTokens /\ \A x \in RefreshTokens : s2'[x] = IF x = t THEN token ELSE s2[x]
  BY DEF AuthService!AuthInv
<1>2. ASSUME NEW x \in RefreshTokens PROVE AuthService!KnownToken(x)'
  <2>1. CASE x = t
    BY <1>1, <2>1 DEF AuthService!KnownToken, AuthService!IsValid
  <2>2. CASE x # t
    BY <1>1, <2>2 DEF AuthService!AuthInv, AuthService!KnownToken, AuthService!IsValid
  <2> QED
    BY <2>1, <2>2
<1> QED
  BY <1>1, <1>2

LEMMA TokenMoved ==
  ASSUME AuthService!AuthInv, NEW t \in RefreshTokens, NEW state, state = "valid" => s2[t].state = "valid",
         s2' = [s2 EXCEPT ![t].state = state]
  PROVE  DOMAIN s2' = RefreshTokens /\ \A x \in RefreshTokens : AuthService!KnownToken(x)'
<1>1. AuthService!KnownToken(t)
  BY DEF AuthService!AuthInv
<1>2. PICK token : token = [s2[t] EXCEPT !.state = state]
  OBVIOUS
<1>3. token = [user |-> s2[t].user, state |-> state]
  BY <1>1, <1>2 DEF AuthService!KnownToken
<1>4. token.user = s2[t].user /\ token.state = state
  BY <1>3
<1>5. s2' = [s2 EXCEPT ![t] = token]
  BY <1>2
<1> QED
  BY <1>1, <1>3, <1>4, <1>5, TokenWritten DEF AuthService!KnownToken, AuthService!IsValid

LEMMA TokenRevoked ==
  ASSUME AuthService!AuthInv, NEW t, AuthService!RevokeRefreshToken(t)
  PROVE  DOMAIN s2' = RefreshTokens /\ \A x \in RefreshTokens : AuthService!KnownToken(x)'
<1>1. CASE t \in RefreshTokens
  <2>1. PICK state : state = IF s2[t].state = "none" THEN s2[t].state ELSE "ended"
    OBVIOUS
  <2>2. s2' = [s2 EXCEPT ![t].state = state]
    BY <2>1 DEF AuthService!RevokeRefreshToken
  <2> QED
    BY <1>1, <2>1, <2>2, TokenMoved
<1>2. CASE t \notin RefreshTokens
  <2>1. t \notin DOMAIN s2
    BY <1>2 DEF AuthService!AuthInv
  <2>2. DOMAIN s2' = RefreshTokens /\ \A x \in RefreshTokens : s2'[x] = s2[x]
    BY <1>2, <2>1 DEF AuthService!RevokeRefreshToken, AuthService!AuthInv
  <2> QED
    BY <2>2 DEF AuthService!AuthInv, AuthService!KnownToken, AuthService!IsValid
<1> QED
  BY <1>1, <1>2

\* The tables when the accounts stay and each of them is known.
LEMMA TablesOf ==
  ASSUME AuthService!AuthInv, AccountsRemain,
         DOMAIN s2' = RefreshTokens /\ \A x \in RefreshTokens : AuthService!KnownToken(x)',
         DOMAIN s3' = UserIds, DOMAIN s4' = UserIds,
         \A u \in UserIds : s3'[u] = "valid" => s3[u] = "valid" \/ s1[u] # None,
         \A u \in UserIds : s4'[u] = "valid" => s4[u] = "valid" \/ s1[u] # None,
         \A u \in s6' : AuthService!Exists(u)'
  PROVE  TablesKnown
BY DEF TablesKnown, AuthService!AuthInv, AccountsRemain, AuthService!ResetIsValid, AuthService!VerifyIsValid

LEMMA ResetVerifySame ==
  ASSUME AuthService!AuthInv
  PROVE  /\ s3' = s3 => DOMAIN s3' = UserIds /\ \A u \in UserIds : s3'[u] = "valid" => s3[u] = "valid"
         /\ s4' = s4 => DOMAIN s4' = UserIds /\ \A u \in UserIds : s4'[u] = "valid" => s4[u] = "valid"
BY DEF AuthService!AuthInv

LEMMA AuthIssues ==
  ASSUME AuthService!AuthInv, NEW r \in Calls, AuthService!generateTokenPair(r)
  PROVE  AuthService!AuthInv'
<1>1. /\ s1' = s1 /\ s3' = s3 /\ s4' = s4 /\ s8' = s8 /\ s9' = s9
      /\ s7[r].pc = "issue" /\ AuthService!Done(r) /\ s6' = s6 \union {s7[r].user}
  BY DEF AuthService!generateTokenPair, AuthService!historyVars, AuthService!At
<1>2. AccountsRemain /\ AccountsKnown /\ OthersHold(r)
  BY <1>1, AccountsSame
<1>3. PICK u \in UserIds : u = s7[r].user /\ s1[u] # None
  BY <1>1 DEF AuthService!AuthInv, AuthService!KnownRequest, AuthService!Exists
<1>4. PICK t \in RefreshTokens : s2' = [s2 EXCEPT ![t] = [user |-> u, state |-> "valid"]]
  BY <1>3 DEF AuthService!generateTokenPair, AuthService!SaveRefreshToken
<1>5. PICK token : token = [user |-> u, state |-> "valid"]
  OBVIOUS
<1>6. token.user = u /\ token.state = "valid"
  BY <1>5
<1>7. DOMAIN s2' = RefreshTokens /\ \A x \in RefreshTokens : AuthService!KnownToken(x)'
  BY <1>4, <1>5, <1>6, TokenWritten
<1>8. \A x \in s6' : AuthService!Exists(x)'
  BY <1>1, <1>3 DEF AuthService!AuthInv, AuthService!Exists
<1>9. TablesKnown
  BY <1>1, <1>2, <1>7, <1>8, ResetVerifySame, TablesOf
<1> QED
  BY <1>1, <1>2, <1>9, AuthEnds

LEMMA BlankToken ==
  ASSUME NEW pc, NEW u, NEW t
  PROVE  Carries([AuthService!Blank EXCEPT !.pc = pc, !.user = u, !.token = t], pc, u, None, "", t)
<1>1. AuthService!Blank = [pc |-> "idle", user |-> None, row |-> None, password |-> "", token |-> ""]
  BY DEF AuthService!Blank
<1>2. PICK a : a = [AuthService!Blank EXCEPT !.pc = pc]
  OBVIOUS
<1>3. a = [pc |-> pc, user |-> None, row |-> None, password |-> "", token |-> ""]
  BY <1>1, <1>2
<1>4. PICK b : b = [a EXCEPT !.user = u]
  OBVIOUS
<1>5. b = [pc |-> pc, user |-> u, row |-> None, password |-> "", token |-> ""]
  BY <1>3, <1>4
<1>6. PICK q : q = [b EXCEPT !.token = t]
  OBVIOUS
<1>7. q = [pc |-> pc, user |-> u, row |-> None, password |-> "", token |-> t]
  BY <1>5, <1>6
<1>8. q = [AuthService!Blank EXCEPT !.pc = pc, !.user = u, !.token = t]
  BY <1>2, <1>4, <1>6
<1> QED
  BY <1>7, <1>8, CarriesThat

LEMMA AuthRefreshes ==
  ASSUME AuthService!AuthInv, NEW r \in Calls, NEW t \in RefreshTokens, AuthService!RefreshTokensOf(r, t)
  PROVE  AuthService!AuthInv'
<1>1. s1' = s1 /\ s2' = s2 /\ s3' = s3 /\ s4' = s4 /\ s6' = s6 /\ s8' = s8 /\ s9' = s9
  BY DEF AuthService!RefreshTokensOf, AuthService!tokenVars, AuthService!historyVars
<1>2. AccountsRemain /\ AccountsKnown /\ TablesKnown /\ OthersHold(r)
  BY <1>1, AccountsSame, TablesSame
<1>3. CASE ~AuthService!IsValid(s2[t]) \/ s1[s2[t].user] = None
  BY <1>2, <1>3, AuthEnds DEF AuthService!RefreshTokensOf, AuthService!FindRefreshToken, AuthService!FindByID
<1>4. CASE ~(~AuthService!IsValid(s2[t]) \/ s1[s2[t].user] = None)
  <2>1. PICK u \in UserIds : u = s2[t].user /\ s1[u] # None
    BY <1>4 DEF AuthService!AuthInv, AuthService!KnownToken
  <2>2. PICK q : q = [AuthService!Blank EXCEPT !.pc = "rotate", !.user = u, !.token = t]
    OBVIOUS
  <2>3. Carries(q, "rotate", u, None, "", t)
    BY <2>2, BlankToken
  <2>8. AuthService!Begin(r, q)
    BY <1>4, <2>1, <2>2 DEF AuthService!RefreshTokensOf, AuthService!FindRefreshToken, AuthService!FindByID
  <2>9. s7'[r] = q => AuthService!KnownRequest(r)'
    BY <1>1, <2>1, <2>3 DEF AuthService!KnownRequest, Carries, AuthService!Exists
  <2> QED
    BY <1>2, <2>8, <2>9, AuthTogether
<1> QED
  BY <1>3, <1>4

LEMMA AuthRotates ==
  ASSUME AuthService!AuthInv, NEW r \in Calls, AuthService!RefreshRevoke(r)
  PROVE  AuthService!AuthInv'
<1>1. /\ s1' = s1 /\ s3' = s3 /\ s4' = s4 /\ s6' = s6 /\ s8' = s8 /\ s9' = s9
      /\ s7[r].pc = "rotate" /\ AuthService!Goto(r, "issue")
  BY DEF AuthService!RefreshRevoke, AuthService!historyVars, AuthService!At
<1>2. AccountsRemain /\ AccountsKnown /\ OthersHold(r)
  BY <1>1, AccountsSame
<1>3. DOMAIN s2' = RefreshTokens /\ \A x \in RefreshTokens : AuthService!KnownToken(x)'
  BY TokenRevoked DEF AuthService!RefreshRevoke
<1>4. TablesKnown
  BY <1>1, <1>2, <1>3, AccessSame, ResetVerifySame, TablesOf
<1>5. PICK u : u = s7[r].user
  OBVIOUS
<1>6. AuthService!Exists(u)'
  BY <1>1, <1>5 DEF AuthService!AuthInv, AuthService!KnownRequest, AuthService!Exists
<1> QED
  BY <1>1, <1>2, <1>4, <1>5, <1>6, AuthGoesOn

LEMMA AuthLogsOut ==
  ASSUME AuthService!AuthInv, NEW t \in RefreshTokens, AuthService!LogoutSession(t)
  PROVE  AuthService!AuthInv'
<1>1. s1' = s1 /\ s3' = s3 /\ s4' = s4 /\ s6' = s6 /\ s7' = s7 /\ s8' = s8 /\ s9' = s9
  BY DEF AuthService!LogoutSession, AuthService!historyVars
<1>2. AccountsRemain /\ AccountsKnown
  BY <1>1, AccountsSame
<1>3. DOMAIN s2' = RefreshTokens /\ \A x \in RefreshTokens : AuthService!KnownToken(x)'
  BY TokenRevoked DEF AuthService!LogoutSession
<1>4. TablesKnown
  BY <1>1, <1>2, <1>3, AccessSame, ResetVerifySame, TablesOf
<1> QED
  BY <1>1, <1>2, <1>4, AuthAlone

\* A change or a reset of a password is accepted, and written.
LEMMA PasswordAccepted ==
  ASSUME AuthService!AuthInv, NEW r \in Calls, NEW u \in UserIds, s1[u] # None, NEW p \in Passwords,
         NEW pc \in {"change", "reset"},
         AuthService!Begin(r, [AuthService!Blank EXCEPT !.pc = pc, !.user = u, !.password = p]),
         s1' = s1, s2' = s2, s3' = s3, s4' = s4, s6' = s6, s8' = s8, s9' = s9
  PROVE  AuthService!AuthInv'
<1>1. AccountsRemain /\ AccountsKnown /\ TablesKnown /\ OthersHold(r)
  BY AccountsSame, TablesSame
<1>2. PICK q : q = [AuthService!Blank EXCEPT !.pc = pc, !.user = u, !.password = p]
  OBVIOUS
<1>3. Carries(q, pc, u, None, p, "")
  BY <1>2, BlankWith
<1>4. s7'[r] = q => AuthService!KnownRequest(r)'
  BY <1>3 DEF AuthService!KnownRequest, Carries, AuthService!Exists
<1>5. AuthService!Begin(r, q)
  BY <1>2
<1> QED
  BY <1>1, <1>4, <1>5, AuthTogether

LEMMA AuthChanges ==
  ASSUME AuthService!AuthInv, NEW r \in Calls, NEW u \in s6, NEW p \in Passwords, NEW new \in Passwords,
         AuthService!ChangePassword(r, u, p, new)
  PROVE  AuthService!AuthInv'
<1>1. s1' = s1 /\ s2' = s2 /\ s3' = s3 /\ s4' = s4 /\ s6' = s6 /\ s8' = s8 /\ s9' = s9
  BY DEF AuthService!ChangePassword, AuthService!tokenVars, AuthService!historyVars
<1>2. u \in UserIds /\ s1[u] # None
  BY DEF AuthService!AuthInv, AuthService!Exists
<1>3. CASE AuthService!Done(r)
  BY <1>1, <1>3, AccountsSame, TablesSame, AuthEnds
<1>4. CASE ~AuthService!Done(r)
  BY <1>1, <1>2, <1>4, PasswordAccepted DEF AuthService!ChangePassword
<1> QED
  BY <1>3, <1>4

LEMMA AuthResets ==
  ASSUME AuthService!AuthInv, NEW r \in Calls, NEW u \in UserIds, NEW new \in Passwords,
         AuthService!ResetPassword(r, u, new)
  PROVE  AuthService!AuthInv'
<1>1. s1' = s1 /\ s2' = s2 /\ s3' = s3 /\ s4' = s4 /\ s6' = s6 /\ s8' = s8 /\ s9' = s9
  BY DEF AuthService!ResetPassword, AuthService!tokenVars, AuthService!historyVars
<1>2. CASE ~AuthService!ResetIsValid(u)
  BY <1>1, <1>2, AccountsSame, TablesSame, AuthEnds DEF AuthService!ResetPassword
<1>3. CASE AuthService!ResetIsValid(u)
  <2>1. s1[u] # None
    BY <1>3 DEF AuthService!AuthInv
  <2> QED
    BY <1>1, <1>3, <2>1, PasswordAccepted DEF AuthService!ResetPassword
<1> QED
  BY <1>2, <1>3

LEMMA PasswordWritten ==
  ASSUME AuthService!AuthInv, NEW r \in Calls, NEW u, u = s7[r].user, s7[r].pc \in {"change", "reset"},
         AuthService!UpdatePassword(u, s7[r].password), s8' = s8
  PROVE  AccountsRemain /\ AccountsKnown /\ OthersHold(r) /\ AuthService!Exists(u)'
<1>1. u \in UserIds /\ s1[u] # None /\ s7[r].password \in Passwords
  BY DEF AuthService!AuthInv, AuthService!KnownRequest, AuthService!Exists
<1>2. PICK p \in Passwords : p = s7[r].password
  BY <1>1
<1>3. AuthService!Explained(u, s1[u])
  BY <1>1 DEF AuthService!AuthInv
<1>4. PICK row : row = [s1[u] EXCEPT !.password = p]
  OBVIOUS
<1>5. row \in AuthService!Rows /\ row.password = p /\ row.failed = s1[u].failed /\ row.locked = s1[u].locked
  BY <1>3, <1>4, RowSet DEF AuthService!Explained
<1>6. s1' = [s1 EXCEPT ![u] = row]
  BY <1>2, <1>4 DEF AuthService!UpdatePassword
<1>7. PICK kept : kept = {p} \union {s7[c].row.password : c \in AuthService!Overlapping(u)}
  OBVIOUS
<1>8. s9' = [s9 EXCEPT ![u] = kept]
  BY <1>2, <1>7 DEF AuthService!UpdatePassword
<1>9. DOMAIN s9' = UserIds /\ s9'[u] = kept /\ \A v \in UserIds : v # u => s9'[v] = s9[v]
  BY <1>1, <1>8 DEF AuthService!AuthInv
<1>10. AuthService!Explained(u, row)'
  BY <1>3, <1>5, <1>7, <1>9 DEF AuthService!Explained
<1>11. AccountsRemain /\ AccountsKnown /\ s1'[u] # None
  BY <1>1, <1>6, <1>9, <1>10, AccountWritten
<1>12. ASSUME NEW c \in Calls, s7[c].pc \in {"failed", "passed"} PROVE s7[c].row.password \in s9'[s7[c].user]
  <2>1. s7[c].user \in UserIds /\ s7[c].row.password \in s9[s7[c].user]
    BY <1>12, LoginAt DEF AuthService!Explained
  <2>2. s7[c].user = u => s7[c].row.password \in kept
    BY <1>7, <1>12 DEF AuthService!Overlapping
  <2> QED
    BY <1>9, <2>1, <2>2
<1> QED
  BY <1>1, <1>11, <1>12 DEF OthersHold, AuthService!Exists

LEMMA AuthChanged ==
  ASSUME AuthService!AuthInv, NEW r \in Calls,
         AuthService!ChangePasswordWrite(r) \/ AuthService!ResetPasswordWrite(r)
  PROVE  AuthService!AuthInv'
<1>1. PICK u : u = s7[r].user
  OBVIOUS
<1>2. /\ s2' = s2 /\ s3' = s3 /\ s4' = s4 /\ s6' = s6 /\ s8' = s8 /\ s7[r].pc \in {"change", "reset"}
      /\ AuthService!UpdatePassword(u, s7[r].password)
      /\ AuthService!Goto(r, "revoke") \/ AuthService!Goto(r, "spend")
  BY <1>1 DEF AuthService!ChangePasswordWrite, AuthService!ResetPasswordWrite, AuthService!tokenVars, AuthService!At
<1>3. AccountsRemain /\ AccountsKnown /\ OthersHold(r) /\ AuthService!Exists(u)'
  BY <1>1, <1>2, PasswordWritten
<1>4. TablesKnown
  BY <1>2, <1>3, TablesSame
<1> QED
  BY <1>1, <1>2, <1>3, <1>4, AuthGoesOn

LEMMA AuthRevokes ==
  ASSUME AuthService!AuthInv, NEW r \in Calls, AuthService!RevokeAll(r)
  PROVE  AuthService!AuthInv'
<1>1. s1' = s1 /\ s3' = s3 /\ s4' = s4 /\ s6' = s6 /\ s8' = s8 /\ s9' = s9 /\ AuthService!Done(r)
  BY DEF AuthService!RevokeAll, AuthService!historyVars
<1>2. AccountsRemain /\ AccountsKnown /\ OthersHold(r)
  BY <1>1, AccountsSame
<1>3. DOMAIN s2' = RefreshTokens /\ \A x \in RefreshTokens : AuthService!KnownToken(x)'
  <2>1. DOMAIN s2' = RefreshTokens
    BY DEF AuthService!RevokeAll, AuthService!RevokeAllUserTokens
  <2>2. ASSUME NEW x \in RefreshTokens PROVE AuthService!KnownToken(x)'
    <3>1. AuthService!KnownToken(x)
      BY DEF AuthService!AuthInv
    <3>2. CASE s2'[x] = s2[x]
      BY <3>1, <3>2 DEF AuthService!KnownToken, AuthService!IsValid
    <3>3. CASE s2'[x] # s2[x]
      <4>1. s2'[x] = [s2[x] EXCEPT !.state = "ended"]
        BY <3>3 DEF AuthService!RevokeAll, AuthService!RevokeAllUserTokens
      <4>2. s2'[x] = [user |-> s2[x].user, state |-> "ended"]
        BY <3>1, <4>1 DEF AuthService!KnownToken
      <4>3. s2'[x].user = s2[x].user /\ s2'[x].state = "ended"
        BY <4>2
      <4> QED
        BY <4>2, <4>3 DEF AuthService!KnownToken, AuthService!IsValid
    <3> QED
      BY <3>2, <3>3
  <2> QED
    BY <2>1, <2>2
<1>4. TablesKnown
  BY <1>1, <1>2, <1>3, AccessSame, ResetVerifySame, TablesOf
<1> QED
  BY <1>1, <1>2, <1>4, AuthEnds

\* The tokens of resets and verifications.
LEMMA AuthAsksReset ==
  ASSUME AuthService!AuthInv, NEW u \in UserIds, AuthService!RequestPasswordReset(u)
  PROVE  AuthService!AuthInv'
<1>1. s1' = s1 /\ s2' = s2 /\ s4' = s4 /\ s6' = s6 /\ s7' = s7 /\ s8' = s8 /\ s9' = s9
  BY DEF AuthService!RequestPasswordReset, AuthService!historyVars
<1>2. AccountsRemain /\ AccountsKnown
  BY <1>1, AccountsSame
<1>3. DOMAIN s3' = UserIds /\ \A x \in UserIds : s3'[x] = "valid" => s3[x] = "valid" \/ s1[x] # None
  BY DEF AuthService!RequestPasswordReset, AuthService!AuthInv, AuthService!FindByEmail
<1>4. TablesKnown
  BY <1>1, <1>2, <1>3, AccessSame, RefreshSame, ResetVerifySame, TablesOf
<1> QED
  BY <1>1, <1>2, <1>4, AuthAlone

LEMMA AuthSpends ==
  ASSUME AuthService!AuthInv, NEW r \in Calls, AuthService!ResetPasswordSpend(r)
  PROVE  AuthService!AuthInv'
<1>1. /\ s1' = s1 /\ s2' = s2 /\ s4' = s4 /\ s6' = s6 /\ s8' = s8 /\ s9' = s9
      /\ s7[r].pc = "spend" /\ AuthService!Goto(r, "revoke")
  BY DEF AuthService!ResetPasswordSpend, AuthService!historyVars, AuthService!At
<1>2. AccountsRemain /\ AccountsKnown /\ OthersHold(r)
  BY <1>1, AccountsSame
<1>3. DOMAIN s3' = UserIds /\ \A x \in UserIds : s3'[x] = "valid" => s3[x] = "valid"
  BY DEF AuthService!ResetPasswordSpend, AuthService!MarkPasswordResetTokenUsed, AuthService!AuthInv
<1>4. TablesKnown
  BY <1>1, <1>2, <1>3, AccessSame, RefreshSame, ResetVerifySame, TablesOf
<1>5. PICK u : u = s7[r].user
  OBVIOUS
<1>6. AuthService!Exists(u)'
  BY <1>1, <1>5 DEF AuthService!AuthInv, AuthService!KnownRequest, AuthService!Exists
<1> QED
  BY <1>1, <1>2, <1>4, <1>5, <1>6, AuthGoesOn

LEMMA AuthSendsVerification ==
  ASSUME AuthService!AuthInv, NEW u \in s6, AuthService!SendEmailVerification(u)
  PROVE  AuthService!AuthInv'
<1>1. s1' = s1 /\ s2' = s2 /\ s3' = s3 /\ s6' = s6 /\ s7' = s7 /\ s8' = s8 /\ s9' = s9
  BY DEF AuthService!SendEmailVerification, AuthService!historyVars
<1>2. AccountsRemain /\ AccountsKnown
  BY <1>1, AccountsSame
<1>3. DOMAIN s4' = UserIds /\ \A x \in UserIds : s4'[x] = "valid" => s4[x] = "valid" \/ s1[x] # None
  BY DEF AuthService!SendEmailVerification, AuthService!AuthInv, AuthService!Exists
<1>4. TablesKnown
  BY <1>1, <1>2, <1>3, AccessSame, RefreshSame, ResetVerifySame, TablesOf
<1> QED
  BY <1>1, <1>2, <1>4, AuthAlone

LEMMA AuthVerifies ==
  ASSUME AuthService!AuthInv, NEW r \in Calls, NEW u \in UserIds, AuthService!VerifyEmailToken(r, u)
  PROVE  AuthService!AuthInv'
<1>1. s2' = s2 /\ s3' = s3 /\ s4' = s4 /\ s6' = s6 /\ s8' = s8 /\ s9' = s9
  BY DEF AuthService!VerifyEmailToken, AuthService!tokenVars, AuthService!historyVars
<1>2. CASE ~AuthService!VerifyIsValid(u)
  <2>1. AuthService!Done(r) /\ s1' = s1
    BY <1>2 DEF AuthService!VerifyEmailToken
  <2> QED
    BY <1>1, <2>1, AccountsSame, TablesSame, AuthEnds
<1>3. CASE AuthService!VerifyIsValid(u)
  <2>1. s1[u] # None /\ AuthService!Explained(u, s1[u])
    BY <1>3 DEF AuthService!AuthInv
  <2>2. PICK yes \in BOOLEAN : yes = TRUE
    OBVIOUS
  <2>3. PICK row : row = [s1[u] EXCEPT !.verified = yes]
    OBVIOUS
  <2>4. row \in AuthService!Rows /\ row.password = s1[u].password /\ row.failed = s1[u].failed
        /\ row.locked = s1[u].locked
    BY <2>1, <2>3, RowSet DEF AuthService!Explained
  <2>5. s1' = [s1 EXCEPT ![u] = row]
    BY <1>3, <2>2, <2>3 DEF AuthService!VerifyEmailToken, AuthService!VerifyEmail
  <2>6. AuthService!Explained(u, row)'
    BY <1>1, <2>1, <2>4 DEF AuthService!Explained
  <2>7. DOMAIN s9' = UserIds
    BY <1>1 DEF AuthService!AuthInv
  <2>8. AccountsRemain /\ AccountsKnown /\ s1'[u] # None
    BY <1>1, <2>5, <2>6, <2>7, AccountWritten
  <2>9. PICK q : q = [AuthService!Blank EXCEPT !.pc = "verified", !.user = u]
    OBVIOUS
  <2>10. AuthService!Blank = [pc |-> "idle", user |-> None, row |-> None, password |-> "", token |-> ""]
    BY DEF AuthService!Blank
  <2>11. PICK a : a = [AuthService!Blank EXCEPT !.pc = "verified"]
    OBVIOUS
  <2>12. a = [pc |-> "verified", user |-> None, row |-> None, password |-> "", token |-> ""]
    BY <2>10, <2>11
  <2>13. q = [a EXCEPT !.user = u]
    BY <2>9, <2>11
  <2>14. q = [pc |-> "verified", user |-> u, row |-> None, password |-> "", token |-> ""]
    BY <2>12, <2>13
  <2>15. Carries(q, "verified", u, None, "", "")
    BY <2>14, CarriesThat
  <2>16. AuthService!Begin(r, q)
    BY <1>3, <2>9 DEF AuthService!VerifyEmailToken
  <2>17. s7'[r] = q => AuthService!KnownRequest(r)'
    BY <2>8, <2>15 DEF AuthService!KnownRequest, Carries, AuthService!Exists
  <2> QED
    BY <1>1, <2>8, <2>16, <2>17, RowsHold, TablesSame, AuthTogether
<1> QED
  BY <1>2, <1>3

LEMMA AuthVerified ==
  ASSUME AuthService!AuthInv, NEW r \in Calls, AuthService!VerifyEmailSpend(r)
  PROVE  AuthService!AuthInv'
<1>1. s1' = s1 /\ s2' = s2 /\ s3' = s3 /\ s6' = s6 /\ s8' = s8 /\ s9' = s9 /\ AuthService!Done(r)
  BY DEF AuthService!VerifyEmailSpend, AuthService!historyVars
<1>2. AccountsRemain /\ AccountsKnown /\ OthersHold(r)
  BY <1>1, AccountsSame
<1>3. DOMAIN s4' = UserIds /\ \A x \in UserIds : s4'[x] = "valid" => s4[x] = "valid"
  BY DEF AuthService!VerifyEmailSpend, AuthService!MarkEmailVerificationTokenUsed, AuthService!AuthInv
<1>4. TablesKnown
  BY <1>1, <1>2, <1>3, AccessSame, RefreshSame, ResetVerifySame, TablesOf
<1> QED
  BY <1>1, <1>2, <1>4, AuthEnds

LEMMA AuthKeys ==
  ASSUME AuthService!AuthInv, NEW key, NEW row, AuthService!ApiKeyStep(key, row)
  PROVE  AuthService!AuthInv'
<1>1. s1' = s1 /\ s2' = s2 /\ s3' = s3 /\ s4' = s4 /\ s6' = s6 /\ s7' = s7 /\ s8' = s8 /\ s9' = s9
  BY DEF AuthService!ApiKeyStep, AuthService!historyVars
<1> QED
  BY <1>1, AccountsSame, TablesSame, AuthAlone

LEMMA AuthExpires ==
  ASSUME AuthService!AuthInv, AuthService!Expire
  PROVE  AuthService!AuthInv'
<1>0. s7' = s7 /\ s8' = s8 /\ s9' = s9
  BY DEF AuthService!Expire, AuthService!historyVars
<1>1. ASSUME NEW u \in UserIds, s1[u] # None, s1' = [s1 EXCEPT ![u].locked = FALSE],
             s2' = s2, s3' = s3, s4' = s4, s6' = s6
      PROVE  AuthService!AuthInv'
  <2>1. AuthService!Explained(u, s1[u])
    BY <1>1 DEF AuthService!AuthInv
  <2>2. PICK no \in BOOLEAN : no = FALSE
    OBVIOUS
  <2>3. PICK row : row = [s1[u] EXCEPT !.locked = no]
    OBVIOUS
  <2>4. row \in AuthService!Rows /\ row.password = s1[u].password /\ row.failed = s1[u].failed /\ row.locked = no
    BY <2>1, <2>3, RowSet DEF AuthService!Explained
  <2>5. s1' = [s1 EXCEPT ![u] = row]
    BY <1>1, <2>2, <2>3
  <2>6. AuthService!Explained(u, row)'
    BY <1>0, <2>1, <2>2, <2>4 DEF AuthService!Explained
  <2>7. DOMAIN s9' = UserIds
    BY <1>0 DEF AuthService!AuthInv
  <2>8. AccountsRemain /\ AccountsKnown
    BY <1>0, <2>5, <2>6, <2>7, AccountWritten
  <2> QED
    BY <1>0, <1>1, <2>8, TablesSame, AuthAlone
<1>2. ASSUME s1' = s1, TablesKnown PROVE AuthService!AuthInv'
  BY <1>0, <1>2, AccountsSame, AuthAlone
<1>3. ASSUME NEW t \in RefreshTokens, AuthService!IsValid(s2[t]), s2' = [s2 EXCEPT ![t].state = "ended"],
             s1' = s1, s3' = s3, s4' = s4, s6' = s6
      PROVE  TablesKnown
  BY <1>0, <1>3, AccountsSame, TokenMoved, AccessSame, ResetVerifySame, TablesOf
<1>4. ASSUME NEW u \in UserIds, s3' = [s3 EXCEPT ![u] = "ended"], s1' = s1, s2' = s2, s4' = s4, s6' = s6
      PROVE  TablesKnown
  <2>1. DOMAIN s3' = UserIds /\ \A x \in UserIds : s3'[x] = "valid" => s3[x] = "valid"
    BY <1>4 DEF AuthService!AuthInv
  <2> QED
    BY <1>0, <1>4, <2>1, AccountsSame, RefreshSame, AccessSame, ResetVerifySame, TablesOf
<1>5. ASSUME NEW u \in UserIds, s4' = [s4 EXCEPT ![u] = "ended"], s1' = s1, s2' = s2, s3' = s3, s6' = s6
      PROVE  TablesKnown
  <2>1. DOMAIN s4' = UserIds /\ \A x \in UserIds : s4'[x] = "valid" => s4[x] = "valid"
    BY <1>5 DEF AuthService!AuthInv
  <2> QED
    BY <1>0, <1>5, <2>1, AccountsSame, RefreshSame, AccessSame, ResetVerifySame, TablesOf
<1>6. ASSUME NEW u \in s6, s6' = s6 \ {u}, s1' = s1, s2' = s2, s3' = s3, s4' = s4
      PROVE  TablesKnown
  <2>1. \A x \in s6' : AuthService!Exists(x)'
    BY <1>6 DEF AuthService!AuthInv, AuthService!Exists
  <2> QED
    BY <1>0, <1>6, <2>1, AccountsSame, RefreshSame, ResetVerifySame, TablesOf
<1> QED
  BY <1>1, <1>2, <1>3, <1>4, <1>5, <1>6 DEF AuthService!Expire

LEMMA AuthStep == AuthService!AuthInv /\ AuthService!Next => AuthService!AuthInv'
<1> SUFFICES ASSUME AuthService!AuthInv, AuthService!Next PROVE AuthService!AuthInv'
  OBVIOUS
<1>1. ASSUME NEW r \in Calls, AuthService!Continue(r) PROVE AuthService!AuthInv'
  BY <1>1, AuthIssues, AuthCreates, AuthFails, AuthPasses, AuthRotates, AuthChanged, AuthRevokes, AuthSpends,
     AuthVerified
     DEF AuthService!Continue
<1>2. ASSUME NEW r \in Calls,
             \/ AuthService!HandleRegister(r) \/ AuthService!HandleLogin(r) \/ AuthService!HandleRefresh(r)
             \/ AuthService!HandleResetPassword(r) \/ AuthService!HandleChangePassword(r)
             \/ AuthService!HandleVerifyEmail(r)
      PROVE  AuthService!AuthInv'
  BY <1>2, AuthRegisters, AuthLogsIn, AuthRefreshes, AuthResets, AuthChanges, AuthVerifies
     DEF AuthService!HandleRegister, AuthService!HandleLogin, AuthService!HandleRefresh,
         AuthService!HandleResetPassword, AuthService!HandleChangePassword, AuthService!HandleVerifyEmail
<1>3. CASE AuthService!HandleLogout \/ AuthService!HandleForgotPassword \/ AuthService!HandleResendVerification
  BY <1>3, AuthLogsOut, AuthAsksReset, AuthSendsVerification
     DEF AuthService!HandleLogout, AuthService!HandleForgotPassword, AuthService!HandleResendVerification
<1>4. CASE AuthService!HandleCreateAPIKey
  BY <1>4, AuthKeys DEF AuthService!HandleCreateAPIKey, AuthService!CreateAPIKey
<1>5. CASE AuthService!HandleRevokeAPIKey
  BY <1>5, AuthKeys DEF AuthService!HandleRevokeAPIKey, AuthService!RevokeAPIKey
<1>6. CASE AuthService!Expire
  BY <1>6, AuthExpires
<1> QED
  BY <1>1, <1>2, <1>3, <1>4, <1>5, <1>6 DEF AuthService!Next, AuthService!Arrive

LEMMA AccountsAreTrue ==
  AuthService!AuthInv => AuthService!LockIsEarned /\ AuthService!PasswordExplained
BY DEF AuthService!AuthInv, AuthService!Explained, AuthService!LockIsEarned, AuthService!PasswordExplained
-----------------------------------------------------------------------------
(* Authorization states and tokens: who may still use one.                 *)
LEMMA OAuthStart == Tokens!Init => Tokens!OAuthInv
<1> SUFFICES ASSUME Tokens!Init PROVE Tokens!OAuthInv
  OBVIOUS
<1>1. \A r \in Calls : s5[r].pc = "ready"
  BY DEF Tokens!Init, Tokens!Ready
<1>2. \A r \in Calls : Tokens!KnownCall(r)
  BY <1>1 DEF Tokens!KnownCall, Tokens!At
<1>3. \A x \in StateIds : Tokens!Used(x)
  BY DEF Tokens!Init, Tokens!Used
<1> QED
  BY <1>2, <1>3 DEF Tokens!Init, Tokens!NewOAuthManager, Tokens!OAuthInv, Tokens!RevokedStaysRevoked

\* A state is as it was, or gone, and so are those who have it.
StateStays(x) ==
  /\ s6'[x] = s6[x] /\ (x \in s7 => x \in s7')
  /\ s3'[x] # None /\ s6[x] > 0 => s3[x] # None
  /\ \A r \in Calls : Tokens!HoldsState(s5[r], x) => s3'[x] = None \/ Tokens!HoldsState(s5'[r], x)

LEMMA UsedStays ==
  ASSUME NEW x \in StateIds, Tokens!Used(x), s1' = s1, StateStays(x)
  PROVE  Tokens!Used(x)'
<1>1. s6'[x] \in Nat /\ (s6'[x] > 1 => s1' /\ x \in s7')
  BY DEF Tokens!Used, StateStays
<1>2. ASSUME s6'[x] > 0, s3'[x] # None
      PROVE  s1' /\ (x \in s7' \/ \E r \in Calls : Tokens!HoldsState(s5'[r], x))
  BY <1>2 DEF Tokens!Used, StateStays
<1>3. \A r \in Calls : Tokens!HoldsState(s5'[r], x) <=> Tokens!HoldsState(s5[r], x)'
  BY DEF Tokens!HoldsState
<1> QED
  BY <1>1, <1>2, <1>3 DEF Tokens!Used

\* What was revoked stays in place, or is granted again.
LateGrows == \A i : i \in s8' => i \in s8 /\ (i \in s9 => i \in s9')

LEMMA CallStays ==
  ASSUME Tokens!OAuthInv, LateGrows, NEW r \in Calls, s5'[r] = s5[r]
  PROVE  Tokens!KnownCall(r)'
<1>1. Tokens!KnownCall(r)
  BY DEF Tokens!OAuthInv
<1> QED
  BY <1>1 DEF Tokens!KnownCall, Tokens!At, LateGrows

TokensKnown == DOMAIN s4' = Integrations /\ s8' \subseteq Integrations /\ Tokens!RevokedStaysRevoked'
StatesKnown == DOMAIN s3' = StateIds /\ DOMAIN s6' = StateIds /\ \A x \in StateIds : Tokens!Used(x)'

LEMMA TokensSame ==
  ASSUME Tokens!OAuthInv, s4' = s4, s8' = s8, s9' = s9
  PROVE  TokensKnown /\ LateGrows
BY DEF Tokens!OAuthInv, TokensKnown, LateGrows, Tokens!RevokedStaysRevoked

\* One request goes on.
LEMMA OAuthTogether ==
  ASSUME Tokens!OAuthInv, LateGrows, TokensKnown, NEW r \in Calls, NEW q, Tokens!Goto(r, q),
         s5'[r] = q => Tokens!KnownCall(r)',
         /\ DOMAIN s5' = Calls /\ s5'[r] = q /\ (\A c \in Calls : c # r => s5'[c] = s5[c])
         => StatesKnown
  PROVE  Tokens!OAuthInv'
<1>1. DOMAIN s5' = Calls /\ s5'[r] = q /\ \A c \in Calls : c # r => s5'[c] = s5[c]
  BY DEF Tokens!OAuthInv, Tokens!Goto
<1>2. \A c \in Calls : Tokens!KnownCall(c)'
  BY <1>1, CallStays
<1> QED
  BY <1>1, <1>2 DEF Tokens!OAuthInv, TokensKnown, StatesKnown

LEMMA OAuthAlone ==
  ASSUME Tokens!OAuthInv, LateGrows, TokensKnown, StatesKnown, s5' = s5
  PROVE  Tokens!OAuthInv'
<1>1. \A c \in Calls : Tokens!KnownCall(c)'
  BY CallStays
<1> QED
  BY <1>1 DEF Tokens!OAuthInv, TokensKnown, StatesKnown

LEMMA StatesSame ==
  ASSUME Tokens!OAuthInv, s1' = s1, s3' = s3, s6' = s6, s7' = s7,
         \A x \in StateIds, r \in Calls : Tokens!HoldsState(s5[r], x) => Tokens!HoldsState(s5'[r], x)
  PROVE  StatesKnown
<1>1. \A x \in StateIds : StateStays(x)
  BY DEF StateStays
<1>2. \A x \in StateIds : Tokens!Used(x)'
  BY <1>1, UsedStays DEF Tokens!OAuthInv
<1> QED
  BY <1>2 DEF Tokens!OAuthInv, StatesKnown

\* One state is written, and nobody moves.
LEMMA StateWritten ==
  ASSUME Tokens!OAuthInv, s1' = s1, s6' = s6, s7' = s7, s5' = s5, NEW x \in StateIds, NEW state,
         Tokens!SaveState(x, state), state = None \/ s6[x] = 0 \/ s3[x] # None
  PROVE  StatesKnown
<1>1. DOMAIN s3' = StateIds /\ s3'[x] = state /\ \A y \in StateIds : y # x => s3'[y] = s3[y]
  BY DEF Tokens!OAuthInv, Tokens!SaveState
<1>2. \A y \in StateIds : StateStays(y)
  BY <1>1 DEF StateStays
<1>3. \A y \in StateIds : Tokens!Used(y)'
  BY <1>2, UsedStays DEF Tokens!OAuthInv
<1> QED
  BY <1>1, <1>3 DEF Tokens!OAuthInv, StatesKnown

LEMMA OAuthAuthorizes ==
  ASSUME Tokens!OAuthInv, NEW r \in Calls, Tokens!Authorize(r)
  PROVE  Tokens!OAuthInv'
<1>1. s1' = s1 /\ s4' = s4 /\ s5' = s5 /\ s6' = s6 /\ s7' = s7 /\ s8' = s8 /\ s9' = s9
  BY DEF Tokens!Authorize
<1>2. PICK p \in Providers, i \in Integrations \union {None}, x \in StateIds : Tokens!GetAuthorizationURL(p, i, x)
  BY DEF Tokens!Authorize
<1>3. StatesKnown
  BY <1>1, <1>2, StateWritten DEF Tokens!GetAuthorizationURL, Tokens!generateState
<1> QED
  BY <1>1, <1>3, TokensSame, OAuthAlone

LEMMA OAuthStateExpires ==
  ASSUME Tokens!OAuthInv, NEW x \in StateIds, Tokens!StateExpires(x)
  PROVE  Tokens!OAuthInv'
<1>1. s1' = s1 /\ s4' = s4 /\ s5' = s5 /\ s6' = s6 /\ s7' = s7 /\ s8' = s8 /\ s9' = s9
  BY DEF Tokens!StateExpires
<1>2. StatesKnown
  BY <1>1, StateWritten DEF Tokens!StateExpires
<1> QED
  BY <1>1, <1>2, TokensSame, OAuthAlone

LEMMA OAuthCalledBack ==
  ASSUME Tokens!OAuthInv, NEW r \in Calls, Tokens!Callback(r)
  PROVE  Tokens!OAuthInv'
<1>1. s1' = s1 /\ s4' = s4 /\ s8' = s8 /\ s9' = s9 /\ s5[r].pc = "ready"
  BY DEF Tokens!Callback, Tokens!At
<1>2. PICK p \in Providers, x \in StateIds : Tokens!HandleCallback(r, p, x)
  BY DEF Tokens!Callback
<1>3. s3[x] # None /\ s7 \subseteq s7'
  BY <1>2 DEF Tokens!HandleCallback
<1>4. TokensKnown /\ LateGrows
  BY <1>1, TokensSame
<1>5. CASE s3[x].expired \/ s3[x].provider # p
  <2>1. s3' = [s3 EXCEPT ![x] = None] /\ s5' = s5 /\ s6' = s6
    BY <1>2, <1>5 DEF Tokens!HandleCallback, Tokens!DeleteState
  <2>2. DOMAIN s3' = StateIds /\ s3'[x] = None /\ \A y \in StateIds : y # x => s3'[y] = s3[y]
    BY <2>1 DEF Tokens!OAuthInv
  <2>3. \A y \in StateIds : StateStays(y)
    BY <1>3, <2>1, <2>2 DEF StateStays
  <2>4. \A y \in StateIds : Tokens!Used(y)'
    BY <1>1, <2>3, UsedStays DEF Tokens!OAuthInv
  <2>5. StatesKnown
    BY <2>1, <2>2, <2>4 DEF Tokens!OAuthInv, StatesKnown
  <2> QED
    BY <1>4, <2>1, <2>5, OAuthAlone
<1>6. CASE ~(s3[x].expired \/ s3[x].provider # p)
  <2>1. PICK yes : yes = TRUE
    OBVIOUS
  <2>2. PICK q : q = [pc |-> "exchange", state |-> x, provider |-> p, id |-> s3[x].integration, since |-> yes]
    OBVIOUS
  <2>3. q.pc = "exchange" /\ q.state = x /\ q.provider = p /\ q.id = s3[x].integration /\ q.since = yes
    BY <2>2
  <2>4. Tokens!Goto(r, q) /\ Tokens!TakeState(x)
    BY <1>2, <1>6, <2>1, <2>2 DEF Tokens!HandleCallback
  <2>5. s5'[r] = q => Tokens!KnownCall(r)'
    BY <2>2, <2>3 DEF Tokens!KnownCall, Tokens!At
  <2>6. DOMAIN s6' = StateIds /\ s6'[x] = s6[x] + 1 /\ \A y \in StateIds : y # x => s6'[y] = s6[y]
    BY <1>2, <1>6 DEF Tokens!OAuthInv, Tokens!HandleCallback
  <2>7. DOMAIN s3' = StateIds /\ (s1 => s3' = s3) /\ (~s1 => s3'[x] = None) /\ \A y \in StateIds : y # x => s3'[y] = s3[y]
    BY <2>4 DEF Tokens!TakeState, Tokens!DeleteState, Tokens!OAuthInv
  <2>8. ASSUME DOMAIN s5' = Calls /\ s5'[r] = q /\ \A c \in Calls : c # r => s5'[c] = s5[c]
        PROVE  StatesKnown
    <3>1. \A c \in Calls, y \in StateIds : Tokens!HoldsState(s5[c], y) => Tokens!HoldsState(s5'[c], y)
      BY <1>1, <2>8 DEF Tokens!HoldsState
    <3>2. ASSUME NEW y \in StateIds, y # x PROVE Tokens!Used(y)'
      <4>1. StateStays(y)
        BY <1>3, <2>6, <2>7, <3>1, <3>2 DEF StateStays
      <4> QED
        BY <1>1, <4>1, UsedStays DEF Tokens!OAuthInv
    <3>3. Tokens!Used(x)
      BY DEF Tokens!OAuthInv
    <3>4. s6[x] > 0 => s1 /\ x \in s7'
      <4>1. s6[x] > 0 => s1 /\ (x \in s7 \/ \E c \in Calls : Tokens!HoldsState(s5[c], x))
        BY <1>3, <3>3 DEF Tokens!Used
      <4>2. (\E c \in Calls : Tokens!HoldsState(s5[c], x)) => x \in s7'
        BY <1>2 DEF Tokens!HandleCallback
      <4> QED
        BY <1>3, <4>1, <4>2
    <3>5. s6'[x] \in Nat /\ (s6'[x] > 1 => s6[x] > 0)
      BY <2>6, <3>3 DEF Tokens!Used
    <3>6. Tokens!HoldsState(s5[r], x)'
      BY <2>3, <2>8 DEF Tokens!HoldsState
    <3>7. s3'[x] # None => s1
      BY <2>7
    <3>8. Tokens!Used(x)'
      BY <1>1, <3>4, <3>5, <3>6, <3>7 DEF Tokens!Used
    <3> QED
      BY <2>6, <2>7, <3>2, <3>8 DEF StatesKnown
  <2> QED
    BY <1>4, <2>4, <2>5, <2>8, OAuthTogether
<1> QED
  BY <1>5, <1>6

\* A token is written, or none.
LEMMA Settled ==
  ASSUME Tokens!OAuthInv, NEW r \in Calls, NEW q, q = s5[r], NEW grants \in BOOLEAN,
         \/ s4' = s4 /\ s8' = s8 /\ s9' = s9
         \/ (\E token : Tokens!SaveToken(q.id, token)) /\ Tokens!Settle(q, grants),
         ~grants => q.pc = "refresh"
  PROVE  TokensKnown /\ LateGrows
<1>1. CASE s4' = s4 /\ s8' = s8 /\ s9' = s9
  BY <1>1, TokensSame
<1>2. CASE (\E token : Tokens!SaveToken(q.id, token)) /\ Tokens!Settle(q, grants)
  <2>1. DOMAIN s4' = Integrations /\ \A i \in Integrations : i # q.id => s4'[i] = s4[i]
    BY <1>2 DEF Tokens!OAuthInv, Tokens!SaveToken
  <2>2. /\ s8' = IF q.since /\ grants THEN s8 \ {q.id} ELSE s8
        /\ s9' = IF q.since /\ grants THEN s9 \ {q.id} ELSE IF ~q.since THEN s9 \union {q.id} ELSE s9
    BY <1>2 DEF Tokens!Settle
  <2>3. LateGrows
    BY <2>2 DEF LateGrows
  <2>4. \A i \in s8' : i \in s8 /\ (i = q.id /\ q.since => ~grants)
    BY <2>2
  <2>5. q.since /\ ~grants /\ q.id \in s8 => q.id \in s9
    BY DEF Tokens!OAuthInv, Tokens!KnownCall, Tokens!At
  <2>6. ASSUME NEW i \in s8', s4'[i] # None PROVE i \in s9'
    <3>1. CASE i = q.id
      BY <2>2, <2>4, <2>5, <3>1
    <3>2. CASE i # q.id
      <4>1. i \in Integrations /\ s4[i] # None
        BY <2>1, <2>4, <2>6, <3>2 DEF Tokens!OAuthInv
      <4>2. i \in s9
        BY <2>4, <4>1 DEF Tokens!OAuthInv, Tokens!RevokedStaysRevoked
      <4> QED
        BY <2>3, <4>2 DEF LateGrows
    <3> QED
      BY <3>1, <3>2
  <2>7. s8' \subseteq Integrations
    BY <2>4 DEF Tokens!OAuthInv
  <2> QED
    BY <2>1, <2>3, <2>6, <2>7 DEF TokensKnown, Tokens!RevokedStaysRevoked
<1> QED
  BY <1>1, <1>2

LEMMA ReadyKnown ==
  ASSUME NEW r, s5'[r] = Tokens!Ready
  PROVE  Tokens!KnownCall(r)'
<1>1. s5'[r].pc = "ready"
  BY DEF Tokens!Ready
<1> QED
  BY <1>1 DEF Tokens!KnownCall, Tokens!At

LEMMA OAuthExchanged ==
  ASSUME Tokens!OAuthInv, NEW r \in Calls, Tokens!exchangeCode(r)
  PROVE  Tokens!OAuthInv'
<1>1. /\ s1' = s1 /\ s6' = s6 /\ s7' = s7 /\ s5[r].pc = "exchange"
      /\ Tokens!Goto(r, Tokens!Ready) /\ Tokens!ReturnState(s5[r].state)
  BY DEF Tokens!exchangeCode, Tokens!At, Tokens!Answer
<1>a. PICK q : q = s5[r]
  OBVIOUS
<1>b. PICK yes \in BOOLEAN : yes = TRUE
  OBVIOUS
<1>2. q = s5[r] /\ yes = TRUE
  BY <1>a, <1>b
<1>3. \/ s4' = s4 /\ s8' = s8 /\ s9' = s9
      \/ (\E token : Tokens!SaveToken(q.id, token)) /\ Tokens!Settle(q, yes)
  BY <1>2 DEF Tokens!exchangeCode
<1>4. TokensKnown /\ LateGrows
  BY <1>2, <1>3, Settled
<1>5. DOMAIN s3' = StateIds /\ \A y \in StateIds : /\ s3'[y] # None => s3[y] # None
                                                   /\ y = q.state /\ s1 => s3'[y] = None
  BY <1>1, <1>2 DEF Tokens!ReturnState, Tokens!DeleteState, Tokens!OAuthInv
<1>6. ASSUME \A c \in Calls : c # r => s5'[c] = s5[c]
      PROVE  StatesKnown
  <2>1. ASSUME NEW y \in StateIds PROVE Tokens!Used(y)'
    <3>1. Tokens!Used(y)
      BY DEF Tokens!OAuthInv
    <3>2. CASE s1
      <4>1. StateStays(y)
        BY <1>1, <1>2, <1>5, <1>6, <3>2 DEF StateStays, Tokens!HoldsState
      <4> QED
        BY <1>1, <3>1, <4>1, UsedStays
    <3>3. CASE ~s1
      BY <1>1, <1>5, <3>1, <3>3 DEF Tokens!Used
    <3> QED
      BY <3>2, <3>3
  <2> QED
    BY <1>1, <1>5, <2>1 DEF Tokens!OAuthInv, StatesKnown
<1> QED
  BY <1>1, <1>4, <1>6, ReadyKnown, OAuthTogether

LEMMA OAuthRefreshed ==
  ASSUME Tokens!OAuthInv, NEW r \in Calls, Tokens!Refreshed(r)
  PROVE  Tokens!OAuthInv'
<1>1. /\ s1' = s1 /\ s3' = s3 /\ s6' = s6 /\ s7' = s7 /\ s5[r].pc = "refresh"
      /\ Tokens!Goto(r, Tokens!Ready)
  BY DEF Tokens!Refreshed, Tokens!At, Tokens!Answer
<1>a. PICK q : q = s5[r]
  OBVIOUS
<1>b. PICK no \in BOOLEAN : no = FALSE
  OBVIOUS
<1>2. q = s5[r] /\ no = FALSE
  BY <1>a, <1>b
<1>3. \/ s4' = s4 /\ s8' = s8 /\ s9' = s9
      \/ (\E token : Tokens!SaveToken(q.id, token)) /\ Tokens!Settle(q, no)
  BY <1>2 DEF Tokens!Refreshed
<1>4. TokensKnown /\ LateGrows
  BY <1>1, <1>2, <1>3, Settled
<1>5. ASSUME \A c \in Calls : c # r => s5'[c] = s5[c]
      PROVE  StatesKnown
  BY <1>1, <1>5, StatesSame DEF Tokens!HoldsState
<1> QED
  BY <1>1, <1>4, <1>5, ReadyKnown, OAuthTogether

LEMMA OAuthRefreshes ==
  ASSUME Tokens!OAuthInv, NEW r \in Calls, NEW p, NEW i \in Integrations, Tokens!RefreshToken(r, p, i),
         s5[r].pc = "ready",
         s1' = s1, s3' = s3, s4' = s4, s6' = s6, s7' = s7, s8' = s8, s9' = s9
  PROVE  Tokens!OAuthInv'
<1>1. TokensKnown /\ LateGrows
  BY TokensSame
<1>2. PICK yes : yes = TRUE
  OBVIOUS
<1>3. PICK q : q = [pc |-> "refresh", id |-> i, since |-> yes]
  OBVIOUS
<1>4. q.pc = "refresh" /\ q.id = i /\ q.since = yes
  BY <1>3
<1>5. Tokens!Goto(r, q) /\ s4[i] # None
  BY <1>2, <1>3 DEF Tokens!RefreshToken
<1>6. i \in s8' => i \in s9'
  BY <1>5 DEF Tokens!OAuthInv, Tokens!RevokedStaysRevoked
<1>7. s5'[r] = q => Tokens!KnownCall(r)'
  BY <1>3, <1>4, <1>6 DEF Tokens!KnownCall, Tokens!At
<1>8. ASSUME \A c \in Calls : c # r => s5'[c] = s5[c]
      PROVE  StatesKnown
  BY <1>8, StatesSame DEF Tokens!HoldsState
<1> QED
  BY <1>1, <1>5, <1>7, <1>8, OAuthTogether

LEMMA OAuthTokenExpires ==
  ASSUME Tokens!OAuthInv, NEW i \in Integrations, Tokens!TokenExpires(i)
  PROVE  Tokens!OAuthInv'
<1>1. s1' = s1 /\ s3' = s3 /\ s5' = s5 /\ s6' = s6 /\ s7' = s7 /\ s8' = s8 /\ s9' = s9 /\ s4[i] # None
  BY DEF Tokens!TokenExpires
<1>2. DOMAIN s4' = Integrations /\ \A j \in Integrations : j # i => s4'[j] = s4[j]
  BY DEF Tokens!TokenExpires, Tokens!SaveToken, Tokens!OAuthInv
<1>3. \A j \in s8' : s4'[j] # None => s4[j] # None
  BY <1>1, <1>2 DEF Tokens!OAuthInv
<1>4. TokensKnown
  BY <1>1, <1>2, <1>3 DEF Tokens!OAuthInv, TokensKnown, Tokens!RevokedStaysRevoked
<1>5. LateGrows
  BY <1>1 DEF LateGrows
<1> QED
  BY <1>1, <1>4, <1>5, StatesSame, OAuthAlone

LEMMA OAuthRevokes ==
  ASSUME Tokens!OAuthInv, NEW r \in Calls, Tokens!Revoke(r)
  PROVE  Tokens!OAuthInv'
<1>1. s1' = s1 /\ s3' = s3 /\ s6' = s6 /\ s7' = s7
  BY DEF Tokens!Revoke
<1>2. PICK i \in Integrations :
        /\ s4' = [s4 EXCEPT ![i] = None] /\ s8' = s8 \union {i} /\ s9' = s9 \ {i}
        /\ s5' = [o \in Calls |-> IF ~Tokens!At(o, "ready") /\ s5[o].id = i
                                  THEN [s5[o] EXCEPT !.since = FALSE] ELSE s5[o]]
  BY DEF Tokens!Revoke, Tokens!RevokeToken, Tokens!DeleteToken
<1>3. DOMAIN s4' = Integrations /\ s4'[i] = None /\ \A j \in Integrations : j # i => s4'[j] = s4[j]
  BY <1>2 DEF Tokens!OAuthInv
<1>4. TokensKnown
  <2>1. s8' \subseteq Integrations
    BY <1>2 DEF Tokens!OAuthInv
  <2>2. ASSUME NEW j \in s8', s4'[j] # None PROVE j \in s9'
    BY <1>2, <1>3, <2>1, <2>2 DEF Tokens!OAuthInv, Tokens!RevokedStaysRevoked
  <2> QED
    BY <1>3, <2>1, <2>2 DEF TokensKnown, Tokens!RevokedStaysRevoked
<1>5. PICK no : no = FALSE
  OBVIOUS
<1>6. ASSUME NEW c \in Calls
      PROVE  /\ Tokens!KnownCall(c)'
             /\ \A x \in StateIds : Tokens!HoldsState(s5[c], x) => Tokens!HoldsState(s5'[c], x)
  <2>1. Tokens!KnownCall(c)
    BY DEF Tokens!OAuthInv
  <2>2. CASE ~Tokens!At(c, "ready") /\ s5[c].id = i
    <3>1. s5'[c] = [s5[c] EXCEPT !.since = no]
      BY <1>2, <1>5, <2>2
    <3>2. CASE s5[c].pc = "exchange"
      <4>1. s5[c] = [pc |-> "exchange", state |-> s5[c].state, provider |-> s5[c].provider, id |-> s5[c].id,
                     since |-> s5[c].since]
        BY <2>1, <3>2 DEF Tokens!KnownCall, Tokens!At
      <4>2. s5'[c] = [pc |-> "exchange", state |-> s5[c].state, provider |-> s5[c].provider, id |-> s5[c].id,
                      since |-> no]
        BY <3>1, <4>1
      <4>3. /\ s5'[c].pc = "exchange" /\ s5'[c].state = s5[c].state /\ s5'[c].provider = s5[c].provider
            /\ s5'[c].id = s5[c].id /\ s5'[c].since = no
        BY <4>2
      <4> QED
        BY <4>2, <4>3 DEF Tokens!KnownCall, Tokens!At, Tokens!HoldsState
    <3>3. CASE s5[c].pc = "refresh"
      <4>1. s5[c] = [pc |-> "refresh", id |-> s5[c].id, since |-> s5[c].since]
        BY <2>1, <3>3 DEF Tokens!KnownCall, Tokens!At
      <4>2. s5'[c] = [pc |-> "refresh", id |-> s5[c].id, since |-> no]
        BY <3>1, <4>1
      <4>3. s5'[c].pc = "refresh" /\ s5'[c].id = s5[c].id /\ s5'[c].since = no
        BY <4>2
      <4> QED
        BY <1>5, <3>3, <4>2, <4>3 DEF Tokens!KnownCall, Tokens!At, Tokens!HoldsState
    <3> QED
      BY <2>1, <2>2, <3>2, <3>3 DEF Tokens!KnownCall, Tokens!At
  <2>3. CASE Tokens!At(c, "ready") \/ s5[c].id # i
    <3>1. s5'[c] = s5[c]
      BY <1>2, <2>3
    <3>2. s5[c].pc = "refresh" => s5[c].id # i
      BY <2>3 DEF Tokens!At
    <3> QED
      BY <1>2, <2>1, <3>1, <3>2 DEF Tokens!KnownCall, Tokens!At
  <2> QED
    BY <2>2, <2>3
<1>7. StatesKnown
  BY <1>1, <1>6, StatesSame
<1>8. DOMAIN s5' = Calls
  BY <1>2
<1> QED
  BY <1>4, <1>6, <1>7, <1>8 DEF Tokens!OAuthInv, TokensKnown, StatesKnown

LEMMA OAuthStep == Tokens!OAuthInv /\ Tokens!Next => Tokens!OAuthInv'
<1> SUFFICES ASSUME Tokens!OAuthInv, Tokens!Next PROVE Tokens!OAuthInv'
  OBVIOUS
<1>1. ASSUME NEW r \in Calls, Tokens!Refresh(r) PROVE Tokens!OAuthInv'
  BY <1>1, OAuthRefreshes DEF Tokens!Refresh, Tokens!At
<1>2. ASSUME NEW r \in Calls, Tokens!GetTokenHandler(r) PROVE Tokens!OAuthInv'
  BY <1>2, OAuthRefreshes DEF Tokens!GetTokenHandler, Tokens!GetToken, Tokens!At
<1>3. ASSUME NEW p, Tokens!ConfigureProvider(p) PROVE Tokens!OAuthInv'
  BY <1>3, TokensSame, StatesSame, OAuthAlone DEF Tokens!ConfigureProvider
<1> QED
  BY <1>1, <1>2, <1>3, OAuthAuthorizes, OAuthCalledBack, OAuthExchanged, OAuthRefreshed, OAuthRevokes,
     OAuthStateExpires, OAuthTokenExpires
     DEF Tokens!Next

LEMMA TokensAreKept ==
  Tokens!OAuthInv => Tokens!StateUsedOnce /\ Tokens!RevokedStaysRevoked
BY DEF Tokens!OAuthInv, Tokens!Used, Tokens!StateUsedOnce
-----------------------------------------------------------------------------
(* Credentials: the token that is stored, or about to be written back, is  *)
(* the one a client stored last.                                           *)
LEMMA VaultStart == Vault!VaultInit => Vault!VaultInv
BY DEF Vault!VaultInit, Vault!VaultInv, Vault!Stored, Vault!Exists, Vault!GetCredential, Vault!InHand, Vault!At,
       Vault!Ready

LEMMA Sealed ==
  ASSUME NEW d
  PROVE  Vault!decryptData(Vault!encryptData(d)) = d
BY DEF Vault!decryptData, Vault!encryptData, Vault!encrypt, Vault!decrypt

LEMMA DataToken ==
  ASSUME NEW d \in Vault!Data, d.shape = "token"
  PROVE  d = [shape |-> "token", value |-> d.value, due |-> d.due]
BY DEF Vault!Data

\* A request goes on, and only its own credential is written.
LEMMA VaultTogether ==
  ASSUME Vault!VaultInv, NEW c \in CredIds,
         DOMAIN s1' = CredIds, DOMAIN s4' = CredIds, DOMAIN s3' = Calls,
         \A x \in CredIds : x # c => s1'[x] = s1[x] /\ s4'[x] = s4[x] /\ (x \in s5' <=> x \in s5),
         Vault!Stored(c)', \A r \in Calls : Vault!InHand(r)'
  PROVE  Vault!VaultInv'
<1>1. ASSUME NEW x \in CredIds PROVE Vault!Stored(x)'
  <2>1. CASE x = c
    BY <2>1
  <2>2. CASE x # c
    BY <2>2 DEF Vault!VaultInv, Vault!Stored, Vault!Exists, Vault!GetCredential, Vault!Whole, Vault!IsToken,
                Vault!decryptData, Vault!decrypt
  <2> QED
    BY <2>1, <2>2
<1> QED
  BY <1>1 DEF Vault!VaultInv

\* A call keeps what it has in hand when no client stores anything else.
LEMMA HandStays ==
  ASSUME Vault!VaultInv, s4' = s4, s5' = s5, NEW r \in Calls, s3'[r] = s3[r]
  PROVE  Vault!InHand(r)'
BY DEF Vault!VaultInv, Vault!InHand, Vault!Whole, Vault!IsToken, Vault!At

LEMMA VaultGoes ==
  ASSUME Vault!VaultInv, NEW r \in Calls, NEW q, Vault!Goto(r, q)
  PROVE  DOMAIN s3' = Calls /\ s3'[r] = q /\ \A x \in Calls : x # r => s3'[x] = s3[x]
BY DEF Vault!VaultInv, Vault!Goto

\* A call that answers or shows a credential has nothing in hand.
LEMMA VaultShows ==
  ASSUME Vault!VaultInv, NEW r \in Calls,
         \/ Vault!Answer(r)
         \/ Vault!Goto(r, [pc |-> "panicked"])
         \/ \E c : Vault!Goto(r, [pc |-> "show", id |-> c])
  PROVE  DOMAIN s3' = Calls /\ Vault!InHand(r)' /\ \A x \in Calls : x # r => s3'[x] = s3[x]
<1>1. \E q : Vault!Goto(r, q) /\ q.pc # "refresh"
  <2>1. CASE Vault!Answer(r)
    <3>1. PICK q : q = Vault!Ready
      OBVIOUS
    <3>2. q.pc # "refresh" /\ Vault!Goto(r, q)
      BY <2>1, <3>1 DEF Vault!Answer, Vault!Ready
    <3> QED
      BY <3>2
  <2>2. CASE Vault!Goto(r, [pc |-> "panicked"])
    <3>1. PICK q : q = [pc |-> "panicked"]
      OBVIOUS
    <3>2. q.pc # "refresh" /\ Vault!Goto(r, q)
      BY <2>2, <3>1
    <3> QED
      BY <3>2
  <2>3. ASSUME NEW c, Vault!Goto(r, [pc |-> "show", id |-> c]) PROVE \E q : Vault!Goto(r, q) /\ q.pc # "refresh"
    <3>1. PICK q : q = [pc |-> "show", id |-> c]
      OBVIOUS
    <3>2. q.pc # "refresh" /\ Vault!Goto(r, q)
      BY <2>3, <3>1
    <3> QED
      BY <3>2
  <2> QED
    BY <2>1, <2>2, <2>3
<1>2. s3'[r].pc # "refresh"
  BY <1>1, VaultGoes
<1> QED
  BY <1>1, <1>2, VaultGoes DEF Vault!InHand, Vault!At

\* What a client stores: a refresh under way has crossed with it.
LEMMA ClientStores ==
  ASSUME Vault!VaultInv, NEW c \in CredIds, NEW d \in Vault!Data, Vault!Wrote(c, d), NEW r \in Calls,
         s3'[r] = s3[r]
  PROVE  Vault!InHand(r)'
<1>1. s4'[c] = d /\ (\A x \in CredIds : x # c => s4'[x] = s4[x]) /\ s5 \subseteq s5'
      /\ (\A x : x # c => (x \in s5' <=> x \in s5)) /\ (Vault!Refreshing(c) => c \in s5')
  BY DEF Vault!Wrote, Vault!VaultInv
<1>2. CASE s3[r].pc = "refresh" /\ s3[r].id = c
  <2>1. c \in s5'
    BY <1>1, <1>2 DEF Vault!Refreshing, Vault!At
  <2> QED
    BY <1>2, <2>1 DEF Vault!InHand, Vault!Whole
<1>3. CASE ~(s3[r].pc = "refresh" /\ s3[r].id = c)
  <2>1. SUFFICES ASSUME s3[r].pc = "refresh"
                 PROVE  /\ s3[r].id \in CredIds
                        /\ Vault!Whole(s3[r].id)' => Vault!IsToken(s3[r].token, s3[r].id)'
    BY DEF Vault!InHand, Vault!At
  <2>2. /\ s3[r].id \in CredIds /\ s3[r].id # c
        /\ Vault!Whole(s3[r].id) => Vault!IsToken(s3[r].token, s3[r].id)
    BY <1>3, <2>1 DEF Vault!VaultInv, Vault!InHand, Vault!At
  <2>3. s4'[s3[r].id] = s4[s3[r].id] /\ (s3[r].id \in s5' <=> s3[r].id \in s5)
    BY <1>1, <2>2
  <2> QED
    BY <2>2, <2>3 DEF Vault!Whole, Vault!IsToken
<1> QED
  BY <1>2, <1>3

LEMMA ClientStored ==
  ASSUME Vault!VaultInv, NEW c \in CredIds, NEW d \in Vault!Data, Vault!Wrote(c, d), NEW cred, NEW used,
         cred = [data |-> Vault!encryptData(d), used |-> used],
         s1' = [s1 EXCEPT ![c] = cred]
  PROVE  /\ DOMAIN s1' = CredIds /\ DOMAIN s4' = CredIds
         /\ \A x \in CredIds : x # c => s1'[x] = s1[x] /\ s4'[x] = s4[x] /\ (x \in s5' <=> x \in s5)
         /\ Vault!Stored(c)'
<1>1. /\ DOMAIN s1' = CredIds /\ DOMAIN s4' = CredIds /\ s1'[c] = cred /\ s4'[c] = d
      /\ \A x \in CredIds : x # c => s1'[x] = s1[x] /\ s4'[x] = s4[x] /\ (x \in s5' <=> x \in s5)
  BY DEF Vault!Wrote, Vault!VaultInv
<1>2. cred.data = Vault!encryptData(d) /\ cred.used = used
  OBVIOUS
<1>3. Vault!decryptData(cred.data) = d
  BY <1>2, Sealed
<1>4. d.shape = "token" => d = [shape |-> "token", value |-> d.value, due |-> d.due]
  BY DataToken
<1>5. (Vault!decryptData(s1[c].data))' = d
  BY <1>1, <1>3 DEF Vault!decryptData, Vault!decrypt
<1> QED
  BY <1>1, <1>2, <1>4, <1>5 DEF Vault!Stored, Vault!Whole, Vault!IsToken

LEMMA VaultCreates ==
  ASSUME Vault!VaultInv, NEW r \in Calls, NEW c \in CredIds, NEW d \in Vault!Data, Vault!createCredential(r, c, d)
  PROVE  Vault!VaultInv'
<1>1. s3' = s3 /\ Vault!Wrote(c, d)
  BY DEF Vault!createCredential
<1>2. PICK no : no = FALSE
  OBVIOUS
<1>3. PICK cred : cred = [data |-> Vault!encryptData(d), used |-> no]
  OBVIOUS
<1>4. s1' = [s1 EXCEPT ![c] = cred]
  BY <1>2, <1>3 DEF Vault!createCredential, Vault!NewCredential
<1>5. \A x \in Calls : Vault!InHand(x)'
  BY <1>1, ClientStores
<1>6. DOMAIN s3' = Calls
  BY <1>1 DEF Vault!VaultInv
<1> QED
  BY <1>1, <1>3, <1>4, <1>5, <1>6, ClientStored, VaultTogether

LEMMA VaultUpdates ==
  ASSUME Vault!VaultInv, NEW r \in Calls, NEW c \in CredIds, NEW d \in Vault!Data, Vault!updateCredential(r, c, d)
  PROVE  Vault!VaultInv'
<1>1. Vault!Wrote(c, d) /\ s1[c] # None
  BY DEF Vault!updateCredential, Vault!Exists, Vault!GetCredential
<1>2. s1[c] = [data |-> s1[c].data, used |-> s1[c].used]
  BY <1>1 DEF Vault!VaultInv, Vault!Stored, Vault!Exists, Vault!GetCredential
<1>3. PICK cred : cred = [s1[c] EXCEPT !.data = Vault!encryptData(d)]
  OBVIOUS
<1>4. cred = [data |-> Vault!encryptData(d), used |-> s1[c].used]
  BY <1>2, <1>3
<1>5. s1' = [s1 EXCEPT ![c] = cred]
  BY <1>3 DEF Vault!updateCredential, Vault!UpdateCredential, Vault!SetData
<1>6. DOMAIN s3' = Calls /\ Vault!InHand(r)' /\ \A x \in Calls : x # r => s3'[x] = s3[x]
  BY VaultShows DEF Vault!updateCredential
<1>7. \A x \in Calls : Vault!InHand(x)'
  BY <1>1, <1>6, ClientStores
<1> QED
  BY <1>1, <1>4, <1>5, <1>6, <1>7, ClientStored, VaultTogether

LEMMA VaultDeletes ==
  ASSUME Vault!VaultInv, NEW r \in Calls, NEW c \in CredIds, Vault!deleteCredential(r, c)
  PROVE  Vault!VaultInv'
<1>1. s1' = [s1 EXCEPT ![c] = None] /\ s3' = s3 /\ s4' = s4 /\ s5' = s5
  BY DEF Vault!deleteCredential
<1>2. DOMAIN s1' = CredIds /\ s1'[c] = None /\ \A x \in CredIds : x # c => s1'[x] = s1[x]
  BY <1>1 DEF Vault!VaultInv
<1>3. Vault!Stored(c)'
  BY <1>2 DEF Vault!Stored, Vault!Exists, Vault!GetCredential
<1>4. \A x \in Calls : Vault!InHand(x)'
  BY <1>1, HandStays
<1>5. DOMAIN s3' = Calls /\ DOMAIN s4' = CredIds
  BY <1>1 DEF Vault!VaultInv
<1> QED
  BY <1>1, <1>2, <1>3, <1>4, <1>5, VaultTogether

\* One credential is written with the data it had, or with the same token.
LEMMA Rewritten ==
  ASSUME Vault!VaultInv, NEW c \in CredIds, s1[c] # None, NEW cred, s4' = s4, s5' = s5,
         cred = [data |-> cred.data, used |-> cred.used],
         Vault!Whole(c) => Vault!IsToken(Vault!decryptData(cred.data), c),
         s1' = [s1 EXCEPT ![c] = cred]
  PROVE  /\ DOMAIN s1' = CredIds /\ DOMAIN s4' = CredIds
         /\ \A x \in CredIds : x # c => s1'[x] = s1[x] /\ s4'[x] = s4[x] /\ (x \in s5' <=> x \in s5)
         /\ Vault!Stored(c)'
<1>1. DOMAIN s1' = CredIds /\ DOMAIN s4' = CredIds /\ s1'[c] = cred /\ \A x \in CredIds : x # c => s1'[x] = s1[x]
  BY DEF Vault!VaultInv
<1>2. s4[c] \in Vault!Data
  BY DEF Vault!VaultInv, Vault!Stored, Vault!Exists, Vault!GetCredential
<1>3. Vault!Whole(c)' <=> Vault!Whole(c)
  BY DEF Vault!Whole
<1>4. (Vault!decryptData(s1[c].data))' = Vault!decryptData(cred.data)
  BY <1>1 DEF Vault!decryptData, Vault!decrypt
<1>5. Vault!Whole(c)' => Vault!IsToken(Vault!decryptData(s1[c].data), c)'
  BY <1>3, <1>4 DEF Vault!IsToken
<1> QED
  BY <1>1, <1>2, <1>5 DEF Vault!Stored

LEMMA VaultReads ==
  ASSUME Vault!VaultInv, NEW r \in Calls, NEW c \in CredIds, Vault!GetCredentialData(r, c)
  PROVE  Vault!VaultInv'
<1>1. s4' = s4 /\ s5' = s5 /\ s1[c] # None
  BY DEF Vault!GetCredentialData, Vault!Exists, Vault!GetCredential
<1>2. /\ s1[c] = [data |-> s1[c].data, used |-> s1[c].used]
      /\ Vault!Whole(c) => Vault!IsToken(Vault!decryptData(s1[c].data), c)
  BY <1>1 DEF Vault!VaultInv, Vault!Stored, Vault!Exists, Vault!GetCredential
<1>3. PICK yes : yes = TRUE
  OBVIOUS
<1>4. PICK cred : cred = [s1[c] EXCEPT !.used = yes]
  OBVIOUS
<1>5. cred = [data |-> s1[c].data, used |-> yes]
  BY <1>2, <1>4
<1>6. cred.data = s1[c].data /\ cred.used = yes
  BY <1>5
<1>7. s1' = [s1 EXCEPT ![c] = cred]
  BY <1>3, <1>4 DEF Vault!GetCredentialData, Vault!MarkUsed
<1>8. PICK t : t = Vault!OAuth2Token(Vault!decryptData(s1[c].data))
  OBVIOUS
<1>9. Vault!Whole(c) => Vault!IsToken(t, c)
  <2> SUFFICES ASSUME Vault!Whole(c) PROVE Vault!IsToken(t, c)
    OBVIOUS
  <2>1. PICK d : d = Vault!decryptData(s1[c].data)
    OBVIOUS
  <2>2. d = [shape |-> "token", value |-> s4[c].value, due |-> d.due]
    BY <1>2, <2>1 DEF Vault!IsToken
  <2>3. d.shape = "token"
    BY <2>2
  <2>4. t = d
    BY <1>8, <2>1, <2>3 DEF Vault!OAuth2Token
  <2> QED
    BY <2>2, <2>4 DEF Vault!IsToken
<1>10. DOMAIN s3' = Calls /\ Vault!InHand(r)' /\ \A x \in Calls : x # r => s3'[x] = s3[x]
  <2>1. CASE Vault!Goto(r, [pc |-> "show", id |-> c])
    BY <2>1, VaultShows
  <2>2. CASE Vault!Goto(r, [pc |-> "refresh", id |-> c, token |-> t])
    <3>1. PICK q : q = [pc |-> "refresh", id |-> c, token |-> t]
      OBVIOUS
    <3>2. q.pc = "refresh" /\ q.id = c /\ q.token = t
      BY <3>1
    <3>3. Vault!Goto(r, q)
      BY <2>2, <3>1
    <3>4. DOMAIN s3' = Calls /\ s3'[r] = q /\ \A x \in Calls : x # r => s3'[x] = s3[x]
      BY <3>3, VaultGoes
    <3>5. Vault!InHand(r)'
      BY <1>1, <1>9, <3>2, <3>4 DEF Vault!InHand, Vault!Whole, Vault!IsToken
    <3> QED
      BY <3>4, <3>5
  <2> QED
    BY <1>8, <2>1, <2>2 DEF Vault!GetCredentialData
<1>11. \A x \in Calls : Vault!InHand(x)'
  BY <1>1, <1>10, HandStays
<1>12. cred = [data |-> cred.data, used |-> cred.used]
  BY <1>5, <1>6
<1> QED
  BY <1>1, <1>2, <1>6, <1>7, <1>10, <1>11, <1>12, Rewritten, VaultTogether

LEMMA VaultRefreshes ==
  ASSUME Vault!VaultInv, NEW r \in Calls, Vault!RefreshOAuth2Token(r)
  PROVE  Vault!VaultInv'
<1>1. s4' = s4 /\ s5' = s5 /\ s3[r].pc = "refresh"
  BY DEF Vault!RefreshOAuth2Token, Vault!At
<1>2. PICK c \in CredIds : c = s3[r].id
  BY <1>1 DEF Vault!VaultInv, Vault!InHand, Vault!At
<1>3. DOMAIN s3' = Calls /\ Vault!InHand(r)' /\ \A x \in Calls : x # r => s3'[x] = s3[x]
  BY VaultShows DEF Vault!RefreshOAuth2Token
<1>4. \A x \in Calls : Vault!InHand(x)'
  BY <1>1, <1>3, HandStays
<1>5. CASE s1[c] = None
  <2>1. s1' = s1
    BY <1>2, <1>5 DEF Vault!RefreshOAuth2Token, Vault!Exists, Vault!GetCredential
  <2>2. Vault!Stored(c)'
    BY <1>5, <2>1 DEF Vault!Stored, Vault!Exists, Vault!GetCredential
  <2> QED
    BY <1>1, <1>3, <1>4, <2>1, <2>2, VaultTogether DEF Vault!VaultInv
<1>6. CASE s1[c] # None
  <2>1. PICK d : d = [s3[r].token EXCEPT !.due = FALSE]
    OBVIOUS
  <2>2. PICK no : no = FALSE
    OBVIOUS
  <2>3. Vault!Whole(c) => d = [shape |-> "token", value |-> s4[c].value, due |-> no]
    <3> SUFFICES ASSUME Vault!Whole(c) PROVE d = [shape |-> "token", value |-> s4[c].value, due |-> no]
      OBVIOUS
    <3>1. s3[r].token = [shape |-> "token", value |-> s4[c].value, due |-> s3[r].token.due]
      BY <1>1, <1>2 DEF Vault!VaultInv, Vault!InHand, Vault!At, Vault!IsToken
    <3>2. d = [s3[r].token EXCEPT !.due = no]
      BY <2>1, <2>2
    <3> QED
      BY <3>1, <3>2
  <2>4. Vault!Whole(c) => Vault!IsToken(d, c)
    <3> SUFFICES ASSUME Vault!Whole(c) PROVE Vault!IsToken(d, c)
      OBVIOUS
    <3>1. d = [shape |-> "token", value |-> s4[c].value, due |-> no] /\ d.due = no
      BY <2>3
    <3> QED
      BY <3>1 DEF Vault!IsToken
  <2>5. s1[c] = [data |-> s1[c].data, used |-> s1[c].used]
    BY <1>6 DEF Vault!VaultInv, Vault!Stored, Vault!Exists, Vault!GetCredential
  <2>6. PICK cred : cred = [s1[c] EXCEPT !.data = Vault!encryptData(d)]
    OBVIOUS
  <2>7. cred = [data |-> Vault!encryptData(d), used |-> s1[c].used]
    BY <2>5, <2>6
  <2>8. cred.data = Vault!encryptData(d) /\ cred = [data |-> cred.data, used |-> cred.used]
    BY <2>7
  <2>9. s1' = [s1 EXCEPT ![c] = cred]
    BY <1>2, <1>6, <2>1, <2>6
       DEF Vault!RefreshOAuth2Token, Vault!UpdateCredential, Vault!SetData, Vault!RefreshedData, Vault!Exists,
           Vault!GetCredential
  <2>10. Vault!decryptData(cred.data) = d
    BY <2>8, Sealed
  <2> QED
    BY <1>1, <1>3, <1>4, <1>6, <2>4, <2>8, <2>9, <2>10, Rewritten, VaultTogether
<1> QED
  BY <1>5, <1>6

LEMMA VaultAges ==
  ASSUME Vault!VaultInv, NEW c \in CredIds, Vault!TokenAges(c)
  PROVE  Vault!VaultInv'
<1>1. s3' = s3 /\ s4' = s4 /\ s5' = s5 /\ s1[c] # None
  BY DEF Vault!TokenAges, Vault!Exists, Vault!GetCredential
<1>2. /\ s1[c] = [data |-> s1[c].data, used |-> s1[c].used]
      /\ Vault!Whole(c) => Vault!IsToken(Vault!decryptData(s1[c].data), c)
  BY <1>1 DEF Vault!VaultInv, Vault!Stored, Vault!Exists, Vault!GetCredential
<1>3. PICK old : old = Vault!decryptData(s1[c].data)
  OBVIOUS
<1>4. PICK d : d = [old EXCEPT !.due = TRUE]
  OBVIOUS
<1>5. PICK yes : yes = TRUE
  OBVIOUS
<1>6. Vault!Whole(c) => Vault!IsToken(d, c)
  <2> SUFFICES ASSUME Vault!Whole(c) PROVE Vault!IsToken(d, c)
    OBVIOUS
  <2>1. old = [shape |-> "token", value |-> s4[c].value, due |-> old.due]
    BY <1>2, <1>3 DEF Vault!IsToken
  <2>2. d = [old EXCEPT !.due = yes]
    BY <1>4, <1>5
  <2>3. d = [shape |-> "token", value |-> s4[c].value, due |-> yes]
    BY <2>1, <2>2
  <2>4. d.due = yes
    BY <2>3
  <2> QED
    BY <2>3, <2>4 DEF Vault!IsToken
<1>7. PICK cred : cred = [s1[c] EXCEPT !.data = Vault!encryptData(d)]
  OBVIOUS
<1>8. cred = [data |-> Vault!encryptData(d), used |-> s1[c].used]
  BY <1>2, <1>7
<1>9. cred.data = Vault!encryptData(d) /\ cred = [data |-> cred.data, used |-> cred.used]
  BY <1>8
<1>10. s1' = [s1 EXCEPT ![c] = cred]
  BY <1>3, <1>4, <1>7 DEF Vault!TokenAges
<1>11. Vault!decryptData(cred.data) = d
  BY <1>9, Sealed
<1>12. \A x \in Calls : Vault!InHand(x)'
  BY <1>1, HandStays
<1>13. DOMAIN s3' = Calls
  BY <1>1 DEF Vault!VaultInv
<1> QED
  BY <1>1, <1>6, <1>9, <1>10, <1>11, <1>12, <1>13, Rewritten, VaultTogether

LEMMA VaultAlone ==
  ASSUME Vault!VaultInv, s1' = s1, s4' = s4, s5' = s5,
         DOMAIN s3' = Calls, \A r \in Calls : Vault!InHand(r)'
  PROVE  Vault!VaultInv'
BY DEF Vault!VaultInv, Vault!Stored, Vault!Exists, Vault!GetCredential, Vault!Whole, Vault!IsToken,
       Vault!decryptData, Vault!decrypt

LEMMA VaultStep == Vault!VaultInv /\ Vault!VaultNext => Vault!VaultInv'
<1> SUFFICES ASSUME Vault!VaultInv, Vault!VaultNext PROVE Vault!VaultInv'
  OBVIOUS
<1>1. ASSUME NEW r \in Calls, Vault!toCredentialResponseFromModel(r) \/ Vault!recovered(r) PROVE Vault!VaultInv'
  <2>1. s1' = s1 /\ s4' = s4 /\ s5' = s5
    BY <1>1 DEF Vault!toCredentialResponseFromModel, Vault!recovered
  <2>2. DOMAIN s3' = Calls /\ Vault!InHand(r)' /\ \A x \in Calls : x # r => s3'[x] = s3[x]
    BY <1>1, VaultShows DEF Vault!toCredentialResponseFromModel, Vault!recovered
  <2>3. \A x \in Calls : Vault!InHand(x)'
    BY <2>1, <2>2, HandStays
  <2> QED
    BY <2>1, <2>2, <2>3, VaultAlone
<1>2. ASSUME s1' = s1, s3' = s3, s4' = s4, s5' = s5 PROVE Vault!VaultInv'
  <2>1. \A x \in Calls : Vault!InHand(x)'
    BY <1>2, HandStays
  <2> QED
    BY <1>2, <2>1, VaultAlone DEF Vault!VaultInv
<1>3. ASSUME NEW r \in Calls, Vault!handleCredentials(r) PROVE Vault!VaultInv'
  BY <1>3, VaultCreates DEF Vault!handleCredentials
<1>4. ASSUME NEW r \in Calls, Vault!handleCredentialByID(r) PROVE Vault!VaultInv'
  BY <1>4, VaultUpdates, VaultDeletes DEF Vault!handleCredentialByID
<1>5. ASSUME NEW r \in Calls, Vault!refreshCredential(r) PROVE Vault!VaultInv'
  BY <1>5, VaultReads DEF Vault!refreshCredential
<1> QED
  BY <1>1, <1>2, <1>3, <1>4, <1>5, VaultRefreshes, VaultAges DEF Vault!VaultNext

LEMMA SecretsAreKept == Vault!VaultInv => Vault!TokenSurvives
<1> SUFFICES ASSUME Vault!VaultInv, NEW c \in CredIds, Vault!Exists(c), Vault!Whole(c)
             PROVE  Vault!decryptData(s1[c].data).value = s4[c].value
  BY DEF Vault!TokenSurvives, Vault!Whole
<1>1. PICK d : d = Vault!decryptData(s1[c].data)
  OBVIOUS
<1>2. d = [shape |-> "token", value |-> s4[c].value, due |-> d.due]
  BY <1>1 DEF Vault!VaultInv, Vault!Stored, Vault!IsToken
<1>3. d.value = s4[c].value
  BY <1>2
<1> QED
  BY <1>1, <1>3
-----------------------------------------------------------------------------
(* The encryption of one credential: what its flag says.                   *)
LEMMA PlainIs ==
  ASSUME NEW odd
  PROVE  Vault!Plain(odd).key = None /\ Vault!Plain(odd).prefix = odd /\ Vault!Plain(odd).text = odd
BY DEF Vault!Plain

LEMMA NoTextIs == Vault!NoText.key = None /\ Vault!NoText.text = None /\ Vault!NoText.prefix = FALSE
BY DEF Vault!NoText

LEMMA CryptStart == Vault!CryptInit => Vault!CryptInv
<1> SUFFICES ASSUME Vault!CryptInit PROVE Vault!CryptInv
  OBVIOUS
<1>1. PICK no \in BOOLEAN : no = FALSE
  OBVIOUS
<1>2. s1 = [data |-> s4, isEncrypted |-> no]
  BY <1>1 DEF Vault!CryptInit
<1>3. s1.data = s4 /\ s1.isEncrypted = no
  BY <1>2
<1>4. s4 \in [Fields -> {Vault!Plain(TRUE), Vault!Plain(FALSE), Vault!NoText}] /\ s3 \in Keys /\ s2 = {}
  BY DEF Vault!CryptInit, Vault!NewEncryptor
<1>5. \A f \in Fields : Vault!Kept(f)
  BY <1>3 DEF Vault!Kept
<1>6. Vault!FlagIsTrue
  BY <1>1, <1>3 DEF Vault!FlagIsTrue
<1> QED
  BY <1>2, <1>3, <1>4, <1>5, <1>6 DEF Vault!CryptInv

\* A field as it was given is not sealed, and a text has its form.
LEMMA GivenIsPlain ==
  ASSUME Vault!CryptInv, NEW f \in Fields
  PROVE  /\ s4[f].key = None
         /\ Vault!IsText(s4[f]) => s4[f] = Vault!Plain(s4[f].text)
<1>1. CASE s4[f] = Vault!NoText
  BY <1>1, NoTextIs DEF Vault!IsText
<1>2. ASSUME NEW odd, s4[f] = Vault!Plain(odd)
      PROVE  s4[f].key = None /\ s4[f] = Vault!Plain(s4[f].text)
  BY <1>2, PlainIs
<1> QED
  BY <1>1, <1>2 DEF Vault!CryptInv

LEMMA CryptSeals ==
  ASSUME Vault!CryptInv, Vault!EncryptCredential
  PROVE  Vault!CryptInv'
<1>1. s2' = s2 /\ s3' = s3 /\ s4' = s4 /\ s5' = s5 /\ s2 = {} /\ ~s1.isEncrypted
  BY DEF Vault!EncryptCredential
<1>2. PICK yes \in BOOLEAN : yes = TRUE
  OBVIOUS
<1>3. PICK data : data = [f \in Fields |-> IF f \in SensitiveFields /\ Vault!IsText(s1.data[f])
                                           THEN Vault!EncryptString(s1.data[f])
                                           ELSE s1.data[f]]
  OBVIOUS
<1>4. s1' = [isEncrypted |-> yes, data |-> data]
  BY <1>2, <1>3 DEF Vault!EncryptCredential
<1>5. s1'.isEncrypted = yes /\ s1'.data = data /\ DOMAIN data = Fields
      /\ s1' = [data |-> s1'.data, isEncrypted |-> s1'.isEncrypted]
  BY <1>3, <1>4
<1>6. s1.data = s4 /\ s3 \in Keys
  BY <1>1 DEF Vault!CryptInv, Vault!FlagIsTrue
<1>7. ASSUME NEW f \in Fields
      PROVE  /\ Vault!Kept(f)'
             /\ f \in SensitiveFields => (data[f].key # None <=> Vault!IsText(s4[f]))
  <2>1. CASE f \in SensitiveFields /\ Vault!IsText(s1.data[f])
    <3>1. PICK v : v = Vault!EncryptString(s1.data[f])
      OBVIOUS
    <3>2. data[f] = v
      BY <1>3, <2>1, <3>1
    <3>3. v = [key |-> s3, prefix |-> yes, text |-> s4[f].text]
      BY <1>2, <1>6, <3>1 DEF Vault!EncryptString
    <3>4. v.key = s3 /\ v.prefix = TRUE /\ v.text = s4[f].text
      BY <1>2, <3>3
    <3>5. s1'.data[f] = v
      BY <1>5, <3>2
    <3> QED
      BY <1>1, <1>6, <2>1, <3>2, <3>4, <3>5, KeyAssumption DEF Vault!Kept
  <2>2. CASE ~(f \in SensitiveFields /\ Vault!IsText(s1.data[f]))
    <3>1. s1'.data[f] = s4[f] /\ data[f] = s4[f]
      BY <1>3, <1>5, <1>6, <2>2
    <3> QED
      BY <1>1, <1>6, <2>2, <3>1, GivenIsPlain DEF Vault!Kept
  <2> QED
    BY <2>1, <2>2
<1>8. Vault!FlagIsTrue'
  BY <1>1, <1>2, <1>5, <1>7, KeyAssumption DEF Vault!FlagIsTrue
<1>9. s1'.data = [f \in Fields |-> s1'.data[f]]
  BY <1>3, <1>5
<1> QED
  BY <1>1, <1>5, <1>6, <1>7, <1>8, <1>9 DEF Vault!CryptInv

LEMMA CryptOpens ==
  ASSUME Vault!CryptInv, Vault!DecryptCredential
  PROVE  Vault!CryptInv'
<1>1. s1' = s1 /\ s3' = s3 /\ s4' = s4 /\ s5' = s5 /\ s2 = {} /\ s1.isEncrypted /\ s2' = Fields
  BY DEF Vault!DecryptCredential
<1>2. \A f \in Fields : Vault!Kept(f)'
  BY <1>1 DEF Vault!CryptInv, Vault!Kept
<1>3. Vault!FlagIsTrue'
  BY <1>1 DEF Vault!CryptInv, Vault!FlagIsTrue
<1> QED
  BY <1>1, <1>2, <1>3 DEF Vault!CryptInv

\* A field that is opened, or needs no opening, is as it was given.
LEMMA FieldDone ==
  ASSUME Vault!CryptInv, NEW f \in s2, s3' = s3, s4' = s4, s5' = s5, s2' = s2 \ {f},
         NEW data, data = [g \in Fields |-> data[g]], data[f] = s4[f], \A g \in Fields : g # f => data[g] = s1.data[g],
         Vault!AfterField(f, data)
  PROVE  Vault!CryptInv'
<1>1. PICK flag \in BOOLEAN : flag <=> s2 # {f}
  OBVIOUS
<1>2. flag = (s2 # {f})
  BY <1>1
<1>3. s1' = [data |-> data, isEncrypted |-> flag]
  BY <1>2 DEF Vault!AfterField
<1>4. s1'.data = data /\ s1'.isEncrypted = flag
  BY <1>3
<1>5. f \in Fields /\ s2' \subseteq Fields
  BY DEF Vault!CryptInv
<1>6. \A g \in Fields : Vault!Kept(g)'
  <2> SUFFICES ASSUME NEW g \in Fields PROVE Vault!Kept(g)'
    OBVIOUS
  <2>1. Vault!Kept(g)
    BY DEF Vault!CryptInv
  <2>2. CASE g = f
    BY <1>4, <2>2 DEF Vault!Kept
  <2>3. CASE g # f
    <3>1. s1'.data[g] = s1.data[g]
      BY <1>4, <2>3
    <3> QED
      BY <2>1, <3>1 DEF Vault!Kept
  <2> QED
    BY <2>2, <2>3
<1>7. \A g \in Fields : g \notin s2' => data[g] = s4[g]
  BY DEF Vault!CryptInv
<1>8. s2' = {} => data = s4 /\ flag = FALSE
  <2> SUFFICES ASSUME s2' = {} PROVE data = s4 /\ flag = FALSE
    OBVIOUS
  <2>1. s2 = {f}
    OBVIOUS
  <2>2. \A g \in Fields : data[g] = s4[g]
    BY <1>7
  <2>3. DOMAIN s4 = Fields /\ s4 = [g \in Fields |-> s4[g]]
    BY DEF Vault!CryptInv
  <2> QED
    BY <1>1, <2>1, <2>2, <2>3
<1>9. s2' # {} => flag
  BY <1>1
<1>10. Vault!FlagIsTrue'
  BY <1>4, <1>8, <1>9 DEF Vault!FlagIsTrue
<1> QED
  BY <1>3, <1>4, <1>5, <1>6, <1>7, <1>10 DEF Vault!CryptInv

LEMMA CryptDecrypts ==
  ASSUME Vault!CryptInv, Vault!DecryptField
  PROVE  Vault!CryptInv'
<1>1. s3' = s3 /\ s4' = s4
  BY DEF Vault!DecryptField
<1>2. PICK f \in s2 :
        LET v == s1.data[f] IN
        IF ~v.prefix
        THEN Vault!AfterField(f, s1.data) /\ s2' = s2 \ {f} /\ s5' = s5
        ELSE IF v.key = s3
        THEN /\ Vault!AfterField(f, [s1.data EXCEPT ![f] = Vault!Plain(v.text)])
             /\ s2' = s2 \ {f} /\ s5' = s5
        ELSE s2' = {} /\ s5' = TRUE /\ s1' = s1
  BY DEF Vault!DecryptField, Vault!HasPrefix, Vault!Opens, Vault!DecryptString
<1>3. f \in Fields /\ s3 \in Keys
  BY DEF Vault!CryptInv
<1>4. Vault!Kept(f)
  BY <1>3 DEF Vault!CryptInv
<1>5. s1.data = [g \in Fields |-> s1.data[g]]
  BY DEF Vault!CryptInv
<1>6. CASE ~s1.data[f].prefix
  <2>1. s1.data[f] = s4[f]
    BY <1>4, <1>6 DEF Vault!Kept
  <2> QED
    BY <1>1, <1>2, <1>5, <1>6, <2>1, FieldDone
<1>7. CASE s1.data[f].prefix /\ s1.data[f].key = s3
  <2>1. s1.data[f] # s4[f]
    BY <1>3, <1>7, GivenIsPlain, KeyAssumption
  <2>2. s1.data[f].text = s4[f].text /\ Vault!IsText(s4[f])
    BY <1>4, <2>1 DEF Vault!Kept
  <2>3. PICK data : data = [s1.data EXCEPT ![f] = Vault!Plain(s1.data[f].text)]
    OBVIOUS
  <2>4. data = [g \in Fields |-> data[g]] /\ data[f] = s4[f] /\ \A g \in Fields : g # f => data[g] = s1.data[g]
    <3>1. data[f] = Vault!Plain(s1.data[f].text) /\ (\A g \in Fields : g # f => data[g] = s1.data[g])
      BY <1>3, <1>5, <2>3
    <3>2. data = [g \in Fields |-> data[g]]
      BY <1>5, <2>3
    <3> QED
      BY <1>3, <2>2, <3>1, <3>2, GivenIsPlain
  <2> QED
    BY <1>1, <1>2, <1>7, <2>3, <2>4, FieldDone
<1>8. CASE s1.data[f].prefix /\ s1.data[f].key # s3
  <2>1. s2' = {} /\ s5' = TRUE /\ s1' = s1
    BY <1>2, <1>8
  <2>2. \A g \in Fields : Vault!Kept(g)'
    BY <1>1, <2>1 DEF Vault!CryptInv, Vault!Kept
  <2>3. Vault!FlagIsTrue'
    BY <1>1, <2>1 DEF Vault!CryptInv, Vault!FlagIsTrue
  <2> QED
    BY <1>1, <2>1, <2>2, <2>3 DEF Vault!CryptInv
<1> QED
  BY <1>6, <1>7, <1>8

LEMMA CryptRekeys ==
  ASSUME Vault!CryptInv, Vault!Rekey
  PROVE  Vault!CryptInv'
<1>1. s1' = s1 /\ s2' = s2 /\ s4' = s4 /\ s5' = s5 /\ s3' \in Keys
  BY DEF Vault!Rekey
<1>2. \A g \in Fields : Vault!Kept(g)'
  BY <1>1 DEF Vault!CryptInv, Vault!Kept
<1>3. Vault!FlagIsTrue'
  BY <1>1 DEF Vault!CryptInv, Vault!FlagIsTrue
<1> QED
  BY <1>1, <1>2, <1>3 DEF Vault!CryptInv

LEMMA CryptStep == Vault!CryptInv /\ Vault!CryptNext => Vault!CryptInv'
BY CryptSeals, CryptOpens, CryptDecrypts, CryptRekeys DEF Vault!CryptNext
-----------------------------------------------------------------------------
(* Migrations: the schema and its record while one request runs.           *)
Applied == Schema!GetAppliedMigrations

LEMMA AppliedAreFiles == Applied \subseteq UpFiles
BY DEF Applied, Schema!GetAppliedMigrations

LEMMA VersionsCount ==
  ASSUME NEW S, IsFiniteSet(S)
  PROVE  Schema!Cardinality(S) = Cardinality(S) /\ Cardinality(S) \in Nat
<1>1. Schema!Cardinality(S) = Cardinality(S)
  BY DEF Schema!Cardinality, Cardinality
<1> QED
  BY <1>1, FS_CardinalityType

\* Every set of naturals that is not empty has a least element.
LEMMA Least ==
  ASSUME NEW T, T \subseteq Nat, T # {}
  PROVE  \E m \in T : \A k \in T : m <= k
<1> DEFINE R == OpToRel(<, Nat)
<1>1. IsWellFoundedOn(R, Nat)
  BY NatLessThanWellFounded
<1>2. \A x, y \in Nat : <<x, y>> \in R <=> x < y
  BY DEF OpToRel
<1> HIDE DEF R
<1>3. PICK m \in T : \A y \in T : ~(<<y, m>> \in R)
  BY <1>1, WFMin
<1>4. ASSUME NEW k \in T PROVE m <= k
  <2>1. m \in Nat /\ k \in Nat
    OBVIOUS
  <2>2. ~(k < m)
    BY <1>2, <1>3, <2>1
  <2> QED
    BY <2>1, <2>2
<1> QED
  BY <1>4

\* A set of versions has a greatest one: the one with the fewest above it.
LEMMA Greatest ==
  ASSUME NEW S, S \subseteq UpFiles, S # {}
  PROVE  \E m \in S : \A k \in S : k <= m
<1> DEFINE Above(v) == {w \in S : w > v}
<1>1. IsFiniteSet(S) /\ S \subseteq Nat
  BY FS_Subset, MigrationAssumption
<1>2. \A v \in S : IsFiniteSet(Above(v)) /\ Cardinality(Above(v)) \in Nat
  <2>1. \A v \in S : Above(v) \subseteq S
    OBVIOUS
  <2> HIDE DEF Above
  <2> QED
    BY <1>1, <2>1, FS_Subset, FS_CardinalityType
<1> DEFINE T == {Cardinality(Above(v)) : v \in S}
<1>3. PICK n \in T : \A k \in T : n <= k
  <2>1. T \subseteq Nat /\ T # {}
    BY <1>2
  <2> HIDE DEF T
  <2> QED
    BY <2>1, Least
<1>4. PICK m \in S : n = Cardinality(Above(m))
  OBVIOUS
<1>5. ASSUME NEW k \in S, m < k PROVE FALSE
  <2>1. Above(k) \subseteq Above(m) /\ k \in Above(m) /\ k \notin Above(k)
    <3>1. \A w \in S : w \in Nat
      BY <1>1
    <3> QED
      BY <1>5, <3>1
  <2>2. Cardinality(Above(m)) <= Cardinality(Above(k))
    BY <1>3, <1>4
  <2>3. IsFiniteSet(Above(m)) /\ Cardinality(Above(k)) \in Nat /\ Cardinality(Above(m)) \in Nat
    BY <1>2
  <2> HIDE DEF Above
  <2>4. Cardinality(Above(k)) <= Cardinality(Above(m))
    BY <2>1, <2>3, FS_Subset
  <2>5. Cardinality(Above(k)) = Cardinality(Above(m))
    BY <2>2, <2>3, <2>4
  <2> QED
    BY <2>1, <2>3, <2>5, FS_Subset
<1> QED
  BY <1>1, <1>5

\* Without a gap the applied versions are those up to the current one.
LEMMA CurrentEnds ==
  ASSUME Schema!NoGap(Applied)
  PROVE  \A v \in UpFiles : v \in Applied <=> v <= Schema!GetCurrentVersion
<1>1. CASE Applied = {}
  BY <1>1, MigrationAssumption DEF Applied, Schema!GetCurrentVersion, Schema!NoVersion
<1>2. CASE Applied # {}
  <2>1. \E m \in Applied : \A k \in Applied : k <= m
    BY <1>2, AppliedAreFiles, Greatest
  <2>2. PICK m : m = CHOOSE v \in Applied : \A w \in Applied : w <= v
    OBVIOUS
  <2>3. m \in Applied /\ \A k \in Applied : k <= m
    BY <2>1, <2>2
  <2>4. Schema!GetCurrentVersion = m
    BY <1>2, <2>2 DEF Schema!GetCurrentVersion, Applied
  <2>5. UpFiles \subseteq Nat /\ m \in UpFiles
    BY <2>3, AppliedAreFiles, MigrationAssumption
  <2> QED
    BY <2>3, <2>4, <2>5 DEF Schema!NoGap
<1> QED
  BY <1>1, <1>2

\* A plan that is cut short keeps its front.
LEMMA FrontKept ==
  ASSUME NEW up \in BOOLEAN, NEW S, S \subseteq UpFiles, NEW steps \in Nat,
         NEW v \in Schema!Limited(up, S, steps), NEW w \in S, Schema!Before(up, w, v)
  PROVE  w \in Schema!Limited(up, S, steps)
<1> DEFINE Front(x) == {y \in S : Schema!Before(up, y, x)}
<1>1. S \subseteq Nat /\ IsFiniteSet(S) /\ v \in S
  BY FS_Subset, MigrationAssumption DEF Schema!Limited
<1>2. Front(w) \subseteq Front(v) /\ Front(v) \subseteq S
  <2>1. \A y \in S : y \in Nat
    BY <1>1
  <2>2. \A y \in S : Schema!Before(up, y, w) => Schema!Before(up, y, v)
    BY <1>1, <2>1 DEF Schema!Before, Schema!Ascending, Schema!Descending
  <2> QED
    BY <2>2
<1>3. steps = 0 \/ Schema!Cardinality(Front(v)) < steps
  BY DEF Schema!Limited
<1>4. (steps = 0 \/ Schema!Cardinality(Front(w)) < steps) => w \in Schema!Limited(up, S, steps)
  BY DEF Schema!Limited
<1> HIDE DEF Front
<1>5. IsFiniteSet(Front(v)) /\ IsFiniteSet(Front(w))
  BY <1>1, <1>2, FS_Subset
<1>6. Cardinality(Front(w)) <= Cardinality(Front(v))
  BY <1>2, <1>5, FS_Subset
<1> QED
  BY <1>3, <1>4, <1>5, <1>6, VersionsCount

LEMMA SchemaStart == Schema!Init => Schema!SchemaInv
<1> SUFFICES ASSUME Schema!Init PROVE Schema!SchemaInv
  OBVIOUS
<1>1. /\ DOMAIN s3 = UpFiles /\ \A v \in UpFiles : s3[v] = "none"
      /\ DOMAIN s5 = Calls /\ \A r \in Calls : s5[r] = Schema!Ready
      /\ s2 = {}
  BY DEF Schema!Init, Schema!EnsureMigrationTable
<1>2. Schema!GetAppliedMigrations = {}
  BY <1>1 DEF Schema!GetAppliedMigrations
<1>3. \A r \in Calls : Schema!KnownCall(r) /\ Schema!At(r, "ready")
  BY <1>1 DEF Schema!KnownCall, Schema!At, Schema!Ready
<1>4. Schema!Undisturbed
  BY <1>1, <1>2, <1>3 DEF Schema!Undisturbed, Schema!Alone, Schema!NoGap
<1> QED
  BY <1>1, <1>3, <1>4 DEF Schema!SchemaInv

\* A request at q, with fields that can be told apart.
AtWork(q) ==
  /\ q = [pc |-> q.pc, up |-> q.up, plan |-> q.plan, reset |-> q.reset]
  /\ q.pc \in {"run", "record"} /\ q.up \in BOOLEAN /\ q.plan \subseteq UpFiles

\* What a request leaves that goes on at q.
LEMMA SchemaTogether ==
  ASSUME Schema!SchemaInv, NEW r \in Calls, NEW q, Schema!Goto(r, q),
         q = Schema!Ready \/ AtWork(q),
         s2' \subseteq UpFiles, DOMAIN s3' = UpFiles,
         ~s6' => Schema!Undisturbed'
  PROVE  Schema!SchemaInv'
<1>1. DOMAIN s5' = Calls /\ s5'[r] = q /\ \A o \in Calls : o # r => s5'[o] = s5[o]
  BY DEF Schema!SchemaInv, Schema!Goto
<1>2. ASSUME NEW o \in Calls PROVE Schema!KnownCall(o)'
  BY <1>1 DEF Schema!SchemaInv, Schema!KnownCall, AtWork
<1> QED
  BY <1>1, <1>2 DEF Schema!SchemaInv

\* The one request that runs goes on, or ends.
LEMMA StillAlone ==
  ASSUME Schema!SchemaInv, NEW r \in Calls, NEW q, Schema!Goto(r, q), Schema!Undisturbed,
         \A o \in Calls : o # r => Schema!At(o, "ready"),
         Schema!NoGap(Applied)',
         q.pc # "ready" => Schema!FromTheEnd(q)' /\ Schema!Ahead(q)',
         q.pc # "record" => s2' = Applied'
  PROVE  Schema!Undisturbed'
<1>1. DOMAIN s5' = Calls /\ s5'[r] = q /\ \A o \in Calls : o # r => s5'[o] = s5[o]
  BY DEF Schema!SchemaInv, Schema!Goto
<1>2. \A o \in Calls : o # r => s5'[o].pc = "ready"
  BY <1>1 DEF Schema!At
<1>3. Schema!Alone'
  BY <1>1, <1>2 DEF Schema!Alone, Schema!At
<1>4. ASSUME NEW o \in Calls, ~Schema!At(o, "ready")'
      PROVE  (Schema!FromTheEnd(s5[o]) /\ Schema!Ahead(s5[o]))'
  <2>1. o = r /\ q.pc # "ready"
    BY <1>1, <1>2, <1>4 DEF Schema!At
  <2> QED
    BY <1>1, <2>1 DEF Schema!FromTheEnd, Schema!Ahead, Schema!Foremost
<1>5. (\A o \in Calls : ~Schema!At(o, "record"))' => s2' = Schema!GetAppliedMigrations'
  BY <1>1 DEF Schema!At, Applied
<1> QED
  BY <1>3, <1>4, <1>5 DEF Schema!Undisturbed, Applied

LEMMA CurrentIsVersion == Schema!GetCurrentVersion \in Nat
<1>1. CASE Applied = {}
  BY <1>1 DEF Applied, Schema!GetCurrentVersion, Schema!NoVersion
<1>2. CASE Applied # {}
  <2>1. \E m \in Applied : \A k \in Applied : k <= m
    BY <1>2, AppliedAreFiles, Greatest
  <2>2. PICK m : m = CHOOSE v \in Applied : \A w \in Applied : w <= v
    OBVIOUS
  <2>3. m \in Applied
    BY <2>1, <2>2
  <2>4. Schema!GetCurrentVersion = m
    BY <1>2, <2>2 DEF Schema!GetCurrentVersion, Applied
  <2> QED
    BY <2>3, <2>4, AppliedAreFiles, MigrationAssumption
<1> QED
  BY <1>1, <1>2

\* A plan goes on where the applied versions end.
LEMMA UpFromTheEnd ==
  ASSUME Schema!NoGap(Applied), NEW steps \in Nat, NEW q, q.up = TRUE, q.plan = Schema!UpPlan(steps)
  PROVE  Schema!FromTheEnd(q) /\ q.plan \subseteq UpFiles
<1>1. PICK S : S = Schema!PendingUps
  OBVIOUS
<1>2. /\ S \subseteq UpFiles /\ \A v \in S : v > Schema!GetCurrentVersion
      /\ \A v \in UpFiles : v > Schema!GetCurrentVersion => v \in S
  BY <1>1 DEF Schema!PendingUps, Schema!loadMigrations
<1>3. q.plan = Schema!Limited(TRUE, S, steps)
  BY <1>1 DEF Schema!UpPlan
<1>4. q.plan \subseteq S
  BY <1>3 DEF Schema!Limited
<1>5. \A v \in UpFiles : v \in Nat /\ (v \in Applied <=> v <= Schema!GetCurrentVersion)
  BY CurrentEnds, MigrationAssumption
<1>6. q.plan \cap Applied = {}
  BY <1>2, <1>4, <1>5, CurrentIsVersion
<1>7. ASSUME NEW v \in UpFiles, NEW w \in UpFiles, v < w, w \in Applied \union q.plan
      PROVE  v \in Applied \union q.plan
  <2>1. CASE w \in Applied
    BY <1>7, <2>1 DEF Schema!NoGap
  <2>2. CASE w \in q.plan /\ v \notin Applied
    <3>1. v \in S
      BY <1>2, <1>5, <2>2, CurrentIsVersion
    <3>2. Schema!Before(TRUE, v, w)
      BY <1>7 DEF Schema!Before, Schema!Ascending
    <3>3. w \in Schema!Limited(TRUE, S, steps)
      BY <1>3, <2>2
    <3>4. v \in Schema!Limited(TRUE, S, steps)
      BY <1>2, <3>1, <3>2, <3>3, FrontKept
    <3> QED
      BY <1>3, <3>4
  <2> QED
    BY <1>7, <2>1, <2>2
<1>8. Schema!NoGap(Applied \union q.plan)
  BY <1>7 DEF Schema!NoGap
<1> QED
  BY <1>2, <1>4, <1>6, <1>8 DEF Schema!FromTheEnd, Applied

LEMMA DownFromTheEnd ==
  ASSUME Schema!NoGap(Applied), NEW steps \in Nat, NEW q, q.up = FALSE, q.plan = Schema!DownPlan(steps)
  PROVE  Schema!FromTheEnd(q) /\ q.plan \subseteq UpFiles
<1>1. q.plan = Schema!Limited(FALSE, Applied, steps)
  BY DEF Schema!DownPlan, Applied
<1>2. q.plan \subseteq Applied
  BY <1>1 DEF Schema!Limited
<1>3. ASSUME NEW v \in UpFiles, NEW w \in UpFiles, v < w, w \in Applied \ q.plan
      PROVE  v \in Applied \ q.plan
  <2>1. v \in Applied
    BY <1>3 DEF Schema!NoGap
  <2>2. Schema!Before(FALSE, w, v)
    BY <1>3 DEF Schema!Before, Schema!Descending
  <2>3. v \in Schema!Limited(FALSE, Applied, steps) => w \in Schema!Limited(FALSE, Applied, steps)
    BY <1>3, <2>2, AppliedAreFiles, FrontKept
  <2>4. v \notin q.plan
    BY <1>1, <1>3, <2>3
  <2> QED
    BY <2>1, <2>4
<1>4. Schema!NoGap(Applied \ q.plan)
  BY <1>3 DEF Schema!NoGap
<1> QED
  BY <1>2, <1>4, AppliedAreFiles DEF Schema!FromTheEnd, Applied

LEMMA RunningIs ==
  ASSUME NEW up \in BOOLEAN, NEW plan, NEW reset, NEW q, q = Schema!Running(up, plan, reset)
  PROVE  /\ q.pc = "run" /\ q.up = up /\ q.plan = plan
         /\ plan \subseteq UpFiles => AtWork(q)
<1>1. q = [pc |-> "run", up |-> up, plan |-> plan, reset |-> reset]
  BY DEF Schema!Running
<1>2. q.pc = "run" /\ q.up = up /\ q.plan = plan /\ q.reset = reset
  BY <1>1
<1>3. q = [pc |-> q.pc, up |-> q.up, plan |-> q.plan, reset |-> q.reset]
  BY <1>1, <1>2
<1> QED
  BY <1>2, <1>3 DEF AtWork

LEMMA LimitedIsSubset == \A up, S, steps : Schema!Limited(up, S, steps) \subseteq S
BY DEF Schema!Limited

LEMMA PlansAreFiles ==
  ASSUME NEW steps
  PROVE  Schema!UpPlan(steps) \subseteq UpFiles /\ Schema!DownPlan(steps) \subseteq UpFiles
BY LimitedIsSubset DEF Schema!UpPlan, Schema!DownPlan, Schema!PendingUps, Schema!loadMigrations,
   Schema!GetAppliedMigrations

LEMMA MigrationBegins ==
  ASSUME Schema!SchemaInv, NEW r \in Calls, NEW up \in BOOLEAN, NEW steps \in Nat, NEW reset,
         NEW plan, plan = IF up THEN Schema!UpPlan(steps) ELSE Schema!DownPlan(steps),
         NEW q, q = Schema!Running(up, plan, reset), Schema!Begin(r, q)
  PROVE  Schema!SchemaInv'
<1>1. /\ s2' = s2 /\ s3' = s3 /\ Schema!Goto(r, q)
      /\ ~s6' => ~s6 /\ \A o \in Calls : Schema!At(o, "ready")
  BY DEF Schema!Begin
<1>2. plan \subseteq UpFiles
  BY PlansAreFiles
<1>3. q.pc = "run" /\ q.up = up /\ q.plan = plan /\ AtWork(q)
  BY <1>2, RunningIs
<1>4. Applied' = Applied
  BY <1>1 DEF Applied, Schema!GetAppliedMigrations
<1>5. ASSUME ~s6' PROVE Schema!Undisturbed'
  <2>1. Schema!Undisturbed /\ Schema!NoGap(Applied) /\ s2 = Applied
    BY <1>1, <1>5 DEF Schema!SchemaInv, Schema!Undisturbed, Applied, Schema!At
  <2>2. Schema!FromTheEnd(q)
    BY <1>3, <2>1, UpFromTheEnd, DownFromTheEnd
  <2>3. Schema!FromTheEnd(q)' /\ Schema!Ahead(q)' /\ Schema!NoGap(Applied)' /\ s2' = Applied'
    BY <1>1, <1>3, <1>4, <2>1, <2>2
    DEF Schema!FromTheEnd, Schema!Ahead, Schema!NoGap, Applied
  <2> QED
    BY <1>1, <1>5, <2>1, <2>3, StillAlone
<1> QED
  BY <1>1, <1>3, <1>5, SchemaTogether DEF Schema!SchemaInv

LEMMA OneForemost ==
  ASSUME NEW q, AtWork(q), NEW u \in UpFiles, NEW v \in UpFiles,
         Schema!Foremost(q, u), Schema!Foremost(q, v)
  PROVE  u = v
<1>1. u \in Nat /\ v \in Nat
  BY MigrationAssumption
<1> QED
  BY <1>1 DEF AtWork, Schema!Foremost, Schema!Before, Schema!Ascending, Schema!Descending

\* What an undisturbed request at work may count on.
LEMMA WorkingAlone ==
  ASSUME Schema!SchemaInv, NEW r \in Calls, ~Schema!At(r, "ready")
  PROVE  /\ AtWork(s5[r])
         /\ ~s6 => /\ Schema!Undisturbed /\ Schema!NoGap(Applied)
                   /\ \A o \in Calls : o # r => Schema!At(o, "ready")
                   /\ Schema!FromTheEnd(s5[r]) /\ Schema!Ahead(s5[r])
<1>1. AtWork(s5[r])
  BY DEF Schema!SchemaInv, Schema!KnownCall, AtWork, Schema!At, Schema!Ready
<1> QED
  BY <1>1 DEF Schema!SchemaInv, Schema!Undisturbed, Schema!Alone, Applied

LEMMA MigrationEnds ==
  ASSUME Schema!SchemaInv, NEW r \in Calls, Schema!Finish(r)
  PROVE  Schema!SchemaInv'
<1>1. /\ s2' = s2 /\ s3' = s3 /\ s6' = s6 /\ s5[r].pc = "run" /\ ~Schema!At(r, "ready")
      /\ \/ Schema!Goto(r, Schema!Running(TRUE, Schema!UpPlan(0), FALSE))
         \/ Schema!Goto(r, Schema!Ready)
  BY DEF Schema!Finish, Schema!At
<1>2. PICK q : /\ Schema!Goto(r, q)
               /\ q = Schema!Running(TRUE, Schema!UpPlan(0), FALSE) \/ q = Schema!Ready
  BY <1>1
<1>3. q = Schema!Ready => q.pc = "ready"
  BY DEF Schema!Ready
<1>4. q # Schema!Ready => q.pc = "run" /\ q.up = TRUE /\ q.plan = Schema!UpPlan(0) /\ AtWork(q)
  <2>1. PICK plan : plan = Schema!UpPlan(0) /\ plan \subseteq UpFiles
    BY PlansAreFiles
  <2>2. PICK yes \in BOOLEAN : yes = TRUE
    OBVIOUS
  <2>3. ASSUME q # Schema!Ready PROVE q = Schema!Running(yes, plan, FALSE)
    BY <1>2, <2>1, <2>2, <2>3
  <2>4. ASSUME q # Schema!Ready
        PROVE  q.pc = "run" /\ q.up = yes /\ q.plan = plan /\ AtWork(q)
    <3>1. PICK no : no = FALSE
      OBVIOUS
    <3>2. q = Schema!Running(yes, plan, no)
      BY <2>3, <2>4, <3>1
    <3> QED
      BY <2>1, <3>2, RunningIs
  <2> QED
    BY <2>1, <2>2, <2>4
<1>5. Applied' = Applied
  BY <1>1 DEF Applied, Schema!GetAppliedMigrations
<1>6. ASSUME ~s6' PROVE Schema!Undisturbed'
  <2>1. /\ Schema!Undisturbed /\ Schema!NoGap(Applied) /\ s2 = Applied
        /\ \A o \in Calls : o # r => Schema!At(o, "ready")
    BY <1>1, <1>6, WorkingAlone DEF Schema!Ahead, Applied
  <2>2. q # Schema!Ready => Schema!FromTheEnd(q)
    BY <1>4, <2>1, UpFromTheEnd
  <2>3. Schema!NoGap(Applied)' /\ s2' = Applied'
    BY <1>1, <1>5, <2>1 DEF Schema!NoGap
  <2>4. q.pc # "ready" => Schema!FromTheEnd(q)' /\ Schema!Ahead(q)'
    BY <1>3, <1>4, <1>5, <2>2, <2>3 DEF Schema!FromTheEnd, Schema!Ahead, Schema!NoGap, Applied
  <2> QED
    BY <1>2, <2>1, <2>3, <2>4, StillAlone
<1> QED
  BY <1>1, <1>2, <1>4, <1>6, SchemaTogether DEF Schema!SchemaInv

LEMMA Recording ==
  ASSUME NEW q, AtWork(q), NEW p, p = [q EXCEPT !.pc = "record"]
  PROVE  p.pc = "record" /\ p.up = q.up /\ p.plan = q.plan /\ AtWork(p)
<1>1. p = [pc |-> "record", up |-> q.up, plan |-> q.plan, reset |-> q.reset]
  BY DEF AtWork
<1>2. p.pc = "record" /\ p.up = q.up /\ p.plan = q.plan /\ p.reset = q.reset
  BY <1>1
<1>3. p = [pc |-> p.pc, up |-> p.up, plan |-> p.plan, reset |-> p.reset]
  BY <1>1, <1>2
<1> QED
  BY <1>2, <1>3 DEF AtWork

\* A file was executed, and its record comes next.
LEMMA MigrationExecutes ==
  ASSUME Schema!SchemaInv, NEW r \in Calls, s5[r].pc = "run", NEW v \in UpFiles,
         Schema!Foremost(s5[r], v), Schema!Execute(v, s5[r].up),
         Schema!Goto(r, [s5[r] EXCEPT !.pc = "record"]), s3' = s3, s6' = s6
  PROVE  Schema!SchemaInv'
<1>1. PICK q : q = s5[r]
  OBVIOUS
<1>2. ~Schema!At(r, "ready") /\ AtWork(q)
  BY <1>1, WorkingAlone DEF Schema!At
<1>3. PICK p : p = [q EXCEPT !.pc = "record"]
  OBVIOUS
<1>4. p.pc = "record" /\ p.up = q.up /\ p.plan = q.plan /\ AtWork(p)
  BY <1>2, <1>3, Recording
<1>5. s2' = IF q.up THEN s2 \union {v} ELSE s2 \ {v}
  BY <1>1 DEF Schema!Execute
<1>6. Applied' = Applied /\ Schema!Goto(r, p)
  BY <1>1, <1>3 DEF Applied, Schema!GetAppliedMigrations
<1>7. ASSUME ~s6' PROVE Schema!Undisturbed'
  <2>1. /\ Schema!Undisturbed /\ Schema!NoGap(Applied) /\ s2 = Applied
        /\ \A o \in Calls : o # r => Schema!At(o, "ready")
        /\ Schema!FromTheEnd(q)
    BY <1>1, <1>2, <1>7, WorkingAlone DEF Schema!Ahead, Applied
  <2>2. Schema!NoGap(Applied)'
    BY <1>6, <2>1 DEF Schema!NoGap
  <2>3. Schema!FromTheEnd(p)'
    BY <1>4, <1>6, <2>1 DEF Schema!FromTheEnd, Schema!NoGap, Applied
  <2>4. \A u \in UpFiles : Schema!Foremost(p, u) => u = v
    BY <1>1, <1>2, <1>4, OneForemost DEF Schema!Foremost
  <2>5. Schema!Ahead(p)'
    BY <1>4, <1>5, <1>6, <2>1, <2>4 DEF Schema!Ahead, Applied
  <2> QED
    BY <1>4, <1>6, <2>1, <2>2, <2>3, <2>5, StillAlone
<1>8. s2' \subseteq UpFiles /\ DOMAIN s3' = UpFiles
  BY <1>5 DEF Schema!SchemaInv
<1> QED
  BY <1>4, <1>6, <1>7, <1>8, SchemaTogether

\* A file that fails ends the request, which returns next.
LEMMA MigrationFails ==
  ASSUME Schema!SchemaInv, NEW r \in Calls, s5[r].pc = "run",
         Schema!Goto(r, Schema!Running(s5[r].up, {}, s5[r].reset)), s2' = s2, s3' = s3, s6' = s6
  PROVE  Schema!SchemaInv'
<1>1. PICK q : q = Schema!Running(s5[r].up, {}, s5[r].reset)
  OBVIOUS
<1>2. ~Schema!At(r, "ready") /\ AtWork(s5[r])
  BY WorkingAlone DEF Schema!At
<1>3. q.pc = "run" /\ q.plan = {} /\ q.up = s5[r].up /\ AtWork(q)
  BY <1>1, <1>2, RunningIs DEF AtWork
<1>4. Applied' = Applied
  BY DEF Applied, Schema!GetAppliedMigrations
<1>5. ASSUME ~s6' PROVE Schema!Undisturbed'
  <2>1. /\ Schema!Undisturbed /\ Schema!NoGap(Applied) /\ s2 = Applied
        /\ \A o \in Calls : o # r => Schema!At(o, "ready")
    BY <1>2, <1>5, WorkingAlone DEF Schema!Ahead, Applied
  <2>2. Schema!NoGap(Applied)' /\ s2' = Applied'
    BY <1>4, <2>1 DEF Schema!NoGap
  <2>3. Schema!FromTheEnd(q)' /\ Schema!Ahead(q)'
    BY <1>3, <1>4, <2>1 DEF Schema!FromTheEnd, Schema!Ahead, Schema!NoGap, Applied
  <2> QED
    BY <1>1, <1>3, <2>1, <2>2, <2>3, StillAlone
<1> QED
  BY <1>1, <1>3, <1>5, SchemaTogether DEF Schema!SchemaInv

LEMMA MigrationRuns ==
  ASSUME Schema!SchemaInv, NEW r \in Calls, Schema!RunUp(r) \/ Schema!RunDown(r)
  PROVE  Schema!SchemaInv'
<1>1. s3' = s3 /\ s5[r].pc = "run"
  BY DEF Schema!RunUp, Schema!RunDown, Schema!At
<1>2. PICK v \in UpFiles :
        /\ Schema!Foremost(s5[r], v)
        /\ \/ /\ Schema!Execute(v, s5[r].up) /\ s6' = s6
              /\ Schema!Goto(r, [s5[r] EXCEPT !.pc = "record"])
           \/ /\ Schema!Goto(r, Schema!Running(s5[r].up, {}, s5[r].reset))
              /\ s2' = s2 /\ s6' = s6
           \/ /\ Schema!Goto(r, Schema!Running(s5[r].up, s5[r].plan \ {v}, s5[r].reset))
              /\ s2' = s2 /\ s6'
  BY DEF Schema!RunUp, Schema!RunDown, Schema!Execute
<1>3. CASE /\ Schema!Goto(r, Schema!Running(s5[r].up, s5[r].plan \ {v}, s5[r].reset))
           /\ s2' = s2 /\ s6'
  <2>1. PICK q : q = Schema!Running(s5[r].up, s5[r].plan \ {v}, s5[r].reset)
    OBVIOUS
  <2>2. AtWork(s5[r])
    BY <1>1, WorkingAlone DEF Schema!At
  <2>3. s5[r].up \in BOOLEAN /\ s5[r].plan \ {v} \subseteq UpFiles
    BY <2>2 DEF AtWork
  <2>4. AtWork(q)
    BY <2>1, <2>3, RunningIs
  <2> QED
    BY <1>1, <1>3, <2>1, <2>4, SchemaTogether DEF Schema!SchemaInv
<1> QED
  BY <1>1, <1>2, <1>3, MigrationExecutes, MigrationFails

LEMMA MigrationRecords ==
  ASSUME Schema!SchemaInv, NEW r \in Calls, Schema!Record(r)
  PROVE  Schema!SchemaInv'
<1>1. PICK v \in UpFiles :
        /\ Schema!Foremost(s5[r], v)
        /\ \/ /\ Schema!CreateHistory(v, IF s5[r].up THEN "applied" ELSE "rolled_back")
              /\ s6' = s6
           \/ s3' = s3 /\ s6'
        /\ Schema!Goto(r, Schema!Running(s5[r].up, s5[r].plan \ {v}, s5[r].reset))
  BY DEF Schema!Record
<1>2. s2' = s2 /\ s5[r].pc = "record" /\ ~Schema!At(r, "ready")
  BY DEF Schema!Record, Schema!At
<1>3. PICK q : q = s5[r]
  OBVIOUS
<1>4. AtWork(q)
  BY <1>2, <1>3, WorkingAlone
<1>5. PICK p : p = Schema!Running(q.up, q.plan \ {v}, q.reset)
  OBVIOUS
<1>6. p.pc = "run" /\ p.plan = q.plan \ {v} /\ p.up = q.up /\ AtWork(p)
  <2>1. q.up \in BOOLEAN /\ q.plan \ {v} \subseteq UpFiles
    BY <1>4 DEF AtWork
  <2> QED
    BY <1>5, <2>1, RunningIs
<1>7. DOMAIN s3' = UpFiles
  BY <1>1 DEF Schema!SchemaInv, Schema!CreateHistory
<1>8. ASSUME ~s6' PROVE Schema!Undisturbed'
  <2>1. s6' = s6 /\ Schema!CreateHistory(v, IF q.up THEN "applied" ELSE "rolled_back")
    BY <1>1, <1>3, <1>8
  <2>2. /\ Schema!Undisturbed /\ Schema!NoGap(Applied)
        /\ \A o \in Calls : o # r => Schema!At(o, "ready")
        /\ Schema!FromTheEnd(q) /\ Schema!Ahead(q)
    BY <1>2, <1>3, <1>8, <2>1, WorkingAlone
  <2>3. Applied' = IF q.up THEN Applied \union {v} ELSE Applied \ {v}
    <3>1. \A w \in UpFiles : s3'[w] = IF w = v THEN IF q.up THEN "applied" ELSE "rolled_back" ELSE s3[w]
      BY <2>1 DEF Schema!CreateHistory, Schema!SchemaInv
    <3> QED
      BY <3>1 DEF Applied, Schema!GetAppliedMigrations
  <2>4. s2' = Applied'
    BY <1>1, <1>2, <1>3, <2>2, <2>3 DEF Schema!Ahead, Applied
  <2>5. v \in q.plan /\ \A w \in q.plan \ {v} : IF q.up THEN v < w ELSE w < v
    BY <1>1, <1>3 DEF Schema!Foremost, Schema!Before, Schema!Ascending, Schema!Descending
  <2>6. \A w \in UpFiles : w \in Nat
    BY MigrationAssumption
  <2>7. ASSUME q.up PROVE Schema!NoGap(Applied)' /\ Schema!FromTheEnd(p)'
    <3>1. q.plan \cap Applied = {} /\ Schema!NoGap(Applied \union q.plan)
      BY <2>2, <2>7 DEF Schema!FromTheEnd, Applied
    <3>2. Applied' = Applied \union {v} /\ Applied' \union p.plan = Applied \union q.plan
      BY <1>6, <2>3, <2>5, <2>7
    <3>3. p.plan \cap Applied' = {}
      BY <1>6, <3>1, <3>2
    <3>4. ASSUME NEW u \in UpFiles, NEW w \in UpFiles, u < w, w \in Applied' PROVE u \in Applied'
      <4>1. CASE w \in Applied
        BY <2>2, <3>2, <3>4, <4>1 DEF Schema!NoGap
      <4>2. CASE w = v
        <5>1. u \in Applied \union q.plan
          BY <2>5, <3>1, <3>4, <4>2 DEF Schema!NoGap
        <5>2. u \notin q.plan \ {v}
          BY <2>5, <2>6, <2>7, <3>4, <4>2
        <5> QED
          BY <3>2, <5>1, <5>2
      <4> QED
        BY <3>2, <3>4, <4>1, <4>2
    <3>5. Schema!NoGap(Applied)'
      BY <3>4 DEF Schema!NoGap
    <3>6. Schema!FromTheEnd(p)'
      BY <1>6, <2>7, <3>1, <3>2, <3>3 DEF Schema!FromTheEnd, Applied, Schema!NoGap
    <3> QED
      BY <3>5, <3>6
  <2>8. ASSUME ~q.up PROVE Schema!NoGap(Applied)' /\ Schema!FromTheEnd(p)'
    <3>1. q.plan \subseteq Applied /\ Schema!NoGap(Applied \ q.plan)
      BY <2>2, <2>8 DEF Schema!FromTheEnd, Applied
    <3>2. Applied' = Applied \ {v} /\ Applied' \ p.plan = Applied \ q.plan
      BY <1>6, <2>3, <2>5, <2>8
    <3>3. p.plan \subseteq Applied'
      BY <1>6, <3>1, <3>2
    <3>4. ASSUME NEW u \in UpFiles, NEW w \in UpFiles, u < w, w \in Applied' PROVE u \in Applied'
      <4>1. u \in Applied /\ w \in Applied
        BY <2>2, <3>2, <3>4 DEF Schema!NoGap
      <4>2. CASE u = v
        <5>1. w \notin q.plan
          BY <2>5, <2>6, <2>8, <3>2, <3>4, <4>2
        <5>2. u \in Applied \ q.plan
          BY <3>1, <3>4, <4>1, <5>1 DEF Schema!NoGap
        <5> QED
          BY <2>5, <4>2, <5>2
      <4> QED
        BY <3>2, <4>1, <4>2
    <3>5. Schema!NoGap(Applied)'
      BY <3>4 DEF Schema!NoGap
    <3>6. Schema!FromTheEnd(p)'
      BY <1>6, <2>8, <3>1, <3>2, <3>3 DEF Schema!FromTheEnd, Applied, Schema!NoGap
    <3> QED
      BY <3>5, <3>6
  <2>9. Schema!NoGap(Applied)' /\ Schema!FromTheEnd(p)'
    BY <2>7, <2>8
  <2>10. Schema!Ahead(p)'
    BY <1>6, <2>4 DEF Schema!Ahead, Applied
  <2> QED
    BY <1>1, <1>3, <1>5, <1>6, <2>2, <2>4, <2>9, <2>10, StillAlone
<1> QED
  BY <1>1, <1>2, <1>3, <1>5, <1>6, <1>7, <1>8, SchemaTogether DEF Schema!SchemaInv

LEMMA MigrationsStop ==
  ASSUME Schema!SchemaInv, Schema!Restart
  PROVE  Schema!SchemaInv'
<1>1. /\ s2' = s2 /\ s3' = s3
      /\ ~s6' => ~s6 /\ \A r \in Calls : ~Schema!At(r, "record")
      /\ DOMAIN s5' = Calls /\ \A r \in Calls : s5'[r] = Schema!Ready
  BY DEF Schema!Restart
<1>2. \A r \in Calls : Schema!KnownCall(r)' /\ Schema!At(r, "ready")'
  BY <1>1 DEF Schema!KnownCall, Schema!At, Schema!Ready
<1>3. Applied' = Applied
  BY <1>1 DEF Applied, Schema!GetAppliedMigrations
<1>4. ASSUME ~s6' PROVE Schema!Undisturbed'
  <2>1. s2 = Applied /\ Schema!NoGap(Applied)
    BY <1>1, <1>4 DEF Schema!SchemaInv, Schema!Undisturbed, Applied
  <2> QED
    BY <1>1, <1>2, <1>3, <2>1 DEF Schema!Undisturbed, Schema!Alone, Schema!NoGap, Applied
<1> QED
  BY <1>1, <1>2, <1>4 DEF Schema!SchemaInv

LEMMA SchemaStep == Schema!SchemaInv /\ Schema!Next => Schema!SchemaInv'
<1> SUFFICES ASSUME Schema!SchemaInv, Schema!Next PROVE Schema!SchemaInv'
  OBVIOUS
<1>1. \A steps \in Schema!Steps : steps \in Nat
  BY VersionsCount, MigrationAssumption DEF Schema!Steps
<1>2. ASSUME NEW r \in Calls, Schema!HandleMigrateUp(r) PROVE Schema!SchemaInv'
  <2>1. PICK steps \in Nat : Schema!Begin(r, Schema!Running(TRUE, Schema!UpPlan(steps), FALSE))
    BY <1>1, <1>2 DEF Schema!HandleMigrateUp, Schema!MigrateUp
  <2>2. PICK yes \in BOOLEAN : yes = TRUE
    OBVIOUS
  <2>3. PICK q : q = Schema!Running(yes, Schema!UpPlan(steps), FALSE)
    OBVIOUS
  <2>4. Schema!Begin(r, q)
    BY <2>1, <2>2, <2>3
  <2> QED
    BY <2>2, <2>3, <2>4, MigrationBegins
<1>3. ASSUME NEW r \in Calls, Schema!HandleMigrateDown(r) \/ Schema!HandleReset(r) PROVE Schema!SchemaInv'
  <2>1. PICK steps \in Nat : \E reset \in BOOLEAN :
          Schema!Begin(r, Schema!Running(FALSE, Schema!DownPlan(steps), reset))
    BY <1>1, <1>3
    DEF Schema!HandleMigrateDown, Schema!HandleReset, Schema!MigrateDown, Schema!Reset
  <2>2. PICK reset \in BOOLEAN : Schema!Begin(r, Schema!Running(FALSE, Schema!DownPlan(steps), reset))
    BY <2>1
  <2>3. PICK no \in BOOLEAN : no = FALSE
    OBVIOUS
  <2>4. PICK q : q = Schema!Running(no, Schema!DownPlan(steps), reset)
    OBVIOUS
  <2>5. Schema!Begin(r, q)
    BY <2>2, <2>3, <2>4
  <2> QED
    BY <2>3, <2>4, <2>5, MigrationBegins
<1>4. CASE Schema!HandleSeed
  BY <1>4
  DEF Schema!HandleSeed, Schema!Seed, Schema!SchemaInv, Schema!Undisturbed, Schema!Alone,
      Schema!NoGap, Schema!At, Schema!KnownCall, Schema!FromTheEnd, Schema!Ahead,
      Schema!GetAppliedMigrations, Schema!Foremost
<1> QED
  BY <1>2, <1>3, <1>4, MigrationRuns, MigrationRecords, MigrationEnds, MigrationsStop DEF Schema!Next

\* What MCServices promises of the schema follows.
LEMMA SchemaIsTrue == Schema!SchemaInv => Schema!SchemaIsCurrent
<1> SUFFICES ASSUME Schema!SchemaInv, ~s6, \A r \in Calls : ~Schema!At(r, "record")
             PROVE  s2 = {v \in UpFiles : v <= Schema!GetCurrentVersion}
  BY DEF Schema!SchemaIsCurrent
<1>1. s2 = Applied /\ Schema!NoGap(Applied)
  BY DEF Schema!SchemaInv, Schema!Undisturbed, Applied
<1> QED
  BY <1>1, CurrentEnds, AppliedAreFiles
-----------------------------------------------------------------------------
(* The two execution stores: what a worker with an unsaved change holds.   *)
LEMMA RecordIs ==
  ASSUME NEW x \in Stores!Records
  PROVE  /\ x.name = "loaded" /\ x = [name |-> x.name, status |-> x.status, duration |-> x.duration]
         /\ x # None /\ x.status \in {"running", "completed", "failed"}
         /\ x.duration \in {0} \cup Durations
<1>1. x # None
  BY StoreAssumption
<1> QED
  BY <1>1 DEF Stores!Records

LEMMA RecordChanged ==
  ASSUME NEW x \in Stores!Records, NEW s \in {"running", "completed", "failed"},
         NEW d \in {0} \cup Durations
  PROVE  Stores!Changed(x, s, d) \in Stores!Records
BY RecordIs DEF Stores!Records, Stores!Changed

\* An update writes all that a record of the engine ever changes.
LEMMA RecordWritten ==
  ASSUME NEW x \in Stores!Records, NEW y \in Stores!Records
  PROVE  Stores!Changed(x, y.status, y.duration) = y
BY RecordIs DEF Stores!Changed

LEMMA NewIsRecord == Stores!NewRecord \in Stores!Records
BY DEF Stores!NewRecord, Stores!Records

LEMMA EmptyIs == Stores!EmptyHand.id = None /\ Stores!EmptyHand.id \notin ExecIds
<1>1. Stores!EmptyHand.id = None
  BY DEF Stores!EmptyHand
<1> QED
  BY <1>1, StoreAssumption

LEMMA HeldIs ==
  ASSUME Stores!StoreInv, NEW w \in Calls, s4[w] # Stores!EmptyHand
  PROVE  /\ s4[w].id \in ExecIds /\ s4[w].obj \in 1..Len(s1) /\ s4[w].copy \in Stores!Records
         /\ s4[w].at \in 1..s5[s4[w].id] /\ s4[w].dirty \in BOOLEAN
BY DEF Stores!StoreInv, Stores!InHand

LEMMA StoreStart == Stores!Init => Stores!StoreInv
<1> SUFFICES ASSUME Stores!Init PROVE Stores!StoreInv
  OBVIOUS
<1>1. /\ s1 = <<>> /\ s2 = [i \in ExecIds |-> 0] /\ s3 = [i \in ExecIds |-> None]
      /\ s4 = [w \in Calls |-> Stores!EmptyHand] /\ s5 = [i \in ExecIds |-> 0]
  BY DEF Stores!Init
<1>2. s1 \in Seq(Stores!Records) /\ Len(s1) = 0
  BY <1>1
<1>3. \A w \in Calls : Stores!InHand(w) /\ Stores!UpToDate(w)
  BY <1>1 DEF Stores!InHand, Stores!UpToDate
<1>4. Stores!OwnRecord
  BY <1>1 DEF Stores!OwnRecord
<1>5. Stores!StoresAgree
  BY <1>1 DEF Stores!StoresAgree
<1> QED
  BY <1>1, <1>2, <1>3, <1>4, <1>5 DEF Stores!StoreInv

LEMMA StoreCreates ==
  ASSUME Stores!StoreInv, NEW w \in Calls, NEW id \in ExecIds, Stores!Create(w, id)
  PROVE  Stores!StoreInv'
<1>1. PICK n \in Nat : n = Len(s1)
  BY DEF Stores!StoreInv
<1>2. PICK new \in Stores!Records : new = Stores!NewRecord
  BY NewIsRecord
<1>3. PICK no \in BOOLEAN : no = FALSE
  OBVIOUS
<1>4. PICK h : h = [id |-> id, obj |-> n + 1, copy |-> new, at |-> 1, dirty |-> no]
  OBVIOUS
<1>5. h.id = id /\ h.obj = n + 1 /\ h.copy = new /\ h.at = 1 /\ ~h.dirty /\ h.dirty \in BOOLEAN
      /\ h = [id |-> h.id, obj |-> h.obj, copy |-> h.copy, at |-> h.at, dirty |-> h.dirty]
  BY <1>3, <1>4
<1>6. /\ s1' = Append(s1, new) /\ s2' = [s2 EXCEPT ![id] = n + 1] /\ s3' = [s3 EXCEPT ![id] = new]
      /\ s5' = [s5 EXCEPT ![id] = 1] /\ s4' = [s4 EXCEPT ![w] = h] /\ s6' = s6
      /\ s4[w] = Stores!EmptyHand /\ s5[id] = 0
  BY <1>1, <1>2, <1>3, <1>4 DEF Stores!Create
<1>7. /\ s1' \in Seq(Stores!Records) /\ Len(s1') = n + 1 /\ s1'[n + 1] = new
      /\ \A k \in 1..n : s1'[k] = s1[k]
  BY <1>1, <1>6 DEF Stores!StoreInv
<1>8. /\ DOMAIN s4' = Calls /\ s4'[w] = h /\ \A v \in Calls : v # w => s4'[v] = s4[v]
      /\ s2' \in [ExecIds -> 0..(n + 1)] /\ s2'[id] = n + 1 /\ \A i \in ExecIds : i # id => s2'[i] = s2[i]
      /\ s3' \in [ExecIds -> Stores!Records \cup {None}] /\ s3'[id] = new
      /\ \A i \in ExecIds : i # id => s3'[i] = s3[i]
      /\ s5' \in [ExecIds -> Nat] /\ s5'[id] = 1 /\ \A i \in ExecIds : i # id => s5'[i] = s5[i]
      /\ \A i \in ExecIds : s2[i] \in 0..n /\ s5[i] \in Nat
  BY <1>1, <1>6 DEF Stores!StoreInv
<1>9. \A v \in Calls : s4[v] # Stores!EmptyHand =>
        /\ s4[v].id \in ExecIds /\ s4[v].id # id /\ s4[v].obj \in 1..n /\ s4[v].copy \in Stores!Records
        /\ s4[v].at \in 1..s5[s4[v].id] /\ s4[v].dirty \in BOOLEAN
  BY <1>1, <1>6, HeldIs
<1>10. h # Stores!EmptyHand /\ new # None
  BY <1>2, <1>5, EmptyIs, RecordIs
<1>11. ASSUME NEW v \in Calls PROVE Stores!InHand(v)'
  <2>1. CASE v = w
    BY <1>5, <1>7, <1>8, <2>1 DEF Stores!InHand
  <2>2. CASE v # w
    BY <1>1, <1>7, <1>8, <1>9, <2>2 DEF Stores!InHand, Stores!StoreInv
  <2> QED
    BY <2>1, <2>2
<1>12. ASSUME NEW v \in Calls PROVE Stores!UpToDate(v)'
  <2>1. CASE v = w
    BY <1>5, <1>7, <1>8, <1>10, <2>1 DEF Stores!UpToDate
  <2>2. CASE v # w /\ s4[v] # Stores!EmptyHand
    <3>1. Stores!UpToDate(v) /\ s4'[v] = s4[v]
      BY <1>8, <2>2 DEF Stores!StoreInv
    <3>2. PICK i \in ExecIds : i = s4[v].id /\ i # id
      BY <1>9, <2>2
    <3>3. Stores!UnsavedOnlyBy(v, i)' => Stores!UnsavedOnlyBy(v, i)
      BY <1>6, <1>8, <3>2, EmptyIs DEF Stores!UnsavedOnlyBy
    <3>4. s1'[s4[v].obj] = s1[s4[v].obj] /\ s2'[i] = s2[i] /\ s3'[i] = s3[i] /\ s5'[i] = s5[i]
      BY <1>7, <1>8, <1>9, <2>2, <3>2
    <3>5. i \notin s6 /\ s4[v].at = s5[i] =>
            /\ s2[i] # 0 /\ s3[i] # None /\ (~s4[v].dirty => s4[v].copy = s3[i])
            /\ Stores!UnsavedOnlyBy(v, i) => s1[s4[v].obj] = s4[v].copy
      BY <2>2, <3>1, <3>2 DEF Stores!UpToDate
    <3>6. i \notin s6' /\ s4'[v].at = s5'[i] =>
            /\ s2'[i] # 0 /\ s3'[i] # None /\ (~s4'[v].dirty => s4'[v].copy = s3'[i])
            /\ Stores!UnsavedOnlyBy(v, i)' => s1'[s4'[v].obj] = s4'[v].copy
      BY <1>6, <3>1, <3>3, <3>4, <3>5
    <3> QED
      BY <3>1, <3>2, <3>6 DEF Stores!UpToDate
  <2>3. CASE v # w /\ s4[v] = Stores!EmptyHand
    BY <1>8, <2>3 DEF Stores!UpToDate
  <2> QED
    BY <2>1, <2>2, <2>3
<1>13. Stores!OwnRecord'
  <2>1. \A i, j \in ExecIds : s2'[i] # 0 /\ s2'[i] = s2'[j] => i = j
    BY <1>8 DEF Stores!StoreInv, Stores!OwnRecord
  <2>2. ASSUME NEW v \in Calls, NEW i \in ExecIds, s4'[v] # Stores!EmptyHand, s2'[i] # 0
        PROVE  s4'[v].id = i <=> s4'[v].obj = s2'[i]
    BY <1>5, <1>8, <1>9, <2>2 DEF Stores!StoreInv, Stores!OwnRecord
  <2>3. ASSUME NEW u \in Calls, NEW v \in Calls, s4'[u] # Stores!EmptyHand, s4'[v] # Stores!EmptyHand
        PROVE  s4'[u].id = s4'[v].id <=> s4'[u].obj = s4'[v].obj
    <3>1. \A a \in Calls : a # w /\ s4'[a] # Stores!EmptyHand => s4'[a].id # id /\ s4'[a].obj # n + 1
      BY <1>1, <1>8, <1>9
    <3>2. CASE u = w \/ v = w
      BY <1>5, <1>8, <2>3, <3>1, <3>2
    <3>3. CASE u # w /\ v # w
      BY <1>8, <2>3, <3>3 DEF Stores!StoreInv, Stores!OwnRecord
    <3> QED
      BY <3>2, <3>3
  <2> QED
    BY <2>1, <2>2, <2>3 DEF Stores!OwnRecord
<1>14. Stores!StoresAgree'
  <2>1. ASSUME NEW i \in ExecIds, Stores!Settled(i)'
        PROVE  (s2'[i] = 0) = (s3'[i] = None) /\ (s2'[i] # 0 => s1'[s2'[i]] = s3'[i])
    <3>1. CASE i = id
      BY <1>7, <1>8, <1>10, <3>1
    <3>2. CASE i # id
      <4>1. Stores!Settled(i)
        BY <1>6, <1>8, <2>1, EmptyIs DEF Stores!Settled
      <4> QED
        BY <1>7, <1>8, <3>2, <4>1 DEF Stores!StoreInv, Stores!StoresAgree
    <3> QED
      BY <3>1, <3>2
  <2> QED
    BY <2>1 DEF Stores!StoresAgree
<1>15. \A i \in ExecIds : s5'[i] = 0 => s2'[i] = 0
  BY <1>8 DEF Stores!StoreInv
<1>16. \A i \in ExecIds \ s6' : s2'[i] = 0 <=> s3'[i] = None
  BY <1>6, <1>8, <1>10 DEF Stores!StoreInv
<1> QED
  BY <1>7, <1>8, <1>11, <1>12, <1>13, <1>14, <1>15, <1>16 DEF Stores!StoreInv

LEMMA StoreIs ==
  ASSUME Stores!StoreInv
  PROVE  /\ s1 \in Seq(Stores!Records) /\ s2 \in [ExecIds -> 0..Len(s1)]
         /\ s3 \in [ExecIds -> Stores!Records \cup {None}] /\ s5 \in [ExecIds -> Nat]
         /\ DOMAIN s4 = Calls /\ Len(s1) \in Nat
         /\ \A i \in ExecIds : s5[i] = 0 => s2[i] = 0
         /\ \A i \in ExecIds \ s6 : s2[i] = 0 <=> s3[i] = None
         /\ \A v \in Calls : Stores!InHand(v) /\ Stores!UpToDate(v)
BY DEF Stores!StoreInv

\* A worker sees no change that another one has not saved.
LEMMA StillUpToDate ==
  ASSUME Stores!StoreInv, NEW v \in Calls, NEW i \in ExecIds,
         s4'[v] = s4[v], s4[v] # Stores!EmptyHand, i = s4[v].id,
         i \notin s6' => i \notin s6, s1'[s4[v].obj] = s1[s4[v].obj],
         s2'[i] = s2[i], s3'[i] = s3[i], s5'[i] = s5[i],
         Stores!UnsavedOnlyBy(v, i)' => Stores!UnsavedOnlyBy(v, i)
  PROVE  Stores!UpToDate(v)'
<1>1. i \notin s6 /\ s4[v].at = s5[i] =>
        /\ s2[i] # 0 /\ s3[i] # None /\ (~s4[v].dirty => s4[v].copy = s3[i])
        /\ Stores!UnsavedOnlyBy(v, i) => s1[s4[v].obj] = s4[v].copy
  BY StoreIs DEF Stores!UpToDate
<1>2. i \notin s6' /\ s4'[v].at = s5'[i] =>
        /\ s2'[i] # 0 /\ s3'[i] # None /\ (~s4'[v].dirty => s4'[v].copy = s3'[i])
        /\ Stores!UnsavedOnlyBy(v, i)' => s1'[s4'[v].obj] = s4'[v].copy
  BY <1>1
<1> QED
  BY <1>2 DEF Stores!UpToDate

LEMMA EmptyUpToDate ==
  ASSUME NEW v \in Calls, s4'[v] = Stores!EmptyHand
  PROVE  Stores!UpToDate(v)' /\ Stores!InHand(v)'
BY DEF Stores!UpToDate, Stores!InHand

\* A copy taken before the last write says nothing.
LEMMA OutdatedUpToDate ==
  ASSUME NEW v \in Calls, NEW i \in ExecIds, s4'[v] = s4[v], i = s4[v].id,
         s4[v].at # s5'[i]
  PROVE  Stores!UpToDate(v)'
BY DEF Stores!UpToDate

LEMMA StoreFinds ==
  ASSUME Stores!StoreInv, NEW w \in Calls, NEW id \in ExecIds, Stores!FindByID(w, id)
  PROVE  Stores!StoreInv'
<1>1. PICK no \in BOOLEAN : no = FALSE
  OBVIOUS
<1>2. PICK h : h = [id |-> id, obj |-> s2[id], copy |-> s3[id], at |-> s5[id], dirty |-> no]
  OBVIOUS
<1>3. h.id = id /\ h.obj = s2[id] /\ h.copy = s3[id] /\ h.at = s5[id] /\ ~h.dirty /\ h.dirty \in BOOLEAN
      /\ h = [id |-> h.id, obj |-> h.obj, copy |-> h.copy, at |-> h.at, dirty |-> h.dirty]
  BY <1>1, <1>2
<1>4. /\ s4' = [s4 EXCEPT ![w] = h] /\ s1' = s1 /\ s2' = s2 /\ s3' = s3 /\ s5' = s5 /\ s6' = s6
      /\ s4[w] = Stores!EmptyHand /\ s2[id] # 0 /\ s3[id] # None
  BY <1>1, <1>2 DEF Stores!FindByID
<1>5. /\ DOMAIN s4' = Calls /\ s4'[w] = h /\ \A v \in Calls : v # w => s4'[v] = s4[v]
  BY <1>4, StoreIs
<1>6. h # Stores!EmptyHand
  BY <1>3, EmptyIs
<1>7. s2[id] \in 1..Len(s1) /\ s3[id] \in Stores!Records /\ s5[id] \in Nat \ {0}
  BY <1>4, StoreIs
<1>8. ASSUME NEW v \in Calls PROVE Stores!InHand(v)' /\ Stores!UpToDate(v)'
  <2>1. CASE v = w
    <3>1. Stores!InHand(v)'
      BY <1>3, <1>4, <1>5, <1>7, <2>1 DEF Stores!InHand
    <3>2. ASSUME id \notin s6, Stores!UnsavedOnlyBy(w, id)' PROVE s1[s2[id]] = s3[id]
      <4>1. Stores!Settled(id)
        BY <1>4, <1>5, <3>2, EmptyIs DEF Stores!Settled, Stores!UnsavedOnlyBy
      <4> QED
        BY <1>4, <4>1 DEF Stores!StoreInv, Stores!StoresAgree
    <3> QED
      BY <1>3, <1>4, <1>5, <2>1, <3>1, <3>2 DEF Stores!UpToDate
  <2>2. CASE v # w /\ s4[v] # Stores!EmptyHand
    <3>1. Stores!InHand(v)'
      BY <1>4, <1>5, <2>2, StoreIs DEF Stores!InHand
    <3>2. PICK i \in ExecIds : i = s4[v].id
      BY <2>2, HeldIs
    <3>3. Stores!UnsavedOnlyBy(v, i)' => Stores!UnsavedOnlyBy(v, i)
      BY <1>4, <1>5, <3>2, EmptyIs DEF Stores!UnsavedOnlyBy
    <3>4. Stores!UpToDate(v)'
      BY <1>4, <1>5, <2>2, <3>2, <3>3, StillUpToDate
    <3> QED
      BY <3>1, <3>4
  <2>3. CASE v # w /\ s4[v] = Stores!EmptyHand
    BY <1>5, <2>3, EmptyUpToDate
  <2> QED
    BY <2>1, <2>2, <2>3
<1>9. Stores!OwnRecord'
  <2>1. \A i, j \in ExecIds : s2'[i] # 0 /\ s2'[i] = s2'[j] => i = j
    BY <1>4 DEF Stores!StoreInv, Stores!OwnRecord
  <2>2. ASSUME NEW v \in Calls, NEW i \in ExecIds, s4'[v] # Stores!EmptyHand, s2'[i] # 0
        PROVE  s4'[v].id = i <=> s4'[v].obj = s2'[i]
    BY <1>3, <1>4, <1>5, <2>1, <2>2 DEF Stores!StoreInv, Stores!OwnRecord
  <2>3. ASSUME NEW u \in Calls, NEW v \in Calls, s4'[u] # Stores!EmptyHand, s4'[v] # Stores!EmptyHand
        PROVE  s4'[u].id = s4'[v].id <=> s4'[u].obj = s4'[v].obj
    <3>1. CASE u = w \/ v = w
      BY <1>3, <1>4, <1>5, <2>2, <2>3, <3>1
    <3>2. CASE u # w /\ v # w
      BY <1>5, <2>3, <3>2 DEF Stores!StoreInv, Stores!OwnRecord
    <3> QED
      BY <3>1, <3>2
  <2> QED
    BY <2>1, <2>2, <2>3 DEF Stores!OwnRecord
<1>10. Stores!StoresAgree'
  <2>1. ASSUME NEW i \in ExecIds, Stores!Settled(i)' PROVE Stores!Settled(i)
    BY <1>4, <1>5, <2>1, EmptyIs DEF Stores!Settled
  <2> QED
    BY <1>4, <2>1 DEF Stores!StoreInv, Stores!StoresAgree
<1> QED
  BY <1>4, <1>5, <1>8, <1>9, <1>10, StoreIs DEF Stores!StoreInv

LEMMA StoreChanges ==
  ASSUME Stores!StoreInv, NEW w \in Calls, NEW s \in {"completed", "failed"},
         NEW d \in Durations, Stores!Change(w, s, d)
  PROVE  Stores!StoreInv'
<1>1. PICK yes \in BOOLEAN : yes = TRUE
  OBVIOUS
<1>2. s4[w] # Stores!EmptyHand /\ ~s4[w].dirty
  BY DEF Stores!Change
<1>3. PICK g : g = s4[w]
  OBVIOUS
<1>4. /\ g.id \in ExecIds /\ g.obj \in 1..Len(s1) /\ g.copy \in Stores!Records
      /\ g.at \in 1..s5[g.id]
  BY <1>2, <1>3, HeldIs
<1>5. PICK c \in Stores!Records : c = Stores!Changed(g.copy, s, d)
  BY <1>4, RecordChanged
<1>6. PICK r \in Stores!Records : r = Stores!Changed(s1[g.obj], s, d)
  <2>1. s1[g.obj] \in Stores!Records
    BY <1>4, StoreIs
  <2> QED
    BY <2>1, RecordChanged
<1>7. PICK h : h = [id |-> g.id, obj |-> g.obj, copy |-> c, at |-> g.at, dirty |-> yes]
  OBVIOUS
<1>8. h.id = g.id /\ h.obj = g.obj /\ h.copy = c /\ h.at = g.at /\ h.dirty /\ h.dirty \in BOOLEAN
      /\ h = [id |-> h.id, obj |-> h.obj, copy |-> h.copy, at |-> h.at, dirty |-> h.dirty]
  BY <1>1, <1>7
<1>9. /\ s1' = [s1 EXCEPT ![g.obj] = r] /\ s4' = [s4 EXCEPT ![w] = h]
      /\ s2' = s2 /\ s3' = s3 /\ s5' = s5 /\ s6' = s6
  BY <1>1, <1>3, <1>5, <1>6, <1>7 DEF Stores!Change
<1>10. /\ s1' \in Seq(Stores!Records) /\ Len(s1') = Len(s1) /\ s1'[g.obj] = r
       /\ \A k \in 1..Len(s1) : k # g.obj => s1'[k] = s1[k]
  BY <1>4, <1>9, StoreIs
<1>11. /\ DOMAIN s4' = Calls /\ s4'[w] = h /\ \A v \in Calls : v # w => s4'[v] = s4[v]
  BY <1>9, StoreIs
<1>12. h # Stores!EmptyHand
  BY <1>4, <1>8, EmptyIs
<1>13. ASSUME NEW v \in Calls PROVE Stores!InHand(v)' /\ Stores!UpToDate(v)'
  <2>1. CASE v = w
    <3>1. Stores!InHand(v)'
      BY <1>4, <1>8, <1>9, <1>10, <1>11, <2>1 DEF Stores!InHand
    <3>2. ASSUME g.id \notin s6, g.at = s5[g.id]
          PROVE  /\ s2[g.id] # 0 /\ s3[g.id] # None
                 /\ Stores!UnsavedOnlyBy(w, g.id) => s1[g.obj] = g.copy
      BY <1>2, <1>3, <3>2, StoreIs DEF Stores!UpToDate
    <3>3. Stores!UnsavedOnlyBy(w, g.id)' => Stores!UnsavedOnlyBy(w, g.id)
      BY <1>11 DEF Stores!UnsavedOnlyBy
    <3>4. s1[g.obj] = g.copy => r = c
      BY <1>5, <1>6
    <3> QED
      BY <1>8, <1>9, <1>10, <1>11, <2>1, <3>1, <3>2, <3>3, <3>4 DEF Stores!UpToDate
  <2>2. CASE v # w /\ s4[v] # Stores!EmptyHand
    <3>1. Stores!InHand(v)'
      BY <1>9, <1>10, <1>11, <2>2, StoreIs DEF Stores!InHand
    <3>2. PICK i \in ExecIds : i = s4[v].id
      BY <2>2, HeldIs
    <3>3. CASE i = g.id
      <4>1. ~ Stores!UnsavedOnlyBy(v, i)'
        BY <1>8, <1>11, <2>2, <3>3 DEF Stores!UnsavedOnlyBy
      <4>2. i \notin s6 /\ s4[v].at = s5[i] =>
              s2[i] # 0 /\ s3[i] # None /\ (~s4[v].dirty => s4[v].copy = s3[i])
        BY <2>2, <3>2, StoreIs DEF Stores!UpToDate
      <4>3. i \notin s6' /\ s4'[v].at = s5'[i] =>
              /\ s2'[i] # 0 /\ s3'[i] # None /\ (~s4'[v].dirty => s4'[v].copy = s3'[i])
              /\ Stores!UnsavedOnlyBy(v, i)' => s1'[s4'[v].obj] = s4'[v].copy
        BY <1>9, <1>11, <2>2, <4>1, <4>2
      <4>4. i = s4'[v].id
        BY <1>11, <2>2, <3>2
      <4> QED
        BY <3>1, <4>3, <4>4 DEF Stores!UpToDate
    <3>4. CASE i # g.id
      <4>1. s4[v].obj # g.obj /\ s4[v].obj \in 1..Len(s1)
        BY <1>2, <1>3, <2>2, <3>2, <3>4, HeldIs DEF Stores!StoreInv, Stores!OwnRecord
      <4>2. Stores!UnsavedOnlyBy(v, i)' => Stores!UnsavedOnlyBy(v, i)
        BY <1>2, <1>11, <3>4 DEF Stores!UnsavedOnlyBy
      <4>3. Stores!UpToDate(v)'
        BY <1>9, <1>10, <1>11, <2>2, <3>2, <4>1, <4>2, StillUpToDate
      <4> QED
        BY <3>1, <4>3
    <3> QED
      BY <3>3, <3>4
  <2>3. CASE v # w /\ s4[v] = Stores!EmptyHand
    BY <1>11, <2>3, EmptyUpToDate
  <2> QED
    BY <2>1, <2>2, <2>3
<1>14. Stores!OwnRecord'
  <2>1. \A i, j \in ExecIds : s2'[i] # 0 /\ s2'[i] = s2'[j] => i = j
    BY <1>9 DEF Stores!StoreInv, Stores!OwnRecord
  <2>2. \A v \in Calls : s4'[v] # Stores!EmptyHand =>
          s4[v] # Stores!EmptyHand /\ s4'[v].id = s4[v].id /\ s4'[v].obj = s4[v].obj
    BY <1>2, <1>3, <1>8, <1>11
  <2>3. ASSUME NEW v \in Calls, NEW i \in ExecIds, s4'[v] # Stores!EmptyHand, s2'[i] # 0
        PROVE  s4'[v].id = i <=> s4'[v].obj = s2'[i]
    BY <1>9, <2>2, <2>3 DEF Stores!StoreInv, Stores!OwnRecord
  <2>4. ASSUME NEW u \in Calls, NEW v \in Calls, s4'[u] # Stores!EmptyHand, s4'[v] # Stores!EmptyHand
        PROVE  s4'[u].id = s4'[v].id <=> s4'[u].obj = s4'[v].obj
    BY <2>2, <2>4 DEF Stores!StoreInv, Stores!OwnRecord
  <2> QED
    BY <2>1, <2>3, <2>4 DEF Stores!OwnRecord
<1>15. Stores!StoresAgree'
  <2>1. ASSUME NEW i \in ExecIds, Stores!Settled(i)'
        PROVE  (s2'[i] = 0) = (s3'[i] = None) /\ (s2'[i] # 0 => s1'[s2'[i]] = s3'[i])
    <3>1. i # g.id
      BY <1>8, <1>11, <2>1 DEF Stores!Settled
    <3>2. Stores!Settled(i)
      BY <1>2, <1>9, <1>11, <2>1 DEF Stores!Settled
    <3>3. (s2[i] = 0) = (s3[i] = None) /\ (s2[i] # 0 => s1[s2[i]] = s3[i])
      BY <3>2 DEF Stores!StoreInv, Stores!StoresAgree
    <3>4. s2[i] # 0 => s2[i] # g.obj
      BY <1>2, <1>3, <3>1 DEF Stores!StoreInv, Stores!OwnRecord
    <3>5. s2[i] \in 0..Len(s1) /\ Len(s1) \in Nat
      BY StoreIs
    <3>6. s2[i] # 0 => s1'[s2[i]] = s1[s2[i]]
      BY <1>10, <3>4, <3>5
    <3> QED
      BY <1>9, <3>3, <3>6
  <2> QED
    BY <2>1 DEF Stores!StoresAgree
<1> QED
  BY <1>9, <1>10, <1>11, <1>13, <1>14, <1>15, StoreIs DEF Stores!StoreInv

LEMMA StoreUpdates ==
  ASSUME Stores!StoreInv, NEW w \in Calls, Stores!Update(w)
  PROVE  Stores!StoreInv'
<1>1. s4[w] # Stores!EmptyHand
  BY DEF Stores!Update
<1>2. PICK h : h = s4[w]
  OBVIOUS
<1>3. PICK id \in ExecIds : id = h.id
  BY <1>1, <1>2, HeldIs
<1>4. /\ h.obj \in 1..Len(s1) /\ h.copy \in Stores!Records
      /\ h.at \in 1..s5[id] /\ h.dirty \in BOOLEAN
  BY <1>1, <1>2, <1>3, HeldIs
<1>5. PICK q : q = IF s3[id] = None THEN s3
                   ELSE [s3 EXCEPT ![id] = Stores!Changed(s3[id], h.copy.status, h.copy.duration)]
  OBVIOUS
<1>6. /\ s2' = [s2 EXCEPT ![id] = h.obj] /\ s3' = q /\ s5' = [s5 EXCEPT ![id] = @ + 1]
      /\ s6' = IF h.at = s5[id] THEN s6 ELSE s6 \cup {id}
      /\ s4' = [s4 EXCEPT ![w] = Stores!EmptyHand] /\ s1' = s1
  BY <1>2, <1>3, <1>5 DEF Stores!Update, Stores!MemUpdate, Stores!PgUpdate
<1>7. s3[id] # None => Stores!Changed(s3[id], h.copy.status, h.copy.duration) = h.copy
  BY <1>4, StoreIs, RecordWritten
<1>8. /\ q \in [ExecIds -> Stores!Records \cup {None}]
      /\ \A i \in ExecIds : i # id => q[i] = s3[i]
      /\ s3[id] # None => q[id] = h.copy
  BY <1>4, <1>5, <1>7, StoreIs
<1>9. /\ s2' \in [ExecIds -> 0..Len(s1)] /\ s2'[id] = h.obj /\ \A i \in ExecIds : i # id => s2'[i] = s2[i]
      /\ s5' \in [ExecIds -> Nat] /\ s5'[id] = s5[id] + 1 /\ \A i \in ExecIds : i # id => s5'[i] = s5[i]
      /\ DOMAIN s4' = Calls /\ s4'[w] = Stores!EmptyHand /\ \A v \in Calls : v # w => s4'[v] = s4[v]
      /\ s5[id] \in Nat
  BY <1>4, <1>6, StoreIs
<1>10. \A i \in ExecIds : i \notin s6' => i \notin s6 /\ (i = id => h.at = s5[id])
  BY <1>6
<1>11. id \notin s6' =>
         s3[id] # None /\ (Stores!UnsavedOnlyBy(w, id) => s1[h.obj] = h.copy)
  BY <1>1, <1>2, <1>3, <1>10, StoreIs DEF Stores!UpToDate
<1>12. ASSUME NEW v \in Calls PROVE Stores!InHand(v)' /\ Stores!UpToDate(v)'
  <2>1. CASE v = w \/ s4[v] = Stores!EmptyHand
    BY <1>9, <2>1, EmptyUpToDate
  <2>2. CASE v # w /\ s4[v] # Stores!EmptyHand
    <3>1. PICK i \in ExecIds : i = s4[v].id /\ s4[v].at \in 1..s5[i]
      BY <2>2, HeldIs
    <3>2. s4[v].at \in 1..s5'[i]
      <4>1. s5[i] \in Nat /\ (s5'[i] = s5[i] \/ s5'[i] = s5[i] + 1)
        BY <1>9, StoreIs
      <4> QED
        BY <3>1, <4>1
    <3>3. Stores!InHand(v)'
      BY <1>6, <1>9, <2>2, <3>1, <3>2, StoreIs DEF Stores!InHand
    <3>4. CASE i = id
      <4>1. s4[v].at # s5'[i]
        BY <1>9, <3>1, <3>4
      <4> QED
        BY <1>9, <2>2, <3>1, <3>3, <4>1, OutdatedUpToDate
    <3>5. CASE i # id
      <4>1. Stores!UnsavedOnlyBy(v, i)' => Stores!UnsavedOnlyBy(v, i)
        BY <1>2, <1>3, <1>9, <3>5 DEF Stores!UnsavedOnlyBy
      <4>2. Stores!UpToDate(v)'
        BY <1>6, <1>8, <1>9, <1>10, <2>2, <3>1, <3>5, <4>1, StillUpToDate
      <4> QED
        BY <3>3, <4>2
    <3> QED
      BY <3>4, <3>5
  <2> QED
    BY <2>1, <2>2
<1>13. Stores!OwnRecord'
  <2>1. \A j \in ExecIds : j # id /\ s2[j] # 0 => s2[j] # h.obj
    BY <1>1, <1>2, <1>3 DEF Stores!StoreInv, Stores!OwnRecord
  <2>2. \A i, j \in ExecIds : s2'[i] # 0 /\ s2'[i] = s2'[j] => i = j
    BY <1>9, <2>1 DEF Stores!StoreInv, Stores!OwnRecord
  <2>3. \A v \in Calls : s4'[v] # Stores!EmptyHand => v # w /\ s4'[v] = s4[v]
    BY <1>9
  <2>4. ASSUME NEW v \in Calls, NEW i \in ExecIds, s4'[v] # Stores!EmptyHand, s2'[i] # 0
        PROVE  s4'[v].id = i <=> s4'[v].obj = s2'[i]
    <3>1. CASE i = id
      <4>1. s4[v].id = s4[w].id <=> s4[v].obj = s4[w].obj
        BY <1>1, <2>3, <2>4 DEF Stores!StoreInv, Stores!OwnRecord
      <4> QED
        BY <1>2, <1>3, <1>9, <2>3, <2>4, <3>1, <4>1
    <3>2. CASE i # id
      <4>1. s4[v] # Stores!EmptyHand /\ s2[i] # 0
        BY <1>9, <2>3, <2>4, <3>2
      <4>2. s4[v].id = i <=> s4[v].obj = s2[i]
        BY <4>1 DEF Stores!StoreInv, Stores!OwnRecord
      <4> QED
        BY <1>9, <2>3, <2>4, <3>2, <4>2
    <3> QED
      BY <3>1, <3>2
  <2>5. ASSUME NEW u \in Calls, NEW v \in Calls, s4'[u] # Stores!EmptyHand, s4'[v] # Stores!EmptyHand
        PROVE  s4'[u].id = s4'[v].id <=> s4'[u].obj = s4'[v].obj
    BY <2>3, <2>5 DEF Stores!StoreInv, Stores!OwnRecord
  <2> QED
    BY <2>2, <2>4, <2>5 DEF Stores!OwnRecord
<1>14. Stores!StoresAgree'
  <2>1. ASSUME NEW i \in ExecIds, Stores!Settled(i)'
        PROVE  (s2'[i] = 0) = (s3'[i] = None) /\ (s2'[i] # 0 => s1'[s2'[i]] = s3'[i])
    <3>1. i \notin s6'
      BY <2>1 DEF Stores!Settled
    <3>2. CASE i = id
      <4>1. Stores!UnsavedOnlyBy(w, id)
        BY <1>9, <2>1, <3>2 DEF Stores!Settled, Stores!UnsavedOnlyBy
      <4>2. s3[id] # None /\ s1[h.obj] = h.copy
        BY <1>11, <3>1, <3>2, <4>1
      <4>3. h.copy # None /\ h.obj # 0
        BY <1>4, RecordIs
      <4> QED
        BY <1>6, <1>8, <1>9, <3>2, <4>2, <4>3
    <3>3. CASE i # id
      <4>1. Stores!Settled(i)
        BY <1>2, <1>3, <1>9, <1>10, <2>1, <3>1, <3>3 DEF Stores!Settled
      <4>2. (s2[i] = 0) = (s3[i] = None) /\ (s2[i] # 0 => s1[s2[i]] = s3[i])
        BY <4>1 DEF Stores!StoreInv, Stores!StoresAgree
      <4> QED
        BY <1>6, <1>8, <1>9, <3>3, <4>2
    <3> QED
      BY <3>2, <3>3
  <2> QED
    BY <2>1 DEF Stores!StoresAgree
<1>15. \A i \in ExecIds : s5'[i] = 0 => s2'[i] = 0
  BY <1>9, StoreIs
<1>16. \A i \in ExecIds \ s6' : s2'[i] = 0 <=> s3'[i] = None
  <2>1. h.copy # None /\ h.obj # 0
    BY <1>4, RecordIs
  <2> QED
    BY <1>6, <1>8, <1>9, <1>10, <1>11, <2>1, StoreIs
<1>17. s1' \in Seq(Stores!Records) /\ s2' \in [ExecIds -> 0..Len(s1')]
       /\ s3' \in [ExecIds -> Stores!Records \cup {None}]
  BY <1>6, <1>8, <1>9, StoreIs
<1> QED
  BY <1>9, <1>12, <1>13, <1>14, <1>15, <1>16, <1>17 DEF Stores!StoreInv

LEMMA StoreDeletes ==
  ASSUME Stores!StoreInv, NEW id \in ExecIds, Stores!Delete(id)
  PROVE  Stores!StoreInv'
<1>1. /\ s2' = [s2 EXCEPT ![id] = 0] /\ s3' = [s3 EXCEPT ![id] = None]
      /\ s5' = [s5 EXCEPT ![id] = @ + 1] /\ s1' = s1 /\ s4' = s4 /\ s6' = s6
  BY DEF Stores!Delete
<1>2. /\ s2' \in [ExecIds -> 0..Len(s1)] /\ s2'[id] = 0 /\ \A i \in ExecIds : i # id => s2'[i] = s2[i]
      /\ s3' \in [ExecIds -> Stores!Records \cup {None}] /\ s3'[id] = None
      /\ \A i \in ExecIds : i # id => s3'[i] = s3[i]
      /\ s5' \in [ExecIds -> Nat] /\ s5'[id] = s5[id] + 1 /\ \A i \in ExecIds : i # id => s5'[i] = s5[i]
      /\ s5[id] \in Nat
  BY <1>1, StoreIs
<1>3. ASSUME NEW v \in Calls PROVE Stores!InHand(v)' /\ Stores!UpToDate(v)'
  <2>1. CASE s4[v] = Stores!EmptyHand
    BY <1>1, <2>1, EmptyUpToDate
  <2>2. CASE s4[v] # Stores!EmptyHand
    <3>1. PICK i \in ExecIds : i = s4[v].id /\ s4[v].at \in 1..s5[i]
      BY <2>2, HeldIs
    <3>2. s4[v].at \in 1..s5'[i]
      <4>1. s5[i] \in Nat /\ (s5'[i] = s5[i] \/ s5'[i] = s5[i] + 1)
        BY <1>2, StoreIs
      <4> QED
        BY <3>1, <4>1
    <3>3. Stores!InHand(v)'
      BY <1>1, <2>2, <3>1, <3>2, StoreIs DEF Stores!InHand
    <3>4. CASE i = id
      <4>1. s4[v].at # s5'[i]
        BY <1>2, <3>1, <3>4
      <4> QED
        BY <1>1, <3>1, <3>3, <4>1, OutdatedUpToDate
    <3>5. CASE i # id
      <4>1. Stores!UnsavedOnlyBy(v, i)' => Stores!UnsavedOnlyBy(v, i)
        BY <1>1 DEF Stores!UnsavedOnlyBy
      <4>2. Stores!UpToDate(v)'
        BY <1>1, <1>2, <2>2, <3>1, <3>5, <4>1, StillUpToDate
      <4> QED
        BY <3>3, <4>2
    <3> QED
      BY <3>4, <3>5
  <2> QED
    BY <2>1, <2>2
<1>4. Stores!OwnRecord'
  <2>1. \A i \in ExecIds : s2'[i] # 0 => s2'[i] = s2[i]
    BY <1>2
  <2>2. \A i, j \in ExecIds : s2'[i] # 0 /\ s2'[i] = s2'[j] => i = j
    BY <1>2, <2>1 DEF Stores!StoreInv, Stores!OwnRecord
  <2>3. \A v \in Calls, i \in ExecIds : s4'[v] # Stores!EmptyHand /\ s2'[i] # 0 =>
          (s4'[v].id = i <=> s4'[v].obj = s2'[i])
    BY <1>1, <2>1 DEF Stores!StoreInv, Stores!OwnRecord
  <2>4. \A u, v \in Calls : s4'[u] # Stores!EmptyHand /\ s4'[v] # Stores!EmptyHand =>
          (s4'[u].id = s4'[v].id <=> s4'[u].obj = s4'[v].obj)
    BY <1>1 DEF Stores!StoreInv, Stores!OwnRecord
  <2> QED
    BY <2>2, <2>3, <2>4 DEF Stores!OwnRecord
<1>5. Stores!StoresAgree'
  <2>1. ASSUME NEW i \in ExecIds, Stores!Settled(i)' PROVE Stores!Settled(i)
    BY <1>1, <2>1 DEF Stores!Settled
  <2>2. \A i \in ExecIds : Stores!Settled(i) =>
          (s2[i] = 0) = (s3[i] = None) /\ (s2[i] # 0 => s1[s2[i]] = s3[i])
    BY DEF Stores!StoreInv, Stores!StoresAgree
  <2>3. \A i \in ExecIds : Stores!Settled(i) =>
          (s2'[i] = 0) = (s3'[i] = None) /\ (s2'[i] # 0 => s1'[s2'[i]] = s3'[i])
    BY <1>1, <1>2, <2>2
  <2> QED
    BY <2>1, <2>3 DEF Stores!StoresAgree
<1>6. \A i \in ExecIds : s5'[i] = 0 => s2'[i] = 0
  BY <1>2, StoreIs
<1>7. \A i \in ExecIds \ s6' : s2'[i] = 0 <=> s3'[i] = None
  BY <1>1, <1>2, StoreIs
<1>8. DOMAIN s4' = Calls /\ s1' \in Seq(Stores!Records) /\ s2' \in [ExecIds -> 0..Len(s1')]
  BY <1>1, <1>2, StoreIs
<1> QED
  BY <1>2, <1>3, <1>4, <1>5, <1>6, <1>7, <1>8 DEF Stores!StoreInv

LEMMA StoreStep == Stores!StoreInv /\ Stores!Next => Stores!StoreInv'
BY StoreCreates, StoreFinds, StoreChanges, StoreUpdates, StoreDeletes DEF Stores!Next

LEMMA StoresAreAlike == Stores!StoreInv => Stores!StoresAgree
BY DEF Stores!StoreInv
-----------------------------------------------------------------------------
(* The services together.                                                  *)
Inv ==
  /\ focus = "api" => ApiServer!ApiInv
  /\ focus = "notifications" => Inbox!NoteInv
  /\ focus = "emails" => Inbox!MailInv
  /\ focus = "lifecycle" => Servers!LifeInv
  /\ focus = "nodes" => Definitions!NodeInv
  /\ focus = "workspace" => Workspaces!WorkInv
  /\ focus = "billing" => Subscriptions!BillInv
  /\ focus = "users" => Accounts!UserInv
  /\ focus = "auth" => AuthService!AuthInv
  /\ focus = "oauth" => Tokens!OAuthInv
  /\ focus = "credentials" => Vault!VaultInv
  /\ focus = "encryption" => Vault!CryptInv
  /\ focus = "migrations" => Schema!SchemaInv
  /\ focus = "store" => Stores!StoreInv

LEMMA InitHolds == Init => Inv
  BY ApiStart, NoteStart, MailStart, LifeStart, NodeStart, WorkStart, BillStart, UserStart,
     AuthStart, OAuthStart, VaultStart, CryptStart, SchemaStart, StoreStart
  DEF Init, Inv

LEMMA FocusStays == Next => focus' = focus
  BY DEF Next, Keep5, Keep6, Keep7, Keep9, Keep10

LEMMA StepHolds == Inv /\ Next => Inv'
<1> SUFFICES ASSUME Inv, Next PROVE Inv'
  OBVIOUS
<1>1. focus = "api" => ApiServer!ApiInv'
  BY ApiStep DEF Next, Inv
<1>2. focus = "notifications" => Inbox!NoteInv'
  BY NoteStep DEF Next, Inv
<1>3. focus = "emails" => Inbox!MailInv'
  BY MailStep DEF Next, Inv
<1>4. focus = "lifecycle" => Servers!LifeInv'
  BY LifeStep DEF Next, Inv
<1>5. focus = "nodes" => Definitions!NodeInv'
  BY NodeStep DEF Next, Inv
<1>6. focus = "workspace" => Workspaces!WorkInv'
  BY WorkStep DEF Next, Inv
<1>7. focus = "billing" => Subscriptions!BillInv'
  BY BillStep DEF Next, Inv
<1>8. focus = "users" => Accounts!UserInv'
  BY UserStepHolds DEF Next, Inv
<1>9. focus = "auth" => AuthService!AuthInv'
  BY AuthStep DEF Next, Inv
<1>10. focus = "oauth" => Tokens!OAuthInv'
  BY OAuthStep DEF Next, Inv
<1>11. focus = "credentials" => Vault!VaultInv'
  BY VaultStep DEF Next, Inv
<1>12. focus = "encryption" => Vault!CryptInv'
  BY CryptStep DEF Next, Inv
<1>13. focus = "migrations" => Schema!SchemaInv'
  BY SchemaStep DEF Next, Inv
<1>14. focus = "store" => Stores!StoreInv'
  BY StoreStep DEF Next, Inv
<1> QED
  BY FocusStays, <1>1, <1>2, <1>3, <1>4, <1>5, <1>6, <1>7, <1>8, <1>9, <1>10, <1>11, <1>12, <1>13, <1>14 DEF Inv

LEMMA StutterHolds == Inv /\ UNCHANGED vars => Inv'
<1> SUFFICES ASSUME Inv, UNCHANGED vars PROVE Inv'
  OBVIOUS
<1>0. focus' = focus /\ s1' = s1 /\ s2' = s2 /\ s3' = s3 /\ s4' = s4 /\ s5' = s5
      /\ s6' = s6 /\ s7' = s7 /\ s8' = s8 /\ s9' = s9
  BY DEF vars
<1>1. ApiServer!ApiInv' <=> ApiServer!ApiInv
  BY <1>0 DEF ApiServer!ApiInv, ApiServer!SaveKnown, ApiServer!FlowKnown, ApiServer!RunKnown,
     ApiServer!At, ApiServer!Row, ApiServer!Saving
<1>2. Inbox!NoteInv' <=> Inbox!NoteInv
  BY <1>0 DEF Inbox!NoteInv, Inbox!NoteTyped, Inbox!NoteFollowed, Inbox!Stored, Inbox!Quiet,
     Inbox!Retried
<1>3. Inbox!MailInv' <=> Inbox!MailInv
  BY <1>0 DEF Inbox!MailInv, Inbox!MailTyped, Inbox!Tracked, Inbox!Recorded, Inbox!InBatch, Inbox!Holds,
     Inbox!Posts
<1>4. Servers!LifeInv' <=> Servers!LifeInv
  BY <1>0 DEF Servers!LifeInv, Servers!this, Servers!Openings, Servers!NeedsDatabase,
     Servers!ClosedWhenReturned
<1>5. Definitions!NodeInv' <=> Definitions!NodeInv
  BY <1>0 DEF Definitions!NodeInv, Definitions!KnownCall, Definitions!Stored, Definitions!OneHas,
     Definitions!Named, Definitions!Saves, Definitions!BootSaves, Definitions!RowOf
<1>6. Workspaces!WorkInv' <=> Workspaces!WorkInv
  BY <1>0 DEF Workspaces!WorkInv, Workspaces!SeatKept, Workspaces!Seated, Workspaces!Empty,
     Workspaces!Invited, Workspaces!Aimed, Workspaces!At
<1>7. Subscriptions!BillInv' <=> Subscriptions!BillInv
  BY <1>0 DEF Subscriptions!BillInv, Subscriptions!WasTrue, Subscriptions!Carried
<1>8. Accounts!UserInv' <=> Accounts!UserInv
  BY <1>0 DEF Accounts!UserInv, Accounts!KnownRow, Accounts!KnownCall, Accounts!At, Accounts!Listed,
     Accounts!WorksOn, Accounts!Claims, Accounts!Held, Accounts!loadMembers
<1>9. AuthService!AuthInv' <=> AuthService!AuthInv
  BY <1>0 DEF AuthService!AuthInv, AuthService!Explained, AuthService!KnownRequest,
     AuthService!KnownToken, AuthService!IsValid, AuthService!Exists, AuthService!ResetIsValid,
     AuthService!VerifyIsValid
<1>10. Tokens!OAuthInv' <=> Tokens!OAuthInv
  BY <1>0 DEF Tokens!OAuthInv, Tokens!KnownCall, Tokens!Used, Tokens!At, Tokens!HoldsState,
     Tokens!RevokedStaysRevoked
<1>11. Vault!VaultInv' <=> Vault!VaultInv
  BY <1>0 DEF Vault!VaultInv, Vault!Stored, Vault!Exists, Vault!GetCredential, Vault!Whole, Vault!IsToken,
     Vault!decryptData, Vault!decrypt, Vault!InHand, Vault!At
<1>12. Vault!CryptInv' <=> Vault!CryptInv
  BY <1>0 DEF Vault!CryptInv, Vault!Kept, Vault!FlagIsTrue
<1>13. Schema!SchemaInv' <=> Schema!SchemaInv
  BY <1>0 DEF Schema!SchemaInv, Schema!KnownCall, Schema!Ready, Schema!NoGap, Schema!FromTheEnd,
     Schema!GetAppliedMigrations, Schema!Ahead, Schema!Foremost, Schema!Alone,
     Schema!Undisturbed, Schema!At
<1>14. Stores!StoreInv' <=> Stores!StoreInv
  BY <1>0 DEF Stores!StoreInv, Stores!InHand, Stores!OwnRecord, Stores!UnsavedOnlyBy, Stores!UpToDate,
     Stores!StoresAgree, Stores!Settled
<1> QED
  BY <1>0, <1>1, <1>2, <1>3, <1>4, <1>5, <1>6, <1>7, <1>8, <1>9, <1>10, <1>11, <1>12, <1>13,
     <1>14 DEF Inv

THEOREM Inductive == Spec => []Inv
<1>1. Init => Inv
  BY InitHolds
<1>2. Inv /\ [Next]_vars => Inv'
  BY StepHolds, StutterHolds
<1> QED
  BY <1>1, <1>2, PTL DEF Spec

\* A service answers with its database open, and returns with nothing open
\* (server.go of every service: Start, Shutdown).
THEOREM StopsInOrderHolds == Spec => []StopsInOrder
<1>1. Inv => StopsInOrder
  BY LifeIsSafe DEF Inv, StopsInOrder
<1> QED
  BY <1>1, Inductive, PTL

\* Two node definitions are created under one name only where two creations
\* of it overlapped or its lookup failed (node_service.go:69-72, 130, 423-429).
THEOREM NamesStayUniqueHolds == Spec => []NamesStayUnique
<1>1. Inv => NamesStayUnique
  BY NamesDiffer DEF Inv, NamesStayUnique
<1> QED
  BY <1>1, Inductive, PTL

\* A settled execution of the API server changes only when its own run ends,
\* which nobody stopped (api main.go:995-1010).
THEOREM KeptAsWrittenHolds == Spec => KeptAsWritten
<1>1. Inv /\ [Next]_vars => [focus = "api" => ApiServer!SettlesItself]_vars
  BY ApiStep DEF Inv, Next
<1> QED
  BY <1>1, Inductive, PTL DEF Spec, KeptAsWritten

\* What somebody was given is not taken away by a stale or half-done request:
\* ownership, a password, a subscription that neither Stripe nor an unverified
\* event has ended, a revocation, membership and a token
\* (workspace_service.go:321-380, auth_service.go:293, 403-421,
\* billing_service.go:262-281, 485-498, billing_handler.go:513-515, oauth.go:378-389,
\* organization_repository.go:241-258, credential_service.go:146-179).
THEOREM RightsSurviveHolds == Spec => []RightsSurvive
<1>1. Inv => RightsSurvive
  BY SeatsAreKept, AccountsAreTrue, RowsWereTrue, TokensAreKept, ListsAreKept,
     SecretsAreKept
  DEF Inv, RightsSurvive
<1> QED
  BY <1>1, Inductive, PTL

\* Limits hold however requests cross: an account is locked only by the
\* failures that were made (auth_service.go:658-670), an email goes out twice
\* only where an outcome was lost or a batch listed it while it was being sent
\* or held by another batch (email_service.go:281-329), and a state serves
\* twice only where two callbacks met it in a store (oauth.go:345-351).
THEOREM LimitsHoldHolds == Spec => []LimitsHold
<1>1. Inv => LimitsHold
  BY AccountsAreTrue, SentOnceRecorded, TokensAreKept DEF Inv, LimitsHold
<1> QED
  BY <1>1, Inductive, PTL

\* What is written in several statements is whole again when they are over:
\* a saved workflow (api main.go:879-886), the texts an encrypted credential's
\* flag speaks of (encryption.go:194, 207-224), the schema and its version
\* (migration_service.go:222-303), a notification's status
\* (notification.go:215-294), and a record in the two execution stores
\* (persistence.go:123).
THEOREM PartialWritesHold == Spec => []PartialWritesExplained
<1>1. Inv => PartialWritesExplained
  BY ApiIsSafe, SchemaIsTrue, NotesAreSafe, StoresAreAlike
  DEF Inv, PartialWritesExplained, Vault!CryptInv
<1> QED
  BY <1>1, Inductive, PTL
=============================================================================
