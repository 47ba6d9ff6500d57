-------------------------- MODULE OpsManagerProofs --------------------------
(***************************************************************************)
(* For any services, schedulers, seeds and limits: the console's events    *)
(* are numbered without a hole, the newest one tells the position of each  *)
(* switch, and a page that disagrees with itself shows a later event.      *)
(***************************************************************************)
EXTENDS OpsManager, TLAPS

-----------------------------------------------------------------------------
Typed ==
    /\ maintenance \subseteq Services
    /\ schedulers \in [Schedulers -> SchedulerRecords]
    /\ events \in Seq(EventRecords)
    /\ nextEvent \in Nat
    /\ Len(events) = IF nextEvent <= RetentionLimit THEN nextEvent ELSE RetentionLimit

Limits == RetentionLimit \in Nat /\ RetentionLimit > 0 /\ PageEvents \in Nat /\ PageEvents > 0

\* What a recorded event does to the list.
LEMMA Records ==
    ASSUME Typed, NEW source \in Services \cup Schedulers,
           NEW type \in ServiceEvents \cup SchedulerEvents, Record(source, type)
    PROVE  /\ nextEvent' = nextEvent + 1
           /\ events' \in Seq(EventRecords) /\ Len(events') \in Nat /\ Len(events) \in Nat
           /\ Len(events') = IF nextEvent' <= RetentionLimit THEN nextEvent' ELSE RetentionLimit
           /\ Len(events') >= 1 /\ Len(events') <= Len(events) + 1
           /\ nextEvent' <= RetentionLimit => Len(events') = Len(events) + 1
           /\ events'[1].source = source /\ events'[1].type = type
           /\ events'[1].id = nextEvent'
           /\ \A i \in 2 .. Len(events') : i - 1 \in 1 .. Len(events) /\ events'[i] = events[i - 1]
  <1> DEFINE e == [id |-> NextNumber, source |-> source, type |-> type]
             all == <<e>> \o events
  <1>1. /\ RetentionLimit \in Nat /\ RetentionLimit > 0
        /\ nextEvent' = nextEvent + 1 /\ NextNumber = nextEvent + 1
        /\ events' = Retained(all)
    BY OpsAssumption DEF Record, NextNumber
  <1>2. e \in EventRecords
    BY <1>1 DEF Typed, EventRecords
  <1>3. /\ all \in Seq(EventRecords) /\ Len(all) = Len(events) + 1 /\ Len(events) \in Nat
        /\ all[1] = e /\ \A i \in 2 .. Len(all) : all[i] = events[i - 1]
    BY <1>2 DEF Typed
  <1> DEFINE n == IF Len(all) < RetentionLimit THEN Len(all) ELSE RetentionLimit
  <1>4. events' = SubSeq(all, 1, n) /\ n \in 1 .. Len(all)
    BY <1>1, <1>3 DEF Retained, First
  <1> HIDE DEF n, all
  <1>5. /\ events' \in Seq(EventRecords) /\ Len(events') = n
        /\ \A i \in 1 .. n : events'[i] = all[i]
    BY <1>3, <1>4
  <1>6. n = IF nextEvent' <= RetentionLimit THEN nextEvent' ELSE RetentionLimit
    BY <1>1, <1>3 DEF n, Typed
  <1> QED
    BY <1>1, <1>3, <1>4, <1>5, <1>6 DEF Typed

\* The operations of the console, by what each records.
SwitchStep(source, type) ==
    /\ Record(source, type)
    /\ view' = view
    /\ \/ /\ source \in Services /\ type = "service.maintenance.enabled"
          /\ maintenance' = maintenance \cup {source} /\ schedulers' = schedulers
       \/ /\ source \in Services /\ type = "service.resumed"
          /\ maintenance' = maintenance \ {source} /\ schedulers' = schedulers
       \/ /\ source \in Schedulers /\ type \in SchedulerEvents
          /\ maintenance' = maintenance
          /\ schedulers' \in [Schedulers -> SchedulerRecords]
          /\ \A s \in Schedulers \ {source} : schedulers'[s] = schedulers[s]
          /\ schedulers'[source].enabled =
                 IF type = "scheduler.run_once" THEN schedulers[source].enabled
                 ELSE type = "scheduler.resumed"

\* A step records an event of a switch, reads a page, restarts or does nothing.
LEMMA Steps ==
    ASSUME Typed, [Next]_vars
    PROVE  \/ \E source \in Services \cup Schedulers,
                 type \in ServiceEvents \cup SchedulerEvents : SwitchStep(source, type)
           \/ \E v \in Viewers : OpenPage(v) \/ ReadNext(v)
           \/ Restart
           \/ UNCHANGED vars
  <1>1. ASSUME NEW s \in Services, SetMaintenance(s)
        PROVE  SwitchStep(s, "service.maintenance.enabled")
    BY <1>1 DEF SetMaintenance, SwitchStep
  <1>2. ASSUME NEW s \in Services, ResumeService(s)
        PROVE  SwitchStep(s, "service.resumed")
    BY <1>2 DEF ResumeService, SwitchStep
  <1>3. ASSUME NEW s \in Schedulers, PauseScheduler(s)
        PROVE  SwitchStep(s, "scheduler.paused")
    BY <1>3 DEF PauseScheduler, SwitchStep, Typed, SchedulerRecords, Results, SchedulerEvents
  <1>4. ASSUME NEW s \in Schedulers, ResumeScheduler(s)
        PROVE  SwitchStep(s, "scheduler.resumed")
    BY <1>4 DEF ResumeScheduler, SwitchStep, Typed, SchedulerRecords, Results, SchedulerEvents
  <1>5. ASSUME NEW s \in Schedulers, RunSchedulerOnce(s)
        PROVE  SwitchStep(s, "scheduler.run_once")
    BY <1>5 DEF RunSchedulerOnce, SwitchStep, Typed, SchedulerRecords, Results,
                SchedulerEvents, DueAfterRun
  <1> QED
    BY <1>1, <1>2, <1>3, <1>4, <1>5 DEF Next, ServiceEvents, SchedulerEvents


\* Each step keeps the types.
LEMMA TypedStep == Typed /\ [Next]_vars => Typed'
  <1> SUFFICES ASSUME Typed, [Next]_vars
               PROVE  Typed'
    OBVIOUS
  <1>1. ASSUME NEW source \in Services \cup Schedulers,
               NEW type \in ServiceEvents \cup SchedulerEvents, SwitchStep(source, type)
        PROVE  Typed'
    <2>1. Record(source, type)
      BY <1>1 DEF SwitchStep
    <2>2. /\ nextEvent' = nextEvent + 1 /\ events' \in Seq(EventRecords)
          /\ Len(events') = IF nextEvent' <= RetentionLimit THEN nextEvent' ELSE RetentionLimit
      BY <2>1, Records
    <2>3. maintenance' \subseteq Services /\ schedulers' \in [Schedulers -> SchedulerRecords]
      BY <1>1 DEF SwitchStep, Typed
    <2> QED
      BY <2>2, <2>3 DEF Typed
  <1>2. ASSUME NEW v \in Viewers, OpenPage(v) \/ ReadNext(v)
        PROVE  Typed'
    BY <1>2 DEF OpenPage, ReadNext, opsVars, Typed
  <1>3. CASE Restart
    <2>1. RetentionLimit \in Nat /\ SeedEvents \in Seq(EventRecords)
          /\ Len(SeedEvents) <= RetentionLimit /\ Len(SeedEvents) \in Nat
          /\ SchedulerSeeds \in [Schedulers -> SchedulerRecords]
      BY OpsAssumption DEF Schedulers
    <2> QED
      BY <1>3, <2>1 DEF Restart, Typed
  <1>4. CASE UNCHANGED vars
    BY <1>4 DEF vars, opsVars, Typed
  <1> QED
    BY <1>1, <1>2, <1>3, <1>4, Steps

\* The seeds have the types.
LEMMA InitTyped == Init => Typed
  <1>1. RetentionLimit \in Nat /\ SeedEvents \in Seq(EventRecords)
        /\ Len(SeedEvents) <= RetentionLimit /\ Len(SeedEvents) \in Nat
        /\ SchedulerSeeds \in [Schedulers -> SchedulerRecords]
    BY OpsAssumption DEF Schedulers
  <1> QED
    BY <1>1 DEF Init, Typed

\* The types, in every execution.
LEMMA TypedInvariant == Spec => []Typed
  BY InitTyped, TypedStep, PTL DEF Spec

\* For any seeds and any limit the console keeps its types and no more events than
\* the limit.
THEOREM OpsTypes == Spec => []TypeOK
  <1>1. Typed => TypeOK
    BY OpsAssumption DEF Typed, TypeOK
  <1> QED
    BY <1>1, TypedInvariant, PTL

-----------------------------------------------------------------------------
(***************************************************************************)
(* Numbers.                                                                *)
(***************************************************************************)
LEMMA SeedNumbers ==
    ASSUME events = SeedEvents, nextEvent = Len(SeedEvents)
    PROVE  NumbersRunDown
  BY OpsAssumption DEF NumbersRunDown

\* A new event gets the next number, and the cut is at the other end.
LEMMA NumbersStep == Typed /\ NumbersRunDown /\ [Next]_vars => NumbersRunDown'
  <1> SUFFICES ASSUME Typed, NumbersRunDown, [Next]_vars
               PROVE  NumbersRunDown'
    OBVIOUS
  <1>1. ASSUME NEW source \in Services \cup Schedulers,
               NEW type \in ServiceEvents \cup SchedulerEvents, SwitchStep(source, type)
        PROVE  NumbersRunDown'
    <2>1. Record(source, type)
      BY <1>1 DEF SwitchStep
    <2>2. /\ nextEvent' = nextEvent + 1 /\ events'[1].id = nextEvent'
          /\ events' \in Seq(EventRecords) /\ Len(events') \in Nat
          /\ \A i \in 2 .. Len(events') :
                 i - 1 \in 1 .. Len(events) /\ events'[i] = events[i - 1]
      BY <2>1, Records
    <2>3. /\ nextEvent \in Nat /\ DOMAIN events = 1 .. Len(events)
          /\ DOMAIN events' = 1 .. Len(events')
      BY <2>2 DEF Typed
    <2> SUFFICES ASSUME NEW i \in 1 .. Len(events')
                 PROVE  events'[i].id = nextEvent' - i + 1
      BY <2>3 DEF NumbersRunDown
    <2>4. CASE i = 1
      BY <2>2, <2>3, <2>4
    <2>5. CASE i # 1
      <3>1. i - 1 \in DOMAIN events /\ events'[i] = events[i - 1]
        BY <2>2, <2>3, <2>5
      <3>2. events[i - 1].id = nextEvent - (i - 1) + 1
        BY <3>1 DEF NumbersRunDown
      <3> QED
        BY <2>2, <2>3, <3>1, <3>2
    <2> QED
      BY <2>4, <2>5
  <1>2. ASSUME NEW v \in Viewers, OpenPage(v) \/ ReadNext(v)
        PROVE  NumbersRunDown'
    BY <1>2 DEF OpenPage, ReadNext, opsVars, NumbersRunDown
  <1>3. CASE Restart
    <2>1. \A i \in DOMAIN SeedEvents : SeedEvents[i].id = Len(SeedEvents) - i + 1
      BY OpsAssumption
    <2> QED
      BY <1>3, <2>1 DEF Restart, NumbersRunDown
  <1>4. CASE UNCHANGED vars
    BY <1>4 DEF vars, opsVars, NumbersRunDown
  <1> QED
    BY <1>1, <1>2, <1>3, <1>4, Steps

\* The numbers, in every execution.
LEMMA NumbersInvariant == Spec => []NumbersRunDown
  <1>1. Init => NumbersRunDown
    BY SeedNumbers DEF Init
  <1> QED
    BY <1>1, NumbersStep, TypedInvariant, PTL DEF Spec

\* For any limit the numbers of the events that are kept run down without a hole.
THEOREM NumbersRunDownHolds == Spec => []NumbersRunDown
  BY NumbersInvariant, PTL

-----------------------------------------------------------------------------
(***************************************************************************)
(* Switches.                                                               *)
(***************************************************************************)
\* The switch of the source is where its event i has put it.
LeftBy(source, i) ==
    IF source \in Services
    THEN source \in maintenance <=> events[i].type = "service.maintenance.enabled"
    ELSE schedulers[source].enabled <=> events[i].type = "scheduler.resumed"

Seeded(source) ==
    IF source \in Services THEN source \notin maintenance
    ELSE schedulers[source].enabled = SchedulerSeeds[source].enabled

\* The property, with the newest event named instead of chosen.
Told ==
    \A source \in Services \cup Schedulers :
        \/ SwitchEvents(source) = {} /\ (nextEvent <= RetentionLimit => Seeded(source))
        \/ \E i \in SwitchEvents(source) :
              /\ \A j \in SwitchEvents(source) : i <= j
              /\ LeftBy(source, i)

Switching == (ServiceEvents \cup SchedulerEvents) \ {"scheduler.run_once"}

\* The indices of a source's switch events.
LEMMA SwitchIndices ==
    ASSUME Typed, NEW source
    PROVE  /\ SwitchEvents(source) \subseteq 1 .. Len(events) /\ Len(events) \in Nat
           /\ \A i \in 1 .. Len(events) :
                  i \in SwitchEvents(source) <=>
                      events[i].source = source /\ events[i].type \in Switching
  BY DEF Typed, SwitchEvents, Switching

\* A switch keeps what the events tell: its own is now the newest, the others move down.
LEMMA ToldSwitch ==
    ASSUME Typed, Typed', Told, NEW source \in Services \cup Schedulers,
           NEW type \in ServiceEvents \cup SchedulerEvents, SwitchStep(source, type)
    PROVE  Told'
  <1>1. Record(source, type)
    BY DEF SwitchStep
  <1>2. /\ nextEvent' = nextEvent + 1 /\ nextEvent \in Nat
        /\ Len(events') \in Nat /\ Len(events) \in Nat /\ Len(events') >= 1
        /\ nextEvent' <= RetentionLimit => Len(events') = Len(events) + 1
        /\ events'[1].source = source /\ events'[1].type = type
        /\ \A i \in 2 .. Len(events') :
               i - 1 \in 1 .. Len(events) /\ events'[i] = events[i - 1]
    BY <1>1, Records DEF Typed
  <1>3. RetentionLimit \in Nat
    BY OpsAssumption
  <1> SUFFICES ASSUME NEW s \in Services \cup Schedulers
               PROVE  \/ SwitchEvents(s)' = {} /\ (nextEvent' <= RetentionLimit => Seeded(s)')
                      \/ \E i \in SwitchEvents(s)' :
                            /\ \A j \in SwitchEvents(s)' : i <= j
                            /\ LeftBy(s, i)'
    BY DEF Told
  <1> DEFINE old == SwitchEvents(s)
             new == SwitchEvents(s)'
  <1>4. /\ old \subseteq 1 .. Len(events)
        /\ \A i \in 1 .. Len(events) :
               i \in old <=> events[i].source = s /\ events[i].type \in Switching
    BY SwitchIndices
  <1>5. /\ new \subseteq 1 .. Len(events')
        /\ \A i \in 1 .. Len(events') :
               i \in new <=> events'[i].source = s /\ events'[i].type \in Switching
    BY DEF Typed, SwitchEvents, Switching
  <1> HIDE DEF old, new
  <1>6. \A i \in 2 .. Len(events') : i \in new <=> i - 1 \in old
    BY <1>2, <1>4, <1>5
  <1>7. CASE s = source /\ type \in Switching
    <2>1. 1 \in new /\ \A j \in new : 1 <= j
      BY <1>2, <1>5, <1>7
    <2>2. LeftBy(s, 1)'
      BY <1>2, <1>7, OpsAssumption
         DEF SwitchStep, LeftBy, Switching, ServiceEvents, SchedulerEvents
    <2> QED
      BY <2>1, <2>2 DEF new
  <1>8. CASE ~(s = source /\ type \in Switching)
    <2>1. 1 \notin new
      BY <1>2, <1>5, <1>8
    <2>2. /\ s \in Services => (s \in maintenance' <=> s \in maintenance)
          /\ s \in Schedulers => schedulers'[s].enabled = schedulers[s].enabled
      BY <1>8, OpsAssumption
         DEF SwitchStep, Switching, ServiceEvents, SchedulerEvents
    <2>3. CASE old = {} /\ (nextEvent <= RetentionLimit => Seeded(s))
      <3>1. new = {}
        BY <1>5, <1>6, <2>1, <2>3
      <3>2. Seeded(s) => Seeded(s)'
        BY <2>2 DEF Seeded
      <3> QED
        BY <1>2, <1>3, <2>3, <3>1, <3>2 DEF new
    <2>4. ASSUME NEW i \in old, \A j \in old : i <= j, LeftBy(s, i)
          PROVE  \/ new = {} /\ (nextEvent' <= RetentionLimit => Seeded(s)')
                 \/ \E k \in new : /\ \A j \in new : k <= j
                                   /\ LeftBy(s, k)'
      <3>1. CASE i + 1 <= Len(events')
        <4>1. i + 1 \in new /\ events'[i + 1] = events[i]
          BY <1>2, <1>4, <1>6, <3>1
        <4>2. \A j \in new : i + 1 <= j
          BY <1>4, <1>5, <1>6, <2>1, <2>4
        <4>3. LeftBy(s, i + 1)'
          BY <2>2, <2>4, <4>1 DEF LeftBy
        <4> QED
          BY <4>1, <4>2, <4>3
      <3>2. CASE ~(i + 1 <= Len(events'))
        <4>1. ~(nextEvent' <= RetentionLimit)
          BY <1>2, <1>4, <3>2
        <4>2. new = {}
          BY <1>4, <1>5, <1>6, <2>1, <2>4, <3>2
        <4> QED
          BY <4>1, <4>2
      <3> QED
        BY <3>1, <3>2
    <2> QED
      BY <2>3, <2>4 DEF Told, old, new
  <1> QED
    BY <1>7, <1>8

\* The seeds tell of no switch.
LEMMA ToldSeeds ==
    ASSUME maintenance = {}, schedulers = SchedulerSeeds, events = SeedEvents
    PROVE  Told
  <1>1. \A i \in DOMAIN SeedEvents : SeedEvents[i].type \in SeedTypes
    BY OpsAssumption
  <1>2. \A source : SwitchEvents(source) = {}
    BY <1>1 DEF SwitchEvents, SeedTypes, ServiceEvents, SchedulerEvents
  <1>3. \A source \in Services \cup Schedulers : Seeded(source)
    BY DEF Seeded
  <1> QED
    BY <1>2, <1>3 DEF Told


\* Each step keeps what the events tell.
LEMMA ToldStep == Typed /\ Typed' /\ Told /\ [Next]_vars => Told'
  <1> SUFFICES ASSUME Typed, Typed', Told, [Next]_vars
               PROVE  Told'
    OBVIOUS
  <1>1. ASSUME UNCHANGED opsVars
        PROVE  Told'
    BY <1>1 DEF opsVars, Told, SwitchEvents, Seeded, LeftBy
  <1>2. CASE Restart
    <2>1. \A i \in DOMAIN events' : events'[i].type \in SeedTypes
      BY <1>2, OpsAssumption DEF Restart
    <2>2. \A source : SwitchEvents(source)' = {}
      BY <2>1 DEF SwitchEvents, SeedTypes, ServiceEvents, SchedulerEvents
    <2>3. \A source \in Services \cup Schedulers : Seeded(source)'
      BY <1>2 DEF Restart, Seeded
    <2> QED
      BY <2>2, <2>3 DEF Told
  <1>3. CASE UNCHANGED vars
    BY <1>1, <1>3 DEF vars
  <1> QED
    BY <1>1, <1>2, <1>3, ToldSwitch, Steps DEF OpenPage, ReadNext

\* What the events tell, in every execution.
LEMMA ToldInvariant == Spec => []Told
  <1>1. Init => Told
    BY ToldSeeds DEF Init
  <1> QED
    BY <1>1, ToldStep, TypedInvariant, PTL DEF Spec

\* For any seeds and any limit: the newest event about a switch tells its position,
\* and where there is none, and none was cut, the switch is as seeded.
THEOREM NewestEventTellsHolds == Spec => []NewestEventTells
  <1>1. Typed /\ Told => NewestEventTells
    <2> SUFFICES ASSUME Typed, Told, NEW source \in Services \cup Schedulers
                 PROVE  LET switched == SwitchEvents(source)
                            type == events[Newest(switched)].type
                        IN  IF switched # {}
                            THEN IF source \in Services
                                 THEN source \in maintenance
                                          <=> type = "service.maintenance.enabled"
                                 ELSE schedulers[source].enabled
                                          <=> type = "scheduler.resumed"
                            ELSE nextEvent <= RetentionLimit =>
                                 IF source \in Services THEN source \notin maintenance
                                 ELSE schedulers[source].enabled
                                          = SchedulerSeeds[source].enabled
      BY DEF NewestEventTells
    <2>1. CASE SwitchEvents(source) = {}
      BY <2>1 DEF Told, Seeded
    <2>2. CASE SwitchEvents(source) # {}
      <3>1. PICK i \in SwitchEvents(source) :
               (\A j \in SwitchEvents(source) : i <= j) /\ LeftBy(source, i)
        BY <2>2 DEF Told
      <3>2. \A k \in SwitchEvents(source) :
               (\A j \in SwitchEvents(source) : k <= j) => k = i
        BY <3>1, SwitchIndices
      <3>3. Newest(SwitchEvents(source)) = i
        BY <3>1, <3>2 DEF Newest
      <3> QED
        BY <2>2, <3>1, <3>3 DEF LeftBy
    <2> QED
      BY <2>1, <2>2
  <1> QED
    BY <1>1, TypedInvariant, ToldInvariant, PTL

-----------------------------------------------------------------------------
(***************************************************************************)
(* Pages.                                                                  *)
(***************************************************************************)
\* The figures that were shown are those of now unless an event came after.
FiguresOf(v) ==
    /\ "overview" \in DOMAIN view[v].shown
    /\ view[v].shown.overview.at <= nextEvent
    /\ view[v].shown.overview.at \in Nat
    /\ view[v].shown.overview.at = nextEvent =>
           Counts(ServiceList) = view[v].shown.overview.counts

ListOf(v) ==
    /\ "services" \in DOMAIN view[v].shown
    /\ Counts(view[v].shown.services) # view[v].shown.overview.counts =>
           view[v].shown.overview.at < nextEvent

\* How far an overview page has come.
PageSo(v) ==
    view[v].page = "overview" =>
        \/ view[v].toRead = <<"overview", "services", "events">>
        \/ view[v].toRead = <<"services", "events">> /\ FiguresOf(v)
        \/ view[v].toRead = <<"events">> /\ FiguresOf(v) /\ ListOf(v)
        \/ /\ view[v].toRead = <<>>
           /\ Counts(view[v].shown.services) # view[v].shown.overview.counts =>
                  /\ view[v].shown.events # <<>>
                  /\ view[v].shown.events[1].id > view[v].shown.overview.at

Views == view = [v \in Viewers |-> view[v]]

Pages == Views /\ \A v \in Viewers : PageSo(v)

\* A switch is later than all that a page has read.
LEMMA PageSwitch ==
    ASSUME Typed, Pages, NEW source \in Services \cup Schedulers,
           NEW type \in ServiceEvents \cup SchedulerEvents, SwitchStep(source, type)
    PROVE  Pages'
  <1>1. nextEvent' = nextEvent + 1 /\ nextEvent \in Nat /\ view' = view
    BY Records DEF SwitchStep, Typed
  <1>2. ASSUME NEW v \in Viewers, FiguresOf(v)
        PROVE  FiguresOf(v)' /\ (ListOf(v) => ListOf(v)')
    BY <1>1, <1>2 DEF FiguresOf, ListOf
  <1>3. ASSUME NEW v \in Viewers
        PROVE  PageSo(v)'
    BY <1>1, <1>2 DEF Pages, PageSo
  <1> QED
    BY <1>1, <1>3 DEF Pages, Views

\* The first event that a page shows is the newest.
LEMMA EventShown ==
    ASSUME Typed, NumbersRunDown, nextEvent > 0
    PROVE  /\ First(events, PageEvents) # <<>>
           /\ First(events, PageEvents)[1].id = nextEvent
  <1>1. /\ RetentionLimit \in Nat /\ RetentionLimit > 0
        /\ PageEvents \in Nat /\ PageEvents > 0
    BY OpsAssumption
  <1>2. events \in Seq(EventRecords) /\ Len(events) \in Nat /\ Len(events) > 0
    BY <1>1 DEF Typed
  <1>3. events[1].id = nextEvent
    BY <1>2 DEF NumbersRunDown, Typed
  <1> DEFINE n == IF Len(events) < PageEvents THEN Len(events) ELSE PageEvents
  <1>4. n \in 1 .. Len(events) /\ First(events, PageEvents) = SubSeq(events, 1, n)
    BY <1>1, <1>2 DEF First
  <1> HIDE DEF n
  <1>5. Len(SubSeq(events, 1, n)) = n /\ SubSeq(events, 1, n)[1] = events[1]
    BY <1>2, <1>4
  <1> QED
    BY <1>3, <1>4, <1>5

\* What a page reads next is explained by the events it reads last.
LEMMA PageReads ==
    ASSUME Typed, NumbersRunDown, Pages, NEW v \in Viewers, ReadNext(v)
    PROVE  Pages'
  <1> DEFINE what == Head(view[v].toRead)
             have == view[v].shown
             shown == [w \in DOMAIN have \cup {what} |->
                          IF w = what THEN Snapshot(v, what) ELSE have[w]]
  <1>1. /\ UNCHANGED <<maintenance, schedulers, events, nextEvent>>
        /\ view[v].toRead # <<>>
        /\ view' = [view EXCEPT ![v] = [page |-> view[v].page,
                                        toRead |-> Tail(view[v].toRead), shown |-> shown]]
    BY DEF ReadNext, opsVars
  <1>2. /\ \A u \in Viewers \ {v} : view'[u] = view[u]
        /\ view'[v].page = view[v].page /\ view'[v].toRead = Tail(view[v].toRead)
        /\ view'[v].shown = shown
        /\ Views'
    BY <1>1 DEF Pages, Views
  <1>3. ASSUME NEW u \in Viewers \ {v}
        PROVE  PageSo(u)'
    <2>1. view'[u] = view[u] /\ PageSo(u)
      BY <1>2, <1>3 DEF Pages
    <2> QED
      BY <1>1, <2>1 DEF PageSo, FiguresOf, ListOf, ServiceList, StatusOf
  <1>4. Counts(ServiceList)' = Counts(ServiceList)
    BY <1>1 DEF Counts, ServiceList, StatusOf
  <1>5. \A w \in DOMAIN have \ {what} : shown[w] = have[w] /\ w \in DOMAIN shown
    OBVIOUS
  <1>6. shown[what] = Snapshot(v, what) /\ what \in DOMAIN shown
    OBVIOUS
  <1> HIDE DEF shown
  <1>7. ASSUME view[v].page = "overview"
        PROVE  PageSo(v)'
    <2>1. PageSo(v) /\ view'[v].page = "overview"
      BY <1>2, <1>7 DEF Pages
    <2>2. CASE view[v].toRead = <<"overview", "services", "events">>
      <3>1. what = "overview" /\ view'[v].toRead = <<"services", "events">>
        BY <1>2, <2>2
      <3>2. "overview" \in DOMAIN shown /\ shown.overview = Overview
        BY <1>6, <3>1 DEF Snapshot
      <3>3. Overview.at = nextEvent /\ Overview.counts = Counts(ServiceList)
        BY DEF Overview
      <3>4. FiguresOf(v)'
        BY <1>1, <1>2, <1>4, <3>2, <3>3 DEF FiguresOf, Typed
      <3> QED
        BY <3>1, <3>4 DEF PageSo
    <2>3. CASE view[v].toRead = <<"services", "events">> /\ FiguresOf(v)
      <3>1. what = "services" /\ view'[v].toRead = <<"events">>
        BY <1>2, <2>3
      <3>2. "services" \in DOMAIN shown /\ shown.services = ServiceList
        BY <1>6, <3>1 DEF Snapshot
      <3>3. "overview" \in DOMAIN shown /\ shown.overview = have.overview
        BY <1>5, <2>3, <3>1 DEF FiguresOf
      <3>4. FiguresOf(v)'
        BY <1>1, <1>2, <1>4, <2>3, <3>3 DEF FiguresOf
      <3>5. ListOf(v)'
        BY <1>1, <1>2, <2>3, <3>2, <3>3 DEF FiguresOf, ListOf, Typed
      <3> QED
        BY <3>1, <3>4, <3>5 DEF PageSo
    <2>4. CASE view[v].toRead = <<"events">> /\ FiguresOf(v) /\ ListOf(v)
      <3>1. what = "events" /\ view'[v].toRead = <<>>
        BY <1>2, <2>4
      <3>2. shown.events = First(events, PageEvents)
        BY <1>6, <1>7, <3>1 DEF Snapshot
      <3>3. shown.overview = have.overview /\ shown.services = have.services
        BY <1>5, <2>4, <3>1 DEF FiguresOf, ListOf
      <3>4. ASSUME Counts(shown.services) # shown.overview.counts
            PROVE  shown.events # <<>> /\ shown.events[1].id > shown.overview.at
        <4>1. have.overview.at < nextEvent /\ have.overview.at \in Nat /\ nextEvent \in Nat
          BY <2>4, <3>3, <3>4 DEF FiguresOf, ListOf, Typed
        <4> QED
          BY <3>2, <3>3, <4>1, EventShown
      <3> QED
        BY <1>2, <3>1, <3>4 DEF PageSo
    <2> QED
      BY <1>1, <2>1, <2>2, <2>3, <2>4, <1>7 DEF PageSo
  <1> QED
    BY <1>2, <1>3, <1>7 DEF Pages, PageSo

\* Each step keeps the pages explained.
LEMMA PagesStep == Typed /\ NumbersRunDown /\ Pages /\ [Next]_vars => Pages'
  <1> SUFFICES ASSUME Typed, NumbersRunDown, Pages, [Next]_vars
               PROVE  Pages'
    OBVIOUS
  <1>1. ASSUME NEW v \in Viewers, OpenPage(v)
        PROVE  Pages'
    <2>1. PICK page \in DOMAIN Reads :
             view' = [view EXCEPT ![v] = [page |-> page, toRead |-> ReadsOf(page), shown |-> <<>>]]
      BY <1>1 DEF OpenPage
    <2>2. /\ UNCHANGED <<maintenance, schedulers, events, nextEvent>>
          /\ \A u \in Viewers \ {v} : view'[u] = view[u]
          /\ view'[v].page = page /\ view'[v].toRead = ReadsOf(page)
          /\ Views'
      BY <1>1, <2>1 DEF OpenPage, opsVars, Pages, Views
    <2>3. ASSUME NEW u \in Viewers \ {v}
          PROVE  PageSo(u)'
      <3>1. view'[u] = view[u] /\ PageSo(u)
        BY <2>2, <2>3 DEF Pages
      <3> QED
        BY <2>2, <3>1 DEF PageSo, FiguresOf, ListOf, ServiceList, StatusOf
    <2>4. PageSo(v)'
      BY <2>2 DEF PageSo, ReadsOf, Reads
    <2> QED
      BY <2>2, <2>3, <2>4 DEF Pages
  <1>2. CASE Restart
    <2>1. view' = [v \in Viewers |-> NoPage]
      BY <1>2 DEF Restart
    <2>2. \A v \in Viewers : view'[v].page = "none"
      BY <2>1 DEF NoPage
    <2> QED
      BY <2>1, <2>2 DEF Pages, Views, PageSo
  <1>3. CASE UNCHANGED vars
    BY <1>3 DEF vars, opsVars, Pages, Views, PageSo, FiguresOf, ListOf, ServiceList, StatusOf
  <1> QED
    BY <1>1, <1>2, <1>3, PageSwitch, PageReads, Steps

\* The pages, in every execution.
LEMMA PagesInvariant == Spec => []Pages
  <1>1. Init => Pages
    BY DEF Init, Pages, Views, PageSo, NoPage
  <1> QED
    BY <1>1, PagesStep, TypedInvariant, NumbersInvariant, PTL DEF Spec

\* For any viewers and limits: an overview page whose figures and list disagree shows
\* an event that is later than the figures.
THEOREM PageExplainedHolds == Spec => []PageExplained
  <1>1. ASSUME Pages
        PROVE  PageExplained
    <2> SUFFICES ASSUME NEW v \in Viewers, view[v].page = "overview", view[v].toRead = <<>>,
                        Counts(view[v].shown.services) # view[v].shown.overview.counts
                 PROVE  /\ view[v].shown.events # <<>>
                        /\ view[v].shown.events[1].id > view[v].shown.overview.at
      BY DEF PageExplained
    <2>1. PageSo(v)
      BY <1>1 DEF Pages
    <2>2. /\ view[v].toRead # <<"overview", "services", "events">>
          /\ view[v].toRead # <<"services", "events">> /\ view[v].toRead # <<"events">>
      OBVIOUS
    <2> QED
      BY <2>1, <2>2 DEF PageSo
  <1> QED
    BY <1>1, PagesInvariant, PTL
=============================================================================
