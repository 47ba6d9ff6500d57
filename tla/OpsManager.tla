----------------------------- MODULE OpsManager -----------------------------
(***************************************************************************)
(* The operations console (internal/platform/ops/service.go) and the pages *)
(* that read it (internal/http/handlers/ops.go).                           *)
(*                                                                         *)
(* The manager keeps the maintenance mode of services, the state of        *)
(* schedulers and the latest events in memory, behind one lock: each of    *)
(* its operations is one action, and a restart brings the seeds back.  A   *)
(* page takes several snapshots, one operation after the other, so actions *)
(* of other requests come in between.                                      *)
(*                                                                         *)
(* Nothing runs a scheduler: "run once" writes what a run would have left. *)
(* Abstracted: the clock is the number of events so far (an event later    *)
(* than a snapshot has a greater number), and texts are left out.          *)
(***************************************************************************)
EXTENDS Integers, Sequences, FiniteSets

CONSTANTS ServiceStatus,    \* what newServiceRecord is given: service -> status
          ServiceFailed,    \* services seeded with an error
          SchedulerSeeds,   \* scheduler -> its seeded record
          SeedEvents,       \* newest first
          RetentionLimit,   \* events kept
          PageEvents,       \* events the overview page shows
          Viewers,          \* requests for a page
          MaxEvents         \* bound on the events of one life of the process

Services == DOMAIN ServiceStatus

Schedulers == DOMAIN SchedulerSeeds

Results == {"ok", "warning", "paused", "manual_triggered"}

SchedulerRecords == [enabled : BOOLEAN, due : BOOLEAN, result : Results, failed : BOOLEAN]

ServiceEvents == {"service.maintenance.enabled", "service.resumed"}

SchedulerEvents == {"scheduler.paused", "scheduler.resumed", "scheduler.run_once"}

SeedTypes == {"service.degraded", "scheduler.completed", "service.started"}

EventRecords ==
    [id : Nat, source : Services \cup Schedulers,
     type : ServiceEvents \cup SchedulerEvents \cup SeedTypes]

ASSUME OpsAssumption ==
    /\ Services \cap Schedulers = {}
    /\ \A s \in Services : ServiceStatus[s] \in {"healthy", "degraded", "down"}
    /\ ServiceFailed \subseteq Services
    /\ SchedulerSeeds \in [Schedulers -> SchedulerRecords]
    /\ \A s \in Schedulers : SchedulerSeeds[s].due <=> SchedulerSeeds[s].enabled
    /\ RetentionLimit \in Nat \ {0} /\ PageEvents \in Nat \ {0} /\ MaxEvents \in Nat
    /\ SeedEvents \in Seq(EventRecords) /\ Len(SeedEvents) <= RetentionLimit
    /\ \A i \in DOMAIN SeedEvents : /\ SeedEvents[i].id = Len(SeedEvents) - i + 1
                                    /\ SeedEvents[i].type \in SeedTypes

VARIABLES maintenance,  \* services in maintenance mode
          schedulers,
          events,       \* newest first
          nextEvent,    \* number of the latest event
          view          \* per viewer: the page, what is still to be read, what was read

opsVars == <<maintenance, schedulers, events, nextEvent>>

vars == <<opsVars, view>>

\* What each page reads, in order.
Reads ==
    [overview   |-> <<"overview", "services", "events">>,
     services   |-> <<"overview", "services">>,
     detail     |-> <<"overview", "service">>,
     schedulers |-> <<"overview", "schedulers">>,
     events     |-> <<"overview", "events">>]

NoPage == [page |-> "none", toRead |-> <<>>, shown |-> <<>>]

Init ==
    /\ maintenance = {}
    /\ schedulers = SchedulerSeeds
    /\ events = SeedEvents
    /\ nextEvent = Len(SeedEvents)
    /\ view = [v \in Viewers |-> NoPage]

-----------------------------------------------------------------------------
(***************************************************************************)
(* Operations that change something.                                       *)
(***************************************************************************)
First(s, n) == SubSeq(s, 1, IF Len(s) < n THEN Len(s) ELSE n)

\* Mutant: the list is cut at its new end.
KeepsOldest(s) == SubSeq(s, IF Len(s) > RetentionLimit THEN 2 ELSE 1, Len(s))

\* Mutant: the list is never cut.
NeverCut(s) == s

Retained(s) == First(s, RetentionLimit)

\* Mutant: the number is taken from the length of the list.
NumberedByLength == Len(events) + 1

NextNumber == nextEvent + 1

\* recordEventLocked.
Record(source, type) ==
    /\ nextEvent < MaxEvents
    /\ nextEvent' = NextNumber
    /\ events' = Retained(<<[id |-> NextNumber, source |-> source, type |-> type]>> \o events)

SetMaintenance(s) ==
    /\ maintenance' = maintenance \cup {s}
    /\ Record(s, "service.maintenance.enabled")
    /\ UNCHANGED <<schedulers, view>>

ResumeService(s) ==
    /\ maintenance' = maintenance \ {s}
    /\ Record(s, "service.resumed")
    /\ UNCHANGED <<schedulers, view>>

PauseScheduler(s) ==
    /\ schedulers' = [schedulers EXCEPT ![s] =
            [enabled |-> FALSE, due |-> FALSE, result |-> "paused", failed |-> FALSE]]
    /\ Record(s, "scheduler.paused")
    /\ UNCHANGED <<maintenance, view>>

ResumeScheduler(s) ==
    /\ schedulers' = [schedulers EXCEPT ![s] =
            [enabled |-> TRUE, due |-> TRUE, result |-> "ok", failed |-> FALSE]]
    /\ Record(s, "scheduler.resumed")
    /\ UNCHANGED <<maintenance, view>>

\* A manual run leaves a paused scheduler without a next run.
DueAfterRun(scheduler) == scheduler.due \/ scheduler.enabled

RunSchedulerOnce(s) ==
    /\ schedulers' = [schedulers EXCEPT ![s].due = DueAfterRun(schedulers[s]),
                                        ![s].result = "manual_triggered",
                                        ![s].failed = FALSE]
    /\ Record(s, "scheduler.run_once")
    /\ UNCHANGED <<maintenance, view>>

\* The process ends and starts: nothing was persisted, and no page is rendered.
Restart ==
    /\ maintenance' = {}
    /\ schedulers' = SchedulerSeeds
    /\ events' = SeedEvents
    /\ nextEvent' = Len(SeedEvents)
    /\ view' = [v \in Viewers |-> NoPage]

-----------------------------------------------------------------------------
(***************************************************************************)
(* Snapshots.                                                              *)
(***************************************************************************)
StatusOf(s) == IF s \in maintenance THEN "maintenance" ELSE ServiceStatus[s]

\* deriveOverallStatus: the worst that a service has.
Overall(counts) ==
    IF counts.down > 0 THEN "down"
    ELSE IF counts.degraded > 0 THEN "degraded"
    ELSE IF counts.maintenance > 0 THEN "maintenance" ELSE "healthy"

Counts(list) ==
    LET Number(status) == Cardinality({s \in DOMAIN list : list[s] = status})
    IN  [healthy |-> Number("healthy"), degraded |-> Number("degraded"),
         down |-> Number("down"), maintenance |-> Number("maintenance")]

ServiceList == [s \in Services |-> StatusOf(s)]

\* at: LastUpdatedAt.
Overview ==
    [counts |-> Counts(ServiceList),
     status |-> Overall(Counts(ServiceList)),
     active |-> Cardinality({s \in Schedulers : schedulers[s].enabled}),
     failures |-> Cardinality(ServiceFailed)
                    + Cardinality({s \in Schedulers : schedulers[s].failed}),
     at |-> nextEvent]

Snapshot(v, what) ==
    CASE what = "overview"   -> Overview
      [] what = "services"   -> ServiceList
      [] what = "service"    -> ServiceList
      [] what = "schedulers" -> schedulers
      [] what = "events"     -> IF view[v].page = "overview" THEN First(events, PageEvents)
                                ELSE events

\* Mutant: the events are read before the rest.
EventsFirst(page) ==
    IF page = "overview" THEN <<"events", "overview", "services">> ELSE Reads[page]

ReadsOf(page) == Reads[page]

OpenPage(v) ==
    /\ view[v].toRead = <<>>
    /\ \E page \in DOMAIN Reads :
          view' = [view EXCEPT ![v] = [page |-> page, toRead |-> ReadsOf(page), shown |-> <<>>]]
    /\ UNCHANGED opsVars

\* A page with nothing left to read is rendered.
ReadNext(v) ==
    /\ view[v].toRead # <<>>
    /\ LET what == Head(view[v].toRead)
           have == view[v].shown
       IN  view' = [view EXCEPT ![v] =
               [page   |-> view[v].page,
                toRead |-> Tail(view[v].toRead),
                shown  |-> [w \in DOMAIN have \cup {what} |->
                               IF w = what THEN Snapshot(v, what) ELSE have[w]]]]
    /\ UNCHANGED opsVars

Next ==
    \/ \E s \in Services : SetMaintenance(s) \/ ResumeService(s)
    \/ \E s \in Schedulers : PauseScheduler(s) \/ ResumeScheduler(s) \/ RunSchedulerOnce(s)
    \/ \E v \in Viewers : OpenPage(v) \/ ReadNext(v)
    \/ Restart

Spec == Init /\ [][Next]_vars

-----------------------------------------------------------------------------
TypeOK ==
    /\ maintenance \subseteq Services
    /\ schedulers \in [Schedulers -> SchedulerRecords]
    /\ events \in Seq(EventRecords) /\ Len(events) <= RetentionLimit
    /\ nextEvent \in Nat

\* The events of a source that switched it.
SwitchEvents(source) ==
    {i \in DOMAIN events :
        /\ events[i].source = source
        /\ events[i].type \in (ServiceEvents \cup SchedulerEvents) \ {"scheduler.run_once"}}

Newest(indices) == CHOOSE i \in indices : \A j \in indices : i <= j

\* The newest event about a switch tells its position, and a switch without one in a
\* list that was never cut is where it was seeded: whoever reads the state and the
\* events never sees an action of the one without the other (recordEventLocked runs
\* under the lock of the change, and the cut is at the old end).
NewestEventTells ==
    \A source \in Services \cup Schedulers :
        LET switched == SwitchEvents(source)
            type == events[Newest(switched)].type
        IN  IF switched # {}
            THEN IF source \in Services
                 THEN source \in maintenance <=> type = "service.maintenance.enabled"
                 ELSE schedulers[source].enabled <=> type = "scheduler.resumed"
            ELSE nextEvent <= RetentionLimit =>
                 IF source \in Services THEN source \notin maintenance
                 ELSE schedulers[source].enabled = SchedulerSeeds[source].enabled

\* Events are numbered without a hole or a repetition, newest first, although the
\* list is cut while the numbers go on.
NumbersRunDown ==
    \A i \in DOMAIN events : events[i].id = nextEvent - i + 1

\* An overview page whose figures and service list disagree shows an event that is
\* later than the figures: the reader can see that something happened in between
\* (OverviewPage reads overview, services, events in this order).
PageExplained ==
    \A v \in Viewers :
        LET shown == view[v].shown IN
        /\ view[v].page = "overview" /\ view[v].toRead = <<>>
        /\ Counts(shown.services) # shown.overview.counts
        => shown.events # <<>> /\ shown.events[1].id > shown.overview.at
=============================================================================
