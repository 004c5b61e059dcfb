------------------------------- MODULE EventLog -------------------------------
(***************************************************************************)
(* The two event logs of an AgentFS filesystem and a client that follows   *)
(* them with a cursor.                                                     *)
(*                                                                         *)
(* sectiond/src/agentfs.rs (events in the backing source),                 *)
(* control_service.rs (events in the service's database), control_plane.rs *)
(* (how `fs events` and `watch` show both as one list) and                 *)
(* section-cli/src/cmd/watch.rs.  An event is named by its place in the    *)
(* order of creation time and id, which event_record fixes before the      *)
(* event is stored.  Every writer has a clock of its own and takes its     *)
(* time, so the events become visible in any order.                        *)
(***************************************************************************)
EXTENDS Naturals, FiniteSetsExt

CONSTANTS
  None,         \* no poll under way
  MaxEvents,    \* bound on the events that come to exist
  Limit,        \* events a poll delivers at most
  MaxRestarts   \* bound on the times the client starts over

ASSUME LogBoundsAssumption ==
  MaxEvents \in Nat /\ Limit \in Nat \ {0} /\ MaxRestarts \in Nat

Events == 1..MaxEvents

VARIABLES
  number,   \* the seq a writer has taken for its event; 0: none yet
  source,   \* seq of the copy in the backing source; 0: no copy
  service,  \* seq of the row in the service's database; 0: no row
  poll,     \* what the client has listed of the source, or None
  after,    \* the client's cursor: <<"seq", n>> or <<"id", event>>
  delivered,  \* events the client has been shown
  overtaken,  \* history: events that a later one was shown before
  restarts

logVars == <<number, source, service, poll, after, delivered, overtaken, restarts>>
client == <<poll, after, delivered, overtaken, restarts>>

Present(log) == {e \in Events : log[e] # 0}
Visible == Present(source) \cup Present(service)

LogInit ==
  /\ number = [e \in Events |-> 0]
  /\ source = [e \in Events |-> 0] /\ service = [e \in Events |-> 0]
  /\ poll = None /\ after = <<"seq", 0>>
  /\ delivered = {} /\ overtaken = {}
  /\ restarts = 0

-----------------------------------------------------------------------------
(***************************************************************************)
(* Writers.                                                                *)
(***************************************************************************)
(* one more than the highest number of the log *)
NextSeq(log) == 1 + Max({log[e] : e \in Events} \cup {0})

(* write_event: the log is listed for the number, and then the file is *)
(* created; two writers may take the same number                       *)
TakeNumber(e) ==
  /\ number[e] = 0 /\ e \notin Visible
  /\ number' = [number EXCEPT ![e] = NextSeq(source)]
  /\ UNCHANGED <<source, service, client>>
WriteEvent(e) ==
  /\ number[e] # 0 /\ source[e] = 0
  /\ source' = [source EXCEPT ![e] = number[e]]
  /\ UNCHANGED <<number, service, client>>

(* an event of the service, in a transaction with what it tells of *)
Insert(e) ==
  /\ number[e] = 0 /\ e \notin Visible
  /\ service' = [service EXCEPT ![e] = NextSeq(service)]
  /\ UNCHANGED <<number, source, client>>

(* its copy in the source, with the service's number; the copy may fail, *)
(* or come late, and nobody is told                                      *)
Mirror(e) ==
  /\ service[e] # 0 /\ source[e] = 0
  /\ source' = [source EXCEPT ![e] = service[e]]
  /\ UNCHANGED <<number, service, client>>

-----------------------------------------------------------------------------
(***************************************************************************)
(* The client.                                                             *)
(***************************************************************************)
(* wrong: of events with one number one is shown *)
MergedBySeq(src, svc) ==
  {e \in Events :
     \/ svc[e] # 0
     \/ src[e] # 0 /\ \A f \in Events : f < e => src[f] # src[e]}
(* merged_agentfs_events: the copies of an event are one *)
Merged(src, svc) == Present(src) \cup Present(svc)
(* ... and the number an event is shown with *)
Rank(e, events) == Cardinality({f \in events : f <= e})

(* parse_event_offset *)
Offset(cursor, events) ==
  IF cursor[1] = "id" THEN Rank(cursor[2], events) ELSE cursor[2]

(* wrong: the event at the cursor again *)
PageFrom(events, offset) ==
  {e \in events : offset <= Rank(e, events) /\ Rank(e, events) < offset + Limit}
(* fs_events: those behind the offset, as many as the limit allows *)
Page(events, offset) ==
  {e \in events : offset < Rank(e, events) /\ Rank(e, events) <= offset + Limit}

(* a poll lists the events of the source, and then those of the service *)
ListSource ==
  /\ poll = None
  /\ poll' = [source |-> source, began |-> Visible]
  /\ UNCHANGED <<number, source, service, after, delivered, overtaken, restarts>>
Deliver ==
  /\ poll # None
  /\ LET events == Merged(poll.source, service)
         page == Page(events, Offset(after, events))
     IN  /\ after' = IF page = {} THEN after
                     ELSE <<"seq", Rank(Max(page), events)>>
         /\ delivered' = delivered \cup page
         /\ overtaken' = overtaken \cup
              {e \in Events \ poll.began : \E later \in page : e < later}
  /\ poll' = None
  /\ UNCHANGED <<number, source, service, restarts>>

(* the watch loop starts from 0; `fs events` may be given the id of an *)
(* event that was shown                                                *)
Restart ==
  /\ restarts < MaxRestarts /\ restarts' = restarts + 1
  /\ poll' = None
  /\ \/ after' = <<"seq", 0>>
     \/ \E e \in delivered : after' = <<"id", e>>
  /\ UNCHANGED <<number, source, service, delivered, overtaken>>

LogNext ==
  \/ \E e \in Events : TakeNumber(e) \/ WriteEvent(e) \/ Insert(e) \/ Mirror(e)
  \/ ListSource \/ Deliver \/ Restart

LogSpec == LogInit /\ [][LogNext]_logVars
(* the watch loop goes on polling *)
LogFairSpec == LogSpec /\ WF_logVars(ListSource) /\ WF_logVars(Deliver)

-----------------------------------------------------------------------------
(***************************************************************************)
(* Whatever numbers the logs gave, a cursor passes over an event only when *)
(* one that was created later was shown by a poll that began before the    *)
(* event was stored (control_plane.rs:495, 2128, 2146).                    *)
(***************************************************************************)
OnlyOvertakenMissed ==
  \A e \in Visible \ delivered :
    (\E later \in delivered : e < later) => e \in overtaken

(* An event that is stored is shown in the end, unless it is overtaken:    *)
(* pages are no end, and neither copies nor equal numbers hold a cursor up *)
(* (watch.rs:66, control_plane.rs:495).                                    *)
SeenUnlessOvertaken ==
  \A e \in Events : e \in Visible ~> e \in delivered \cup overtaken
=============================================================================
