------------------------------ MODULE MCRaptor -------------------------------
(* Small timetables and requests for RaptorJourney.  Stops a, b, c lie on     *)
(* line 1; the other lines are shorter, slower or roundabout ways; trip 2     *)
(* overtakes trip 1 and trip 9 calls at b twice.                              *)
EXTENDS RaptorJourney

CONSTANTS a, b, c, d

Call(stop, arrival, departure) ==
  [stop |-> stop, arrival |-> arrival, departure |-> departure, pickup |-> TRUE, dropOff |-> TRUE]
Trip(id, line, calls) ==
  [id |-> id, line |-> line, mode |-> "bus", verified |-> TRUE, calls |-> calls]
NoPickup(trip, i) == [trip EXCEPT !.calls[i].pickup = FALSE]
NoDropOff(trip, i) == [trip EXCEPT !.calls[i].dropOff = FALSE]

TripUniverse ==
  {Trip(1, 1, <<Call(a, 1, 1), Call(b, 4, 4), Call(c, 9, 9)>>),
   Trip(2, 1, <<Call(a, 2, 2), Call(b, 3, 3), Call(c, 5, 5)>>),
   NoPickup(Trip(3, 1, <<Call(a, 3, 4), Call(b, 6, 6), Call(c, 8, 8)>>), 2),
   Trip(4, 2, <<Call(b, 4, 4), Call(c, 6, 6)>>),
   [Trip(5, 2, <<Call(b, 5, 5), Call(c, 7, 7)>>) EXCEPT !.verified = FALSE],
   [Trip(6, 3, <<Call(a, 1, 1), Call(c, 11, 11)>>) EXCEPT !.mode = "tram"],
   NoDropOff(Trip(7, 4, <<Call(a, 1, 1), Call(d, 2, 2), Call(b, 3, 3)>>), 2),
   Trip(8, 5, <<Call(d, 4, 4), Call(c, 6, 6)>>),
   Trip(9, 6, <<Call(b, 4, 4), Call(d, 5, 5), Call(b, 6, 6), Call(c, 8, 8)>>)}

Link(from, to, seconds) == [from |-> from, to |-> to, seconds |-> seconds]
LinkSets ==
  {{},
   {Link(a, b, 2), Link(b, a, 0), Link(a, b, 3), Link(b, b, 1)},
   {Link(b, d, 0), Link(d, b, 0), Link(c, d, 1), Link(d, c, 4)}}

MCTimetables ==
  {NewTimetable(trips, links) : trips \in kSubset(3, TripUniverse), links \in LinkSets}
  \cup {NewTimetable(TripUniverse, links) : links \in LinkSets}

Update(trip, stop, delay) == [trip |-> trip, stop |-> stop, delay |-> delay]
Feeds ==
  {<<>>,
   <<Update(1, AnyStop, 2), Update(2, b, 3), Update(2, AnyStop, -1)>>,
   <<Update(4, AnyStop, -2), Update(3, AnyStop, 1), Update(7, b, 9)>>}

Ask(to, transfers, change, margin, feed) ==
  [from |-> {a}, to |-> to, departure |-> 1, maxTransfers |-> transfers,
   minTransfer |-> change, buffer |-> margin, modes |-> {}, excluded |-> {},
   unverified |-> FALSE, walk |-> WalkTable({}), realtime |-> RealtimeData(feed)]

MCAsks ==
  {Ask({c}, 2, 0, 0, f) : f \in Feeds}
  \cup {Ask({b, c}, 1, 2, 1, f) : f \in Feeds}
  \cup {[Ask({c}, 1, 0, 0, <<>>) EXCEPT !.unverified = TRUE, !.walk = WalkTable({Link(a, d, 1)}),
           !.excluded = {1}, !.modes = {"bus"}],
        [Ask({c}, 1, 0, 1, <<>>) EXCEPT !.from = {a, b}]}

\* On line 1 an early trip that lets nobody off at c, and a later one.
MCRestricted ==
  {NewTimetable({NoDropOff(Trip(1, 1, <<Call(a, 1, 1), Call(b, 4, 4), Call(c, 6, 6)>>), 3),
                 Trip(2, 1, <<Call(a, 2, 2), Call(b, 5, 5), Call(c, 9, 9)>>)} \cup others, {})
     : others \in kSubset(2, {t \in TripUniverse : t.line # 1})}
MCPlainAsks == {Ask(to, transfers, 0, 0, <<>>) : to \in {{b, c}, {c}}, transfers \in 0 .. 2}

\* On line 1 a slow trip that has left when another one can be boarded, which catches up
\* with it at b and falls behind again.
MCTied ==
  {NewTimetable({Trip(1, 1, <<Call(a, 0, 0), Call(b, 4, 4), Call(c, 5, 5)>>),
                 Trip(2, 1, <<Call(a, 2, 2), Call(b, 4, 4), Call(c, 7, 7)>>)}, {Link(a, b, 2)})}

\* A walk to a vehicle that runs early.
MCEarly == {NewTimetable({t \in TripUniverse : t.line # 1}, links) : links \in LinkSets}
MCEarlyAsks ==
  {Ask({c}, 1, 0, 0, <<Update(4, AnyStop, delay)>>) : delay \in -2 .. 2}
=============================================================================
