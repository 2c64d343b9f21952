-------------------------- MODULE MCReplaySession --------------------------
(* Small instances of the replay session for TLC.                           *)
EXTENDS ReplaySession

Op(kind, value, field) == [kind |-> kind, value |-> value, field |-> field]
Rec(tick, mark, operations) ==
  [tick |-> tick, noInterpolation |-> mark, operations |-> operations]

\* Sign-on; a full state; a tick that patches the entity; a later tick that
\* replaces it without interpolation; the terminal record.  In sequence ticks
\* repeat, skip one and go back.
MCRecords ==
  {Rec(NoTick, FALSE, << Op("setup", 1, 0) >>),
   Rec(2, FALSE, << Op("full", 1, 1), Op("event", 1, 0) >>),
   Rec(3, FALSE, << Op("patch", 1, 2), Op("event", 1, 0) >>),
   Rec(5, TRUE, << Op("delete", 1, 0), Op("create", 2, 3),
                   Op("event", 2, 0) >>),
   Rec(NoTick, FALSE, << Op("decoder", 2, 0), Op("terminal", 0, 0) >>)}

MCPlaces == {3}
MCFamilies == {1}
MCRates == {<< 1, 1 >>, << 3, 2 >>}
MCElapsed == {1, 4}
=============================================================================
