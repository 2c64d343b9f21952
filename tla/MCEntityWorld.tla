--------------------------- MODULE MCEntityWorld ---------------------------
(* A small map: a timer that triggers a relay, and a target they move and   *)
(* kill.  Two units of delay make a tick.                                   *)
EXTENDS EntityWorld

Action(output, target, input, text, units, delay, fires) ==
  [output |-> output, target |-> target, input |-> input, text |-> text,
   units |-> units, delay |-> delay, fires |-> fires]

Definition(class, name, parentName, enabled, outputs) ==
  [class |-> class, name |-> name, parentName |-> parentName,
   enabled |-> enabled, once |-> FALSE, fast |-> FALSE, interval |-> 3,
   outputs |-> outputs]

Timer == Definition("logic_timer", "t", "", TRUE,
           << Action("OnTimer", "r", "Trigger", "", 0, 0, -1) >>)
Relay == Definition("logic_relay", "r", "", TRUE,
           << Action("OnTrigger", "x", "Kill", "", 0, 2, 1),
              Action("OnTrigger", "!self", "FireUser1", "", 0, 0, -1),
              Action("OnUser1", "t", "AddToTimer", "", 2, 1, -1) >>)
Target == Definition("info_target", "x", "r", FALSE, << >>)

MCMap == << Timer, Relay, Target >>
MCSpawnable == {Target}
In(target, input, text, units) ==
  [target |-> target, input |-> input, text |-> text, units |-> units]
MCInputs == {In("t", "Toggle", "", 0), In("t", "RefireTime", "", 1),
             In("", "SetParent", "x", 0)}
MCDelays == {1}
MCEmitted == {"OnTrigger"}
MCNames == {"t"}
=============================================================================
