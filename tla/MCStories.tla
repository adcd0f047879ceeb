----------------------------- MODULE MCStories ------------------------------
(* Two litter boxes and a feeder.  The reports are those of captured visits *)
(* and meals: a visit with its cleaning and the light after it, a manual    *)
(* cleaning, a sighting, a fault, a visit over MQTT, meals of two days.     *)
EXTENDS Integers

Alone == ""     \* no episode, no parent
MCDevices == {"box", "box2", "feeder"}
MCDeviceType == [box |-> "t5", box2 |-> "t5", feeder |-> "d4sh"]
Says(dev, rel, code, parent) ==
  [dev |-> dev, rel |-> rel, code |-> code, parent |-> parent, says |-> "",
   day |-> 0, grams |-> FALSE]
Fed(rel, day, grams) ==
  [Says("feeder", rel, "4", Alone) EXCEPT !.day = day, !.grams = grams]
MCReport == <<
  Says("box", "A", "9", Alone), Says("box", "A", "10", Alone),        \* 1 2 a visit
  Says("box", "B", "3", Alone), Says("box", "B", "5", "A"),           \* 3 4 its cleaning
  Says("box", "C", "17", Alone),                                      \* 5 light off
  Says("box2", "D", "10", Alone),                                     \* 6
  Says("box", "E", "3", Alone), Says("box", "E", "5", Alone),         \* 7 8 a manual cleaning
  [Says("box", "G", "20", Alone) EXCEPT !.says = "pet"],              \* 9
  Says("box", "H", "24", "G"),                                        \* 10
  Says("box", "Q", "1", Alone), Says("box", "Q", "2", Alone),         \* 11 12
  Says("box", "R", "pet_in", Alone), Says("box", "R", "pet_out", Alone), \* 13 14
  Says("box", Alone, "10", Alone),                                    \* 15
  Says("feeder", "M", "3", Alone),                                    \* 16
  Fed("M", 1, TRUE), Fed("N", 1, TRUE), Fed("O", 2, TRUE), Fed("P", 2, FALSE)>>
MCUids == 1..20
MCPictured == {"A", "B", "E", "M"}
MCStories == {{1, 2, 3, 4}, {2, 4, 5, 6}, {5, 7, 8}, {9, 10}, {11, 12},
              {13, 14, 15}, {16, 17, 20}, {17, 18, 19}}
MCMeal == {{16, 17}}
MCGaps == {60, 300}
=============================================================================
