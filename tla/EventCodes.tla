----------------------------- MODULE EventCodes -----------------------------
(***************************************************************************)
(* The tables of events/codes.py: what an event code means, which depends  *)
(* on the category of the device that sent it, and the sets that are       *)
(* derived from all tables merged into one.                                *)
(*                                                                         *)
(* A table is a record: the codes of each kind, and which of them are      *)
(* details, may head a card, or close something (their role).  Labels,     *)
(* grades and the firmware's names are left out.                           *)
(***************************************************************************)
EXTENDS Integers

Litter == [
  kind |-> [error |-> {"1", "2"}, toilet_visit |-> {"9", "10"}, pet |-> {"20", "24"},
            cleaning |-> {"3", "4", "5", "6", "7", "8", "11", "13", "14", "15", "16",
                          "17", "18", "21"},
            system |-> {"51", "53"}],
  detail |-> {"3", "4", "9", "13", "14", "15", "16", "17", "18", "24", "51", "53"},
  anchor |-> {"1", "10", "20"},
  done |-> {"5", "6", "7", "8", "11", "17", "21"},
  clean |-> {"5", "6", "7"},
  summary |-> {"10"}]

Feeder == [
  kind |-> [feeding |-> {"2", "3", "4", "5"}, motion |-> {"7"}, pet |-> {"8"}],
  detail |-> {"3", "5"}, anchor |-> {"2", "4", "7", "8"}, done |-> {"2", "4"},
  clean |-> {}, summary |-> {}]

Fountain == [
  kind |-> [drinking |-> {"5", "6"}, pet |-> {"20", "24"}],
  detail |-> {"5", "24"}, anchor |-> {"6", "20"}, done |-> {"6"},
  clean |-> {}, summary |-> {}]

Purifier == [kind |-> [system |-> {}], detail |-> {}, anchor |-> {}, done |-> {},
             clean |-> {}, summary |-> {}]

(* The events that arrive over MQTT have names, the same for every category *)
Topics == [
  kind |-> [
    cleaning |-> {"work_start", "work_suspend", "work_continue", "clean_over", "dump_over",
                  "reset_over", "smooth_over", "correct_over", "sand_correct_over",
                  "light_over", "spray_over", "liquid_reset_over", "melt_over",
                  "package_over", "stop_start", "stop_suspend", "stop_continue",
                  "add_water_over", "flush_over", "water_change_over"},
    toilet_visit |-> {"pet_in", "pet_out"},
    pet |-> {"pet_discern", "pet_wander", "wander_over", "pet_detect", "appeared"},
    feeding |-> {"feed_start", "feed_over", "feed_stop", "eat_start", "eat_over"},
    drinking |-> {"drink_start", "drink_over"},
    motion |-> {"move_detect", "cvr_event"},
    error |-> {"error_start", "error_over"},
    system |-> {"property", "property_post", "data_get", "ble_response",
                "ble_relay_start", "ble_relay_over"}],
  detail |-> {"work_suspend", "work_continue", "light_over", "pet_in", "pet_discern",
              "wander_over", "stop_start", "stop_suspend", "stop_continue", "feed_start",
              "eat_start", "drink_start", "property", "property_post", "data_get",
              "ble_response", "ble_relay_start", "ble_relay_over"},
  anchor |-> {"pet_out", "pet_wander", "feed_over", "eat_over", "add_water_over",
              "drink_over", "flush_over", "water_change_over", "move_detect",
              "pet_detect", "cvr_event", "appeared", "error_start"},
  done |-> {"clean_over", "dump_over", "reset_over", "smooth_over", "correct_over",
            "sand_correct_over", "light_over", "spray_over", "liquid_reset_over",
            "melt_over", "package_over", "feed_over", "eat_over", "add_water_over",
            "drink_over", "flush_over", "water_change_over"},
  clean |-> {"clean_over", "dump_over", "reset_over"},
  summary |-> {"pet_out"}]

TransportTopics == Topics.kind.system

(* Which table a device's numeric codes are read in; litter by default.     *)
Category(type) ==
  CASE type \in {"feeder", "feedermini", "d3", "d4", "d4s", "d4h", "d4sh"} -> Feeder
    [] type \in {"w4", "w5", "ctw2", "ctw3", "w7h"} -> Fountain
    [] type \in {"k2", "k3"} -> Purifier
    [] OTHER -> Litter

Codes(table) == UNION {table.kind[k] : k \in DOMAIN table.kind}

(* lookup(): the table that knows the code, the category's before MQTT's.   *)
Table(code, type) == IF code \in Codes(Category(type)) THEN Category(type) ELSE Topics

(* classify_event_kind(): what the content says outranks the code.          *)
ClassifyEventKind(code, says, type) ==
  LET known == Table(code, type).kind IN
  IF says # "" THEN says
  ELSE IF code \in Codes(Table(code, type))
       THEN CHOOSE k \in DOMAIN known : code \in known[k]
       ELSE "other"

IsDetail(code, type) == code \in Table(code, type).detail

(* ALL_EVENT_CODES: where two categories use one number, litter wins over   *)
(* the fountain and the fountain over the feeder.                           *)
Merged(field) ==
  LET over(low, high) == (low \ Codes(high)) \cup high[field]
  IN over(over(Topics[field] \cup Feeder[field], Fountain), Litter)
ANCHOR_CODES == Merged("anchor")
PRIMARY_DONE_CODES == Merged("done") \ Merged("detail")
=============================================================================
