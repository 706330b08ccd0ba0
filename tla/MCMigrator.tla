----------------------------- MODULE MCMigrator -----------------------------
(* Instances of Migrator for TLC.                                          *)
EXTENDS Migrator

(* Two days of two instants, 0..1 and 2..3 in zone 0; zone 1 is an instant ahead. *)
Row(key, serial, at, value) ==
    [key |-> key, serial |-> serial, at |-> at, part |-> "none", value |-> value,
     second |-> None]
Part(key, serial, at, part, value) == [Row(key, serial, at, value) EXCEPT !.part = part]
Second(key, serial, at, value, second) == [Row(key, serial, at, value) EXCEPT !.second = second]

(* An inverter with and one without a spot row at its latest time; SpotDataX      *)
(* values over, beside and without a spot row; two yields of one day to copy, one *)
(* to rebuild, two totals of one time, one below those before.  Version 2 has an   *)
(* event of a stranger.                                                           *)
Plant(version) ==
    [config |-> {Row(1, Site, 0, 0)},
     inverters |-> {Row(1, "a", 2, 10), Row(2, "b", 1, 20)},
     spot_data |-> {Part(1, "a", 0, "mppt", 30), Part(2, "a", 2, "mppt", 31)},
     spot_data_x |-> {Part(-5, "a", 0, "mppt", 40), Part(-4, "b", 3, "battery", 41)},
     day_data |-> {Second(1, "a", 0, 100, 1), Second(2, "a", 2, 105, 0), Row(3, "a", 3, 90),
                  Row(4, "b", 0, 7), Row(5, "a", 0, 101)},
     month_data |-> {Second(1, "a", 0, 100, 50), Second(2, "a", 1, 101, 51)},
     event_data |-> {Row(1, IF version = 2 THEN "c" ELSE "a", 1, 60)},
     consumption |-> {Row(1, Site, 1, 70)}]

TwoVersions == [version \in {1, 2} |-> Plant(version)]

Plain == [source |-> 1, zone |-> 0, extras |-> {}]
PlainOnly == {Plain}
AnyArguments == {Plain,
                 [Plain EXCEPT !.extras = {"statistics", "pvoutput"}],
                 [Plain EXCEPT !.zone = 1],
                 [Plain EXCEPT !.source = 2]}
=============================================================================
