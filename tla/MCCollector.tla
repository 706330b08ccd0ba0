----------------------------- MODULE MCCollector -----------------------------
(* Instances of Collector for TLC.                                         *)
EXTENDS Collector

CONSTANTS s1, s2

Both == {{s1, s2}}
Changing == {{s1, s2}, {s1}}

RefusalQueries == <<"InverterTemperature", "EnergyProduction">>
EquipmentQueries == <<"TypeLabel", "BatteryChargeStatus", "GridRelayStatus",
                      "EnergyProduction", "SpotAcTotalPower">>
EnergyQuery == <<"EnergyProduction">>

UserOnly == <<"user">>
WithInstaller == <<"user", "installer">>

AllKinds == {ProcessOrder[i] : i \in DOMAIN ProcessOrder}
                \cup ArchiveKinds \cup {"ETodayFallback"}
SpotKinds == {ProcessOrder[i] : i \in DOMAIN ProcessOrder}
DailyKinds == {"MonthArchive", "EventArchive", "MonthOffsetProbe"}
=============================================================================
