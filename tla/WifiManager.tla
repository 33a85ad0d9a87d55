---------------------------- MODULE WifiManager ----------------------------
(* components/wifi_manager/wifi_manager.c: the station and its address.    *)
(* The radio (esp_wifi behind the C6) is external: it posts an event when  *)
(* an attempt fails, when an address is obtained and when the link drops;  *)
(* the default event loop hands the events, in order, to event_handler.    *)
(* app_main waits in wifi_manager_init for one of two event bits.          *)
EXTENDS Naturals, Sequences

CONSTANT RetryLimit     \* 5 in event_handler

ASSUME WifiAssumption == RetryLimit \in Nat

VARIABLES air,        \* the radio: "off", "idle", "connecting" or "linked"
          events,     \* posted events that event_handler has not had yet
          ip,         \* s_ip_addr holds an address
          netBits,    \* s_wifi_events: subset of {"CONNECTED", "FAIL"}
          retries,    \* s_retry_count
          inited,     \* s_initialized
          sntp,       \* s_time.started
          airLeft,    \* bound: how often the radio may still change its mind
          losses      \* disconnections handled since the last address

wifiVars == <<air, events, ip, netBits, retries, inited, sntp, airLeft, losses>>

Airs == {"off", "idle", "connecting", "linked"}

WifiInit ==
  /\ air = "off" /\ events = <<>> /\ ip = FALSE /\ netBits = {}
  /\ retries = 0 /\ inited = FALSE /\ sntp = FALSE
  /\ losses = 0

-----------------------------------------------------------------------------
(* The radio. *)

Changed == airLeft > 0 /\ airLeft' = airLeft - 1

(* An attempt ends with an address, or with a disconnection event. *)
Join ==
  /\ air = "connecting" /\ Changed
  /\ \/ air' = "linked" /\ events' = Append(events, "gotIp")
     \/ air' = "idle" /\ events' = Append(events, "lost")
  /\ UNCHANGED <<ip, netBits, retries, inited, sntp, losses>>

Drop ==
  /\ air = "linked" /\ Changed
  /\ air' = "idle" /\ events' = Append(events, "lost")
  /\ UNCHANGED <<ip, netBits, retries, inited, sntp, losses>>

-----------------------------------------------------------------------------
(* event_handler, on the event loop's task. *)

Connect == air' = IF air = "idle" THEN "connecting" ELSE air

OnStart == Connect /\ UNCHANGED <<ip, netBits, retries, losses>>

(* Mutant: the address is left in place when the link drops. *)
OnLostKeepsAddress ==
  /\ ip' = ip /\ losses' = losses + 1
  /\ IF retries < RetryLimit
       THEN Connect /\ retries' = retries + 1 /\ netBits' = netBits \ {"CONNECTED"}
       ELSE /\ netBits' = (netBits \ {"CONNECTED"}) \cup {"FAIL"}
            /\ UNCHANGED <<air, retries>>

OnLost ==
  /\ ip' = FALSE /\ losses' = losses + 1
  /\ IF retries < RetryLimit
       THEN Connect /\ retries' = retries + 1 /\ netBits' = netBits \ {"CONNECTED"}
       ELSE /\ netBits' = (netBits \ {"CONNECTED"}) \cup {"FAIL"}
            /\ UNCHANGED <<air, retries>>

OnGotIp ==
  /\ ip' = TRUE /\ retries' = 0 /\ losses' = 0
  /\ netBits' = netBits \cup {"CONNECTED"}
  /\ UNCHANGED air

Handle ==
  /\ events # <<>> /\ events' = Tail(events)
  /\ CASE Head(events) = "start" -> OnStart
       [] Head(events) = "lost"  -> OnLost
       [] Head(events) = "gotIp" -> OnGotIp
  /\ UNCHANGED <<inited, sntp, airLeft>>

-----------------------------------------------------------------------------
(* Called by app_main. *)

(* wifi_manager_init up to esp_wifi_start, which posts STA_START. *)
StartStation ==
  /\ air' = "idle" /\ events' = <<"start">>
  /\ UNCHANGED <<ip, netBits, retries, inited, sntp, airLeft, losses>>

(* It waits for either bit, for 30 s at most; only a connection seen here  *)
(* sets s_initialized, for good.                                           *)
StationAnswered == netBits # {}

StationWaited ==
  /\ inited' = ("CONNECTED" \in netBits)
  /\ UNCHANGED <<air, events, ip, netBits, retries, sntp, airLeft, losses>>

(* wifi_manager_start_sntp, which main calls once and only when connected. *)
StartSntp ==
  /\ sntp' = (sntp \/ ip)
  /\ UNCHANGED <<air, events, ip, netBits, retries, inited, airLeft, losses>>

Network == Join \/ Drop \/ Handle

-----------------------------------------------------------------------------
WifiTypeOK ==
  /\ air \in Airs /\ events \in Seq({"start", "gotIp", "lost"}) /\ Len(events) <= 2
  /\ ip \in BOOLEAN /\ netBits \subseteq {"CONNECTED", "FAIL"}
  /\ retries \in 0 .. RetryLimit /\ inited \in BOOLEAN
  /\ sntp \in BOOLEAN
  /\ airLeft \in Nat /\ losses \in Nat

(* "the address has to go the moment the link drops": once the events that *)
(* were posted are handled, the device reports an address exactly while it *)
(* has a link, however often the link came and went.                       *)
AddressIsLive == events = <<>> => (ip <=> air = "linked")

(* A station that stands still without an address has said so, and has     *)
(* used all of its retries on consecutive failures: an address obtained in *)
(* between gives it all of them back.                                      *)
GivesUpLate ==
  air = "idle" /\ events = <<>> => "FAIL" \in netBits /\ losses > RetryLimit

NetworkTold == AddressIsLive /\ GivesUpLate
=============================================================================
