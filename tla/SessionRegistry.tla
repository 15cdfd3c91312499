---------------------------- MODULE SessionRegistry ----------------------------
(***************************************************************************)
(* The registry of known servers: session_manager (src/session_manager.c). *)
(* Every operation is an operator from a registry to a registry; Selector  *)
(* applies them where the UI loops of src/webos_main.c do.                 *)
(*                                                                         *)
(* A device is what its announcement says: the backend it serves, its      *)
(* serial (Frame Tap announces none, SysDVR may leave it empty) and the    *)
(* address the datagram came from.  Versions and labels are left out.      *)
(*                                                                         *)
(* last_seen_ms is kept as the age of the entry, in units of the time the  *)
(* UI loops sleep: prune only compares the age with one limit, so it need  *)
(* not grow beyond that limit.  The code compares readings of a clock that *)
(* wraps (Ticks, KeptByClock): no run waits the 49 days, and what the wrap *)
(* does is a theorem of Selector_proofs.                                   *)
(***************************************************************************)
EXTENDS Integers, Sequences, FiniteSets

CONSTANTS
    MaxDevices,     \* SYSDVR_SESSION_MAX_DEVICES, 8 in the code
    StaleAge,       \* SYSDVR_DEVICE_STALE_MS, 7 s in the code
    Serials,        \* the serials of the consoles
    Hosts           \* addresses

Sources  == {"sysdvr", "frametap"}
NoSerial == "no serial"

ASSUME RegistryAssumption ==
    /\ MaxDevices \in Nat \ {0} /\ StaleAge \in Nat
    /\ NoSerial \notin Serials

Devices == [source : Sources, serial : Serials \cup {NoSerial}, host : Hosts]
NoDevice == [source |-> "none"]

Entries == [info : Devices, age : 0..StaleAge + 1, manual : BOOLEAN]

(* selected counts from 0, as in the code. *)
Empty == [devices |-> <<>>, selected |-> 0, preferred |-> NoDevice]

(* What the screens show as selected; session_manager_selected. *)
HasSelection(m) == m.selected < Len(m.devices)
Selected(m)     == m.devices[m.selected + 1].info

-----------------------------------------------------------------------------
SameDevice_AnySource(a, b) ==      \* mutant: one entry per console
    IF a.serial # NoSerial /\ b.serial # NoSerial THEN a.serial = b.serial
                                                  ELSE a.host = b.host
(* Two announcements are of the same server.  Not transitive: one without  *)
(* a serial is compared by address.                                        *)
SameDevice(a, b) ==
    /\ a.source = b.source
    /\ IF a.serial # NoSerial /\ b.serial # NoSerial THEN a.serial = b.serial
                                                     ELSE a.host = b.host

Matching(m, d) == {i \in DOMAIN m.devices : SameDevice(m.devices[i].info, d)}

First(I) == CHOOSE i \in I : \A j \in I : i <= j

Room_Late(m) == Len(m.devices) <= MaxDevices   \* mutant
Room(m) == Len(m.devices) < MaxDevices

AddManual(m, host) ==
    IF ~Room(m) THEN m
    ELSE [m EXCEPT !.devices =
            Append(@, [info |-> [source |-> "sysdvr", serial |-> NoSerial,
                                 host |-> host],
                       age |-> 0, manual |-> TRUE])]

(* session_manager_seen: the first matching entry is overwritten.  A new   *)
(* server is added, unless the registry is full.                           *)
Seen(m, d) ==
    LET entry == [info |-> d, age |-> 0, manual |-> FALSE] IN
    IF Matching(m, d) # {}
      THEN [m EXCEPT !.devices[First(Matching(m, d))] = entry]
    ELSE IF Room(m)
      THEN [m EXCEPT !.devices = Append(@, entry)]
    ELSE m

(* A manual entry was last seen at UINT64_MAX: it never ages. *)
Older(e) ==
    IF e.manual \/ e.age > StaleAge THEN e ELSE [e EXCEPT !.age = @ + 1]
Aged(m) ==
    [m EXCEPT !.devices = [i \in DOMAIN m.devices |-> Older(m.devices[i])]]

(* session_manager_prune: the kept entries close up in their order; the    *)
(* selection goes to the first entry that is the selected device, or stays *)
(* where it is, within the list.                                           *)
Kept_All(m) == DOMAIN m.devices    \* mutant: nothing expires
Kept(m) ==
    {i \in DOMAIN m.devices :
        m.devices[i].manual \/ m.devices[i].age <= StaleAge}

(* The same test as the code makes it, on two readings of SDL_GetTicks,    *)
(* the milliseconds since the start modulo wrap, which is 2^32.            *)
Ticks(t, wrap) == t % wrap
KeptByClock(now, seen) == now < seen \/ now - seen <= StaleAge

(* How long ago the UI loops started to wait, by unsigned subtraction.     *)
Since(now, start, wrap) == (now - start) % wrap

(* The k-th smallest element of I. *)
Nth(I, k) == CHOOSE i \in I : Cardinality({j \in I : j < i}) = k - 1

Compacted(m) ==
    [k \in 1..Cardinality(Kept(m)) |-> m.devices[Nth(Kept(m), k)]]

Within_Unclamped(index, n) == index    \* mutant: the last clamp is missing
(* The last clamp of the selection. *)
Within(index, n) == IF index >= n THEN n - 1 ELSE index

(* Where the selected device is now. *)
Found_Never(rest, m) == {}         \* mutant: the index alone is kept
Found(rest, m) == IF HasSelection(m) THEN Matching(rest, Selected(m)) ELSE {}

Pruned(m) ==
    LET rest  == [m EXCEPT !.devices = Compacted(m)]
        n     == Cardinality(Kept(m))
        again == Found(rest, m)
    IN  [rest EXCEPT !.selected =
            IF n = 0 THEN 0
            ELSE IF again # {} THEN First(again) - 1
            ELSE Within(m.selected, n)]

(* session_manager_move by one entry, around both ends. *)
Up(m) ==
    IF m.devices = <<>> THEN m
    ELSE [m EXCEPT !.selected =
            IF m.selected = 0 THEN Len(m.devices) - 1 ELSE m.selected - 1]

Down(m) ==
    IF m.devices = <<>> THEN m
    ELSE [m EXCEPT !.selected =
            IF m.selected + 1 >= Len(m.devices) THEN 0 ELSE m.selected + 1]

Remembered(m) ==
    IF HasSelection(m) THEN [m EXCEPT !.preferred = Selected(m)] ELSE m

MatchesPreferred_HostOnly(m, d) ==     \* mutant: the serial is not looked at
    /\ m.preferred # NoDevice
    /\ m.preferred.source = d.source /\ m.preferred.host = d.host
MatchesPreferred(m, d) == m.preferred # NoDevice /\ SameDevice(m.preferred, d)

-----------------------------------------------------------------------------
(* The type of a registry, and what must hold of each: its selection names *)
(* an entry.                                                               *)

Registries ==
    [devices   : Seq(Entries),
     selected  : Nat,
     preferred : Devices \cup {NoDevice}]

SelectionNamesEntry(m) ==
    m.selected < Len(m.devices) \/ (m.devices = <<>> /\ m.selected = 0)
=============================================================================
