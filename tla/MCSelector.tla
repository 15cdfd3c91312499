------------------------------ MODULE MCSelector ------------------------------
(***************************************************************************)
(* Instances of Selector for TLC: two consoles that run SysDVR, one of     *)
(* which changes its address, and announcements that share an address.     *)
(***************************************************************************)
EXTENDS Selector

CONSTANTS s1, s2, h1, h2

Dev(source, serial, host) ==
    [source |-> source, serial |-> serial, host |-> host]

(* Console 1 moves to h2, where console 2 announces itself too, and both  *)
(* backends run at h1; with the entry given at launch, which has no serial *)
(* and any address, up to four servers for a registry of three entries.    *)
Moving ==
    {Dev("sysdvr", s1, h1), Dev("sysdvr", s1, h2), Dev("sysdvr", s2, h2),
     Dev("frametap", NoSerial, h1)}

(* Three servers of both backends that stay where they are. *)
Crowd ==
    {Dev("sysdvr", s1, h1), Dev("sysdvr", s2, h2),
     Dev("frametap", NoSerial, h1)}

(* A console that moves between the addresses of two entries, one of which *)
(* may be the manual one, and a second server at its first address.        *)
Movers ==
    {Dev("sysdvr", s1, h1), Dev("sysdvr", s1, h2),
     Dev("frametap", NoSerial, h1)}
=============================================================================
